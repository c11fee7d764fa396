----------------------------- MODULE Directory -----------------------------
(***************************************************************************)
(* Chapters, brotherhoods and the zones they choose: ZoneService,          *)
(* ChapterService, BrotherhoodService, and their controllers. The zone     *)
(* decides which chapter accepts or rejects the parades of a brotherhood,  *)
(* and whether a brotherhood may have parades and floats at all.           *)
(*                                                                         *)
(* The profile forms of the two kinds of actors are treated alike.         *)
(***************************************************************************)
CONSTANTS
    Chapter,
    Brotherhood,
    Window,     \* browser windows, in which any actor may have logged in
    Zone,       \* the rows that are ever inserted
    Typed,      \* the e-mails people type into their profiles
    NoZone,     \* the zone is null
    NoActor     \* no such row

ASSUME ActorsAreTwoKinds == Chapter \cap Brotherhood = {}
ASSUME NoZoneIsNoZone == NoZone \notin Zone
ASSUME TypedIsEmail == Typed \subseteq {"matching", "other"}

Actor == Chapter \cup Brotherhood

\* The e-mail is one that checkEmail() accepts, or another one.
Row == [zone : Zone \cup {NoZone}, email : {"matching", "other"}]

ASSUME NoActorIsNoRow == NoActor \notin Row

VARIABLES
    actor,    \* the rows of chapters and brotherhoods
    zone,     \* the rows of the zones; an edited one has a version other than 0
    owners,   \* the brotherhoods with parades or floats
    tab       \* the profile each window shows or has sent

vars == <<actor, zone, owners, tab>>

Registered == {a \in Actor : actor[a] # NoActor}

Listed == {z \in Zone : zone[z] \in {"new", "edited"}}

(* pc       the window shows a profile, or waits for the answer to one     *)
(* who      the actor logged in                                            *)
(* offered  the zones of the select, none if the actor had one             *)
TabState ==
    [pc : {"idle", "form", "check"}, who : Actor \cup {NoActor}, offered : SUBSET Zone]

Idle == [pc |-> "idle", who |-> NoActor, offered |-> {}]

Init ==
    /\ actor = [a \in Actor |-> NoActor]
    /\ zone = [z \in Zone |-> "none"]
    /\ owners = {}
    /\ tab = [w \in Window |-> Idle]

Show(w, next) == tab' = [tab EXCEPT ![w] = next]

\* The foreign key of the zone and, for chapters, the unique key: it is one to one.
Taken(a) == {actor[c].zone : c \in (Chapter \cap Registered) \ {a}}

\* Mutant: the zone of a chapter is many to one.
MayRefer(a, z) == z \in Listed \cup {NoZone}

Refers(a, z) ==
    /\ z \in Listed \cup {NoZone}
    /\ a \in Chapter => z \notin Taken(a) \ {NoZone}

-----------------------------------------------------------------------------
(* Registration and profile *)

\* The account, the boxes and the empty history are inserted with the actor.
Register(a, z) ==
    /\ a \notin Registered
    /\ Refers(a, z)
    /\ actor' = [actor EXCEPT ![a] = [zone |-> z, email |-> "matching"]]
    /\ UNCHANGED <<zone, owners, tab>>

OpenProfile(w, a) ==
    /\ tab[w].pc = "idle"
    /\ a \in Registered
    /\ Show(w, [pc |-> "form", who |-> a,
                offered |-> IF actor[a].zone = NoZone THEN Listed ELSE {}])
    /\ UNCHANGED <<actor, zone, owners>>

\* The converter finds no zone that was deleted meanwhile.
Converted(z) == IF z \in Listed THEN z ELSE NoZone

\* Mutant: the form's zone is set whenever there is one, as the other fields are.
ChosenAgain(row, z) == IF z # NoZone THEN z ELSE row.zone

\* bd.getZone() == null && form.getZone() != null
Chosen(row, z) == IF row.zone = NoZone THEN z ELSE row.zone

\* reconstruct(): it sets what the form says in the stored row, and its commit
\* writes it, before the controller has looked at the e-mail.
SendProfile(w, z, e) ==
    LET a == tab[w].who
        chosen == Chosen(actor[a], Converted(z))
    IN  /\ tab[w].pc = "form"
        /\ z \in tab[w].offered \cup {NoZone}
        /\ Refers(a, chosen)
        /\ actor' = [actor EXCEPT ![a] = [zone |-> chosen, email |-> e]]
        /\ Show(w, [tab[w] EXCEPT !.pc = "check"])
        /\ UNCHANGED <<zone, owners>>

\* checkEmail(): the form is shown again, or save() finds the row as it should be.
CheckProfile(w) ==
    /\ tab[w].pc = "check"
    /\ Show(w, Idle)
    /\ UNCHANGED <<actor, zone, owners>>

\* The form is left, or refused before anything is written: a field of it is not
\* valid, or another chapter has the zone.
Leave(w) ==
    /\ tab[w].pc = "form"
    /\ Show(w, Idle)
    /\ UNCHANGED <<actor, zone, owners>>

-----------------------------------------------------------------------------
(* The administrator's zones *)

CreateZone(z) ==
    /\ zone[z] = "none"
    /\ zone' = [zone EXCEPT ![z] = "new"]
    /\ UNCHANGED <<actor, owners, tab>>

\* The form has no version: merging it fails unless that of the row is still 0, and
\* what it changes makes it 1. From then on no form of this zone is taken.
EditZone(z) ==
    /\ zone[z] = "new"
    /\ zone' = [zone EXCEPT ![z] = "edited"]
    /\ UNCHANGED <<actor, owners, tab>>

\* findSelectedZones() asks the brotherhoods only.
Selected == {actor[b].zone : b \in Brotherhood \cap Registered} \ {NoZone}

\* Mutant: what the query leaves out no key holds either.
UnheldByBrotherhoods(z) == z \notin Selected

\* The foreign keys of chapters and brotherhoods.
Unheld(z) == \A a \in Registered : actor[a].zone # z

DeleteZone(z) ==
    /\ zone[z] = "new"
    /\ Selected # {}
    /\ z \notin Selected
    /\ Unheld(z)
    /\ zone' = [zone EXCEPT ![z] = "gone"]
    /\ UNCHANGED <<actor, owners, tab>>

-----------------------------------------------------------------------------
(* What a brotherhood needs a zone for *)

\* Mutant: no Assert.notNull(brotherhood.getZone()).
MayOwnAnyway(b) == b \in Registered

MayOwn(b) == b \in Registered /\ actor[b].zone # NoZone

\* The first parade or float of a brotherhood is saved.
Own(b) ==
    /\ MayOwn(b)
    /\ owners' = owners \cup {b}
    /\ UNCHANGED <<actor, zone, tab>>

\* The last one is deleted.
Disown(b) ==
    /\ b \in owners
    /\ owners' = owners \ {b}
    /\ UNCHANGED <<actor, zone, tab>>

Next ==
    \/ \E a \in Actor, z \in Zone \cup {NoZone} : Register(a, z)
    \/ \E w \in Window :
        \/ \E a \in Actor : OpenProfile(w, a)
        \/ \E z \in Zone \cup {NoZone}, e \in Typed : SendProfile(w, z, e)
        \/ CheckProfile(w) \/ Leave(w)
    \/ \E z \in Zone : CreateZone(z) \/ EditZone(z) \/ DeleteZone(z)
    \/ \E b \in Brotherhood : Own(b) \/ Disown(b)

Spec == Init /\ [][Next]_vars

-----------------------------------------------------------------------------
(* Properties *)

\* The variables hold what the code can put there, and the zones that were chosen
\* are there, whoever deleted what while a profile was open.
TypeOK ==
    /\ actor \in [Actor -> Row \cup {NoActor}]
    /\ \A a \in Registered : actor[a].zone \in Listed \cup {NoZone}
    /\ zone \in [Zone -> {"none", "new", "edited", "gone"}]
    /\ owners \in SUBSET Brotherhood
    /\ tab \in [Window -> TabState]

\* parade.getBrotherhood().getZone().equals(chapter.getZone())
Deciders(b) ==
    {c \in Chapter \cap Registered : actor[b].zone # NoZone /\ actor[c].zone = actor[b].zone}

\* Once a chapter decides on the parades of a brotherhood, it and no other does, for
\* ever: neither of the two changes its zone with an old profile page, no second
\* chapter comes to the zone, and the zone is not deleted.
DeciderStaysStep ==
    \A b \in Brotherhood \cap Registered :
        Deciders(b) # {} => Deciders(b)' = Deciders(b)

DeciderStays == [][DeciderStaysStep]_vars

\* A brotherhood with parades or floats has a zone, which the pages of the chapters
\* take for granted (ParadeController.accept), whatever became of zones since.
OwnersHaveAZone == \A b \in owners : actor[b].zone # NoZone

\* "es mejor hacer la comprobacion en vistas, controladores y/o servicios" (Actor.java,
\* of the pattern of the e-mail): no actor has an e-mail the check refuses, except
\* while a request of his is still being checked.
EmailsMatch ==
    \A a \in Registered :
        \/ actor[a].email = "matching"
        \/ \E w \in Window : tab[w].pc = "check" /\ tab[w].who = a
=============================================================================
