--------------------------- MODULE MessageBoxes ---------------------------
(***************************************************************************)
(* The messages of the actors and the boxes they keep them in:             *)
(* MessageService, MessageBoxService and their controllers.                *)
(*                                                                         *)
(* A box holds copies of messages (the join table of MessageBox.messages,  *)
(* a bag). A request that writes every row it reads is one action, for it  *)
(* commits only if nobody wrote one of them meanwhile; moving, deleting    *)
(* and creating are two, since they read rows they do not write.           *)
(*                                                                         *)
(* The tree of the boxes is BoxTree: it decides which page lists a box and *)
(* which boxes are deleted along with one, here any of the owner's.        *)
(***************************************************************************)
EXTENDS Naturals, FiniteSets

CONSTANTS
    Actor,      \* whoever has an account
    Window,     \* browser windows
    UserOf,     \* the actor logged in in each window
    Extra,      \* bound: the boxes actors can create, each an owner and an id
    Typed,      \* the names actors type for them
    MaxId,      \* bound: how many messages are ever sent
    NoMessage,  \* no such row
    NoBox       \* no such box

ASSUME UsersAssumption == UserOf \in [Window -> Actor]
ASSUME IdsAssumption == MaxId \in Nat \ {0}

Ids == 1..MaxId

\* MessageBoxService.initializeDefaultBoxes
Predefined == {"In box", "Trash box", "Out box", "Spam box", "Notification box"}

\* A box is named here by its owner and, within him, by its id.
Box == (Actor \X Predefined) \cup Extra

ASSUME BoxAssumption ==
    /\ NoBox \notin Box
    /\ IsFiniteSet(Extra)
    /\ \A b \in Extra : b[1] \in Actor /\ b \notin Actor \X Predefined

ASSUME NoMessageAssumption == NoMessage \notin [sender : Actor, recipient : Actor]

Owner(b) == b[1]
IsPredefined(b) == b \notin Extra

VARIABLES
    name,     \* of each box: "none" before it is created, "deleted" after
    copies,   \* of each box, how often it holds each message
    message,  \* the rows of the messages, by id
    nextId,   \* the id generator
    tab       \* what each window has asked for

vars == <<name, copies, message, nextId, tab>>

(* pc        the request the window waits for                              *)
(* id        the message it is about                                       *)
(* from, to  the boxes it writes                                           *)
(* found     whether findMessage() found the message in other boxes        *)
(* typed     the name of the box to create                                 *)
(* A request is stale when others wrote one of its boxes since it read them. *)
TabState == [pc : {"idle", "move", "purge", "create", "stale"},
             id : Ids \cup {0},
             from : Box \cup {NoBox},
             to : Box \cup {NoBox},
             found : BOOLEAN,
             typed : Typed \cup {"none"}]

Idle == [pc |-> "idle", id |-> 0, from |-> NoBox, to |-> NoBox,
         found |-> FALSE, typed |-> "none"]

Stale == [Idle EXCEPT !.pc = "stale"]

Init ==
    /\ name = [b \in Box |-> IF IsPredefined(b) THEN b[2] ELSE "none"]
    /\ copies = [b \in Box |-> [i \in Ids |-> 0]]
    /\ message = [i \in Ids |-> NoMessage]
    /\ nextId = 1
    /\ tab = [w \in Window |-> Idle]

Boxes(a) == {b \in Box : Owner(b) = a /\ name[b] \notin {"none", "deleted"}}
Stored == {i \in Ids : message[i] # NoMessage}

\* findByName() is a query for one row: with two boxes of the name it throws.
Named(a, n) == {b \in Boxes(a) : name[b] = n}
Found(a, n) == Cardinality(Named(a, n)) = 1

Show(w, next) == tab' = [tab EXCEPT ![w] = next]

\* Mutant: the boxes have no @Version.
TouchesNothing(w, S, next) == Show(w, next)

\* A commit that writes the boxes S.
Touches(w, S, next) ==
    tab' = [v \in Window |->
              IF v = w THEN next
              ELSE IF {tab[v].from, tab[v].to} \cap S # {} THEN Stale
              ELSE tab[v]]

-----------------------------------------------------------------------------
(* Sending *)

\* A message from a to r put in the boxes S.
Posts(w, a, r, S) ==
    /\ nextId \in Ids
    /\ nextId' = nextId + 1
    /\ message' = [message EXCEPT ![nextId] = [sender |-> a, recipient |-> r]]
    /\ copies' = [b \in Box |->
                    IF b \in S THEN [copies[b] EXCEPT ![nextId] = @ + 1] ELSE copies[b]]
    /\ Touches(w, S, Idle)
    /\ UNCHANGED name

\* The window's actor writes to r; spam goes to the spam box. The notifications of
\* the other services go to the notification box.
Send(w, r) ==
    /\ tab[w].pc = "idle"
    /\ r # UserOf[w]
    /\ Found(UserOf[w], "Out box")
    /\ \E n \in {"In box", "Spam box", "Notification box"} :
         /\ Found(r, n)
         /\ Posts(w, UserOf[w], r, Named(r, n) \cup Named(UserOf[w], "Out box"))

\* A message of the window's actor to himself, with the actors R notified: a
\* broadcast (all but the administrators), the publication of a parade (all), the
\* news that a brotherhood rejected a member (itself).
Broadcast(w, R) ==
    LET a == UserOf[w]
    IN  /\ tab[w].pc = "idle"
        /\ Found(a, "Out box")
        /\ \A r \in R : Found(r, "Notification box")
        /\ Posts(w, a, a, Named(a, "Out box")
                            \cup UNION {Named(r, "Notification box") : r \in R})

-----------------------------------------------------------------------------
(* Moving and deleting *)

About(pc, i, from, to, found) ==
    [Idle EXCEPT !.pc = pc, !.id = i, !.from = from, !.to = to, !.found = found]

\* move() as far as it reads: the first of the actor's boxes that holds the message.
MoveTo(w, i, d) ==
    /\ tab[w].pc = "idle"
    /\ i \in Stored
    /\ d \in Boxes(UserOf[w])
    /\ \E o \in Boxes(UserOf[w]) :
         /\ copies[o][i] > 0
         /\ Show(w, About("move", i, o, d, FALSE))
    /\ UNCHANGED <<name, copies, message, nextId>>

\* Collection.remove of something that may not be there.
Without(n) == IF n = 0 THEN 0 ELSE n - 1

\* Mutants: the message stays where it was; it is added first, and then all of it
\* removed from the origin.
MovedAlso(i, o, d) == [copies EXCEPT ![d][i] = @ + 1]
AddedThenRemoved(i, o, d) == [copies EXCEPT ![d][i] = @ + 1, ![o][i] = 0]

Moved(i, o, d) ==
    LET out == [copies EXCEPT ![o][i] = Without(@)]
    IN  [out EXCEPT ![d][i] = @ + 1]

Move(w) ==
    /\ tab[w].pc = "move"
    /\ copies' = Moved(tab[w].id, tab[w].from, tab[w].to)
    /\ Touches(w, {tab[w].from, tab[w].to}, Idle)
    /\ UNCHANGED <<name, message, nextId>>

\* Of the boxes of sender and recipient, those not named as the trash box count.
findMessage(i) ==
    \E b \in Boxes(message[i].sender) \cup Boxes(message[i].recipient) :
        name[b] # "Trash box" /\ copies[b][i] > 0

\* delete(): to the trash, or for good out of it.
Delete(w, i) ==
    /\ tab[w].pc = "idle"
    /\ i \in Stored
    /\ Found(UserOf[w], "Trash box")
    /\ \E t \in Named(UserOf[w], "Trash box") :
         IF copies[t][i] > 0
         THEN /\ Show(w, About("purge", i, t, t, findMessage(i)))
              /\ UNCHANGED <<name, copies, message, nextId>>
         ELSE MoveTo(w, i, t)

\* The row is deleted too when the message was found nowhere else. Any other box
\* that holds it, another actor's trash say, refuses that.
Purge(w) ==
    LET i == tab[w].id
        left == [copies EXCEPT ![tab[w].from][i] = Without(@)]
    IN  /\ tab[w].pc = "purge"
        /\ copies' = left
        /\ \/ tab[w].found /\ UNCHANGED message
           \/ /\ ~tab[w].found
              /\ \A b \in Box : left[b][i] = 0
              /\ message' = [message EXCEPT ![i] = NoMessage]
        /\ Touches(w, {tab[w].from}, Idle)
        /\ UNCHANGED <<name, nextId>>

-----------------------------------------------------------------------------
(* The boxes *)

\* checkUniqueBox()
AskCreate(w, n) ==
    /\ tab[w].pc = "idle"
    /\ \A b \in Boxes(UserOf[w]) : name[b] # n
    /\ Show(w, [Idle EXCEPT !.pc = "create", !.typed = n])
    /\ UNCHANGED <<name, copies, message, nextId>>

Create(w) ==
    /\ tab[w].pc = "create"
    /\ \E b \in Extra :
         /\ Owner(b) = UserOf[w]
         /\ name[b] = "none"
         /\ name' = [name EXCEPT ![b] = tab[w].typed]
    /\ Show(w, Idle)
    /\ UNCHANGED <<copies, message, nextId>>

Emptied(S) == [b \in Box |-> IF b \in S THEN [i \in Ids |-> 0] ELSE copies[b]]

Custom(a) == {b \in Boxes(a) : ~IsPredefined(b)}

\* POST messagebox/edit.do. reconstruct() makes a box without messages, and save()
\* gives the stored box the messages of that.
Edit(w, b, n) ==
    /\ tab[w].pc = "idle"
    /\ b \in Custom(UserOf[w])
    /\ name' = [name EXCEPT ![b] = n]
    /\ copies' = Emptied({b})
    /\ Touches(w, {b}, Idle)
    /\ UNCHANGED <<message, nextId>>

\* GET messagebox/delete.do, S the box and the boxes below it. The messages go with
\* them; their rows stay.
DeleteBox(w, S) ==
    /\ tab[w].pc = "idle"
    /\ S # {}
    /\ S \subseteq Custom(UserOf[w])
    /\ name' = [b \in Box |-> IF b \in S THEN "deleted" ELSE name[b]]
    /\ copies' = Emptied(S)
    /\ Touches(w, S, Idle)
    /\ UNCHANGED <<message, nextId>>

-----------------------------------------------------------------------------

\* A transaction fails, on a stale box, on a row still held or for its own reasons.
Rollback(w) ==
    /\ tab[w].pc # "idle"
    /\ Show(w, Idle)
    /\ UNCHANGED <<name, copies, message, nextId>>

Next ==
    \E w \in Window :
        \/ \E r \in Actor : Send(w, r)
        \/ \E R \in SUBSET Actor : Broadcast(w, R)
        \/ \E i \in Ids, d \in Box : MoveTo(w, i, d)
        \/ \E i \in Ids : Delete(w, i)
        \/ Move(w)
        \/ Purge(w)
        \/ \E n \in Typed : AskCreate(w, n)
        \/ Create(w)
        \/ \E b \in Extra, n \in Typed : Edit(w, b, n)
        \/ \E S \in SUBSET Extra : DeleteBox(w, S)
        \/ Rollback(w)

Spec == Init /\ [][Next]_vars

-----------------------------------------------------------------------------
(* Properties *)

\* The variables hold what the code can put there. Two copies in one box are the
\* most: an announcement's own, moved to the same box.
TypeOK ==
    /\ name \in [Box -> Predefined \cup Typed \cup {"none", "deleted"}]
    /\ copies \in [Box -> [Ids -> 0..2]]
    /\ message \in [Ids -> [sender : Actor, recipient : Actor] \cup {NoMessage}]
    /\ nextId \in 1..(MaxId + 1)
    /\ tab \in [Window -> TabState]

\* Of a message from one actor to another each has at most one copy, however many
\* windows move and delete it at once.
OneCopyEach ==
    \A i \in Stored : message[i].sender # message[i].recipient =>
        \A b, c \in Box :
            copies[b][i] > 0 /\ copies[c][i] > 0 /\ Owner(b) = Owner(c)
              => b = c /\ copies[b][i] = 1

Holds(a, i) == \E b \in Box : Owner(b) = a /\ copies[b][i] > 0

\* An actor loses the last copy of a message only by deleting it in his own trash
\* box, or with a box of his own making that he edits or deletes: never to a move,
\* nor to what the other side does with its copy.
NothingLostStep ==
    \A a \in Actor, i \in Ids : Holds(a, i) /\ ~Holds(a, i)' =>
        \E b \in Box :
            /\ Owner(b) = a
            /\ copies[b][i] > 0
            /\ \/ /\ name[b] = "Trash box"
                  /\ \E w \in Window : UserOf[w] = a /\ tab[w].pc = "purge" /\ tab[w].id = i
               \/ ~IsPredefined(b) /\ \A j \in Ids : copies'[b][j] = 0

NothingLost == [][NothingLostStep]_vars

\* The boxes of an actor have different names ("messagebox.name.unique = Must be
\* unique"), so that findByName() has one box to answer with.
UniqueNames ==
    \A a \in Actor : \A b, c \in Boxes(a) : name[b] = name[c] => b = c

=============================================================================
