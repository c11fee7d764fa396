----------------------------- MODULE Moderation -----------------------------
(***************************************************************************)
(* Spammers, scores and bans: UtilityService.checkSpammers, computeScore,  *)
(* ActorService.ban and unban, and their controllers, against the profile  *)
(* forms of the actors, which write the same row as the computations.      *)
(*                                                                         *)
(* Which letters are spam and which words count is left open: a            *)
(* computation may judge anybody either way.                               *)
(***************************************************************************)
CONSTANTS
    Actor,     \* the actors that have registered
    Window,    \* browser windows of administrators, and of actors at their profiles
    Profile,   \* what the fields of a profile say
    NoMark,    \* spammer or score is null
    NoActor    \* the request is about nobody in particular

\* low: the score is below -0.5, which is all that is asked of it.
Row == [spammer : BOOLEAN \cup {NoMark}, low : BOOLEAN \cup {NoMark}, profile : Profile]

VARIABLES
    actor,    \* the rows of the actors
    banned,   \* who is banned, a column of the row of the account
    tab       \* what each window has asked for

vars == <<actor, banned, tab>>

Requests == {"flag", "score", "profile", "complete", "ban", "unban"}

(* pc      the request the window waits for                                *)
(* who     whom a ban or a profile is about                                *)
(* view    the rows as the session read them                               *)
(* write   the rows as it has changed them                                 *)
(* missed  the actors whose rows others wrote since                        *)
(* stale   others wrote the account of who since                           *)
TabState == [pc : {"idle"} \cup Requests,
             who : Actor \cup {NoActor},
             view : [Actor -> Row],
             write : [Actor -> Row],
             missed : SUBSET Actor,
             stale : BOOLEAN]

Fresh == [spammer |-> NoMark, low |-> NoMark, profile |-> CHOOSE p \in Profile : TRUE]
FreshRows == [a \in Actor |-> Fresh]

Idle == [pc |-> "idle", who |-> NoActor, view |-> FreshRows, write |-> FreshRows,
         missed |-> {}, stale |-> FALSE]

\* create() of the kinds of actors sets neither mark, and no ban.
Init ==
    /\ actor = FreshRows
    /\ banned = {}
    /\ tab = [w \in Window |-> Idle]

Show(w, next) == tab' = [tab EXCEPT ![w] = next]

\* The session of window w reads the rows and sets in them what `write` says.
Asks(w, pc, a, write) ==
    /\ tab[w].pc = "idle"
    /\ Show(w, [pc |-> pc, who |-> a, view |-> actor, write |-> write,
                missed |-> {}, stale |-> FALSE])
    /\ UNCHANGED <<actor, banned>>

-----------------------------------------------------------------------------
(* What writes the rows of actors                                          *)

\* The rows a commit writes: a row that was set to what it was is not dirty.
Dirty(t) == {a \in Actor : t.write[a] # t.view[a]}

\* Mutant: the entity has no @Version.
CommitsUnnoticed(t) == TRUE

\* Rows are written whole, and not at all if others wrote one of them.
Commits(t) == Dirty(t) \cap t.missed = {}

Written(w, next) ==
    LET t == tab[w]
    IN  /\ Commits(t)
        /\ actor' = [a \in Actor |-> IF a \in Dirty(t) THEN t.write[a] ELSE actor[a]]
        /\ tab' = [v \in Window |->
                     IF v = w THEN next
                     ELSE IF tab[v].pc = "idle" THEN Idle
                     ELSE [tab[v] EXCEPT !.missed = @ \cup Dirty(t)]]
        /\ UNCHANGED banned

\* checkSpammers() judges all actors in one transaction.
AskFlags(w) ==
    \E s \in [Actor -> BOOLEAN] :
        Asks(w, "flag", NoActor, [a \in Actor |-> [actor[a] EXCEPT !.spammer = s[a]]])

Flag(w) == tab[w].pc = "flag" /\ Written(w, Idle)

\* computeScore() likewise.
AskScores(w) ==
    \E s \in [Actor -> BOOLEAN] :
        Asks(w, "score", NoActor, [a \in Actor |-> [actor[a] EXCEPT !.low = s[a]]])

Score(w) == tab[w].pc = "score" /\ Written(w, Idle)

\* reconstruct() of the profile form.
AskProfile(w, a, p) ==
    Asks(w, "profile", a, [actor EXCEPT ![a].profile = p])

\* save() stores the profile once more, with the e-mail in lower case and the telephone
\* number completed.
Completed(t, p) ==
    [t EXCEPT !.pc = "complete", !.view = t.write,
              !.write = [t.write EXCEPT ![t.who].profile = p]]

\* The form may be refused now.
SaveProfile(w) ==
    /\ tab[w].pc = "profile"
    /\ \/ Written(w, Idle)
       \/ \E p \in Profile : Written(w, Completed(tab[w], p))

CompleteProfile(w) == tab[w].pc = "complete" /\ Written(w, Idle)

-----------------------------------------------------------------------------
(* What writes the accounts. A ban reads the marks but writes the account  *)
(* only, so that it does not notice when the marks change meanwhile.       *)

\* Mutant: one of the marks is enough, and a null mark is not looked at.
SuspiciousByHalf(row) == row.spammer = TRUE

Suspicious(row) == row.spammer = TRUE /\ row.low = TRUE

AskBan(w, a) ==
    /\ a \notin banned
    /\ Suspicious(actor[a])
    /\ Asks(w, "ban", a, actor)

AskUnban(w, a) ==
    /\ a \in banned
    /\ Asks(w, "unban", a, actor)

\* Mutant: the account has no @Version.
AccountWrittenUnnoticed(w, accounts) ==
    banned' = accounts /\ Show(w, Idle) /\ UNCHANGED actor

AccountWritten(w, accounts) ==
    /\ ~tab[w].stale
    /\ banned' = accounts
    /\ tab' = [v \in Window |->
                 IF v = w THEN Idle
                 ELSE [tab[v] EXCEPT !.stale =
                         @ \/ (tab[v].pc # "idle" /\ tab[v].who = tab[w].who)]]
    /\ UNCHANGED actor

Ban(w) == tab[w].pc = "ban" /\ AccountWritten(w, banned \cup {tab[w].who})

Unban(w) == tab[w].pc = "unban" /\ AccountWritten(w, banned \ {tab[w].who})

\* A transaction fails, on a stale row or for its own reasons.
Rollback(w) ==
    /\ tab[w].pc # "idle"
    /\ Show(w, Idle)
    /\ UNCHANGED <<actor, banned>>

Next ==
    \E w \in Window :
        \/ AskFlags(w) \/ Flag(w) \/ AskScores(w) \/ Score(w)
        \/ \E a \in Actor : AskBan(w, a) \/ AskUnban(w, a)
        \/ \E a \in Actor, p \in Profile : AskProfile(w, a, p)
        \/ SaveProfile(w) \/ CompleteProfile(w) \/ Ban(w) \/ Unban(w) \/ Rollback(w)

Spec == Init /\ [][Next]_vars

-----------------------------------------------------------------------------
(* Properties *)

\* The variables hold what the code can put there, and a session knows what is stored
\* in the rows that others have not written since it read them.
TypeOK ==
    /\ actor \in [Actor -> Row]
    /\ banned \in SUBSET Actor
    /\ tab \in [Window -> TabState]
    /\ \A w \in Window :
        /\ tab[w].pc \in Requests => \A a \in Actor \ tab[w].missed : tab[w].view[a] = actor[a]
        /\ tab[w].pc \in {"ban", "unban"} /\ ~tab[w].stale =>
             (tab[w].who \in banned <=> tab[w].pc = "unban")

\* Whoever is banned was judged by both computations, as Actor.spammer and Actor.score
\* still say: no request that began before puts a row back to what it was then.
BannedWereJudged ==
    \A a \in banned : actor[a].spammer # NoMark /\ actor[a].low # NoMark

\* A profile changes to what somebody typed into its form, and a mark to what a
\* computation of that mark says: nobody's commit puts back what it had read of the
\* other columns.
NothingPutBackStep ==
    \A a \in Actor :
        LET to(pcs, col) == \E w \in Window : /\ tab[w].pc \in pcs /\ tab'[w].pc # tab[w].pc
                                              /\ tab[w].write[a][col] = actor'[a][col]
        IN  /\ actor'[a].profile # actor[a].profile => to({"profile", "complete"}, "profile")
            /\ actor'[a].spammer # actor[a].spammer => to({"flag"}, "spammer")
            /\ actor'[a].low # actor[a].low => to({"score"}, "low")

NothingPutBack == [][NothingPutBackStep]_vars

=============================================================================
