-------------------------- MODULE HistoryRecords --------------------------
(***************************************************************************)
(* The history of one brotherhood: HistoryService, the services of the     *)
(* inception, period, legal, link and miscellaneous records, and their     *)
(* controllers. A record is a row of its own, and the history lists it: as *)
(* the inception record, or in one of the other lists, which are treated   *)
(* alike and modelled as one.                                              *)
(*                                                                         *)
(* To list a record or take it off a list writes the row of the history.   *)
(* A list is a bag that is written as a whole, as the session made it.     *)
(***************************************************************************)
EXTENDS Naturals

CONSTANTS
    Window,   \* browser windows of the brotherhood
    Text,     \* what a record says
    MaxId,    \* bound: how many records are ever saved
    NoRecord  \* no such row, and no inception record

Ids == 1..MaxId

Record == [kind : {"inception", "listed"}, text : Text]

VARIABLES
    record,     \* the rows of all records, by id
    inception,  \* History.inceptionRecord
    list,       \* how often each id is in the list
    nextId,     \* the id generator
    tab         \* what each window has asked for

vars == <<record, inception, list, nextId, tab>>

(* pc     the request the window waits for                                 *)
(* id     the record it is about                                           *)
(* kind, text  what the form says of it                                    *)
(* list   the list of the history as the session read it                   *)
(* stale  others wrote the history or the record since                     *)
TabState == [pc : {"idle", "add", "edit", "delete"},
             id : Ids \cup {0},
             kind : {"inception", "listed"},
             text : Text,
             list : [Ids -> 0..2],
             stale : BOOLEAN]

AnyText == CHOOSE t \in Text : TRUE
Nothing == [i \in Ids |-> 0]

Idle == [pc |-> "idle", id |-> 0, kind |-> "listed", text |-> AnyText,
         list |-> Nothing, stale |-> FALSE]

Init ==
    /\ record = [i \in Ids |-> NoRecord]
    /\ inception = NoRecord
    /\ list = Nothing
    /\ nextId = 1
    /\ tab = [w \in Window |-> Idle]

Stored == {i \in Ids : record[i] # NoRecord}

\* getInceptionRecord().equals, getPeriodRecords().contains, ...
Lists(i) == inception = i \/ list[i] > 0

Show(w, next) == tab' = [tab EXCEPT ![w] = next]

Asks(w, pc, i, kind, text) ==
    /\ tab[w].pc = "idle"
    /\ Show(w, [pc |-> pc, id |-> i, kind |-> kind, text |-> text,
                list |-> list, stale |-> FALSE])
    /\ UNCHANGED <<record, inception, list, nextId>>

\* A request will write its record and, unless it edits, the history.
Writes(t, i, history) ==
    \/ t.pc \in {"edit", "delete"} /\ t.id = i
    \/ t.pc \in {"add", "delete"} /\ history

\* Mutant: the history has no @Version.
EndsUnnoticed(w, i, history) == Show(w, Idle)

\* The commit of window w, which wrote record i and, maybe, the history.
Ends(w, i, history) ==
    tab' = [v \in Window |->
              IF v = w THEN Idle
              ELSE [tab[v] EXCEPT !.stale = @ \/ Writes(tab[v], i, history)]]

-----------------------------------------------------------------------------

\* Mutant: the form of a new inception record is not asked whether there is one.
MayAddAlways(kind) == TRUE

\* A new inception record needs a history without one.
MayAdd(kind) == kind = "inception" => inception = NoRecord

AskAdd(w, kind, text) == MayAdd(kind) /\ Asks(w, "add", 0, kind, text)

Add(w) ==
    LET t == tab[w]
    IN  /\ t.pc = "add"
        /\ ~t.stale
        /\ nextId \in Ids
        /\ record' = [record EXCEPT ![nextId] = [kind |-> t.kind, text |-> t.text]]
        /\ nextId' = nextId + 1
        /\ \/ t.kind = "inception" /\ inception' = nextId /\ UNCHANGED list
           \/ /\ t.kind = "listed"
              /\ list' = [t.list EXCEPT ![nextId] = @ + 1]
              /\ UNCHANGED inception
        /\ Ends(w, nextId, TRUE)

\* A form that changes nothing writes nothing.
AskEdit(w, i, text) ==
    /\ i \in Stored
    /\ text # record[i].text
    /\ Lists(i)
    /\ Asks(w, "edit", i, record[i].kind, text)

\* The stored record is given the fields of the form. It is listed already.
Edit(w) ==
    LET t == tab[w]
    IN  /\ t.pc = "edit"
        /\ ~t.stale
        /\ record' = [record EXCEPT ![t.id].text = t.text]
        /\ Ends(w, t.id, FALSE)
        /\ UNCHANGED <<inception, list, nextId>>

AskDelete(w, i) ==
    /\ i \in Stored
    /\ Lists(i)
    /\ Asks(w, "delete", i, record[i].kind, AnyText)

\* Mutant: the record stays in the list.
DelistsNothing(t) == t.list

Delisted(t) == [t.list EXCEPT ![t.id] = @ - 1]

Delete(w) ==
    LET t == tab[w]
    IN  /\ t.pc = "delete"
        /\ ~t.stale
        /\ record' = [record EXCEPT ![t.id] = NoRecord]
        /\ \/ t.kind = "inception" /\ inception' = NoRecord /\ UNCHANGED list
           \/ t.kind = "listed" /\ list' = Delisted(t) /\ UNCHANGED inception
        /\ Ends(w, t.id, TRUE)
        /\ UNCHANGED nextId

\* A transaction fails, on a stale row or for its own reasons.
Rollback(w) ==
    /\ tab[w].pc # "idle"
    /\ Show(w, Idle)
    /\ UNCHANGED <<record, inception, list, nextId>>

Next ==
    \E w \in Window :
        \/ \E k \in {"inception", "listed"}, x \in Text : AskAdd(w, k, x)
        \/ Add(w)
        \/ \E i \in Ids, x \in Text : AskEdit(w, i, x)
        \/ Edit(w)
        \/ \E i \in Ids : AskDelete(w, i)
        \/ Delete(w)
        \/ Rollback(w)

Spec == Init /\ [][Next]_vars

-----------------------------------------------------------------------------
(* Properties *)

\* The variables hold what the code can put there.
TypeOK ==
    /\ record \in [Ids -> Record \cup {NoRecord}]
    /\ inception \in Ids \cup {NoRecord}
    /\ list \in [Ids -> 0..1]
    /\ nextId \in 1..(MaxId + 1)
    /\ tab \in [Window -> TabState]

\* A brotherhood has one inception record at most, the one its history names, when
\* two windows save their first one at once or one deletes what the other edits.
OneInception ==
    {i \in Stored : record[i].kind = "inception"} =
        IF inception = NoRecord THEN {} ELSE {inception}

\* The history lists every other record once, and no record that is not there: no
\* request puts back a list as it was before another request changed it.
EachListedOnce ==
    \A i \in Ids :
        list[i] = IF i \in Stored /\ record[i].kind = "listed" THEN 1 ELSE 0

=============================================================================
