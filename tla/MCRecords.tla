----------------------------- MODULE MCRecords -----------------------------
(***************************************************************************)
(* Four components that share no row, for one run of TLC: the directory,   *)
(* the finder, the history and the tree of boxes. A behaviour is one of    *)
(* one of them, and the others rest in their initial state.                *)
(***************************************************************************)
EXTENDS Directory, Naturals

CONSTANTS
    Parade, CacheTimes, ResultLimits, MaxTime, NoMoment,
    Text, MaxId, NoRecord,
    Box, BoxWindow, Top, NoBox

ASSUME RecordsAssumption ==
    /\ MaxId \in Nat
    /\ Text # {}
    /\ NoRecord \notin 1..MaxId \cup [kind : {"inception", "listed"}, text : Text]

ASSUME FinderAssumption ==
    /\ CacheTimes \subseteq Nat
    /\ \E c \in CacheTimes : \A d \in CacheTimes : c <= d
    /\ MaxTime \in Nat
    /\ NoMoment \notin 0..MaxTime

ASSUME BoxesAssumption == Top \notin Box /\ NoBox \notin Box \cup {Top}

VARIABLES
    part,                                     \* the component that moves
    stage, settings, finder, now, search,     \* FinderCache
    record, inception, list, nextId, edits,   \* HistoryRecords
    parent, used, boxes                       \* BoxTree

F == INSTANCE FinderCache WITH tab <- search
H == INSTANCE HistoryRecords WITH tab <- edits
B == INSTANCE BoxTree WITH tab <- boxes, Window <- BoxWindow

finders == <<stage, settings, finder, now, search>>
histories == <<record, inception, list, nextId, edits>>
trees == <<parent, used, boxes>>
all == <<part, vars, finders, histories, trees>>

SumInit ==
    /\ part \in {"directory", "finder", "history", "boxes"}
    /\ Init /\ F!Init /\ H!Init /\ B!Init
    /\ part # "finder" =>
         settings = CHOOSE s \in [cached : CacheTimes, max : ResultLimits] : TRUE

SumNext ==
    /\ UNCHANGED part
    /\ \/ part = "directory" /\ Next /\ UNCHANGED <<finders, histories, trees>>
       \/ part = "finder" /\ F!Next /\ UNCHANGED <<vars, histories, trees>>
       \/ part = "history" /\ H!Next /\ UNCHANGED <<vars, finders, trees>>
       \/ part = "boxes" /\ B!Next /\ UNCHANGED <<vars, finders, histories>>

SumSpec == SumInit /\ [][SumNext]_all /\ F!Fairness

-----------------------------------------------------------------------------
(* Properties of the four modules, which say what each means.              *)

\* The variables of all four hold what the code can put there.
RecordsTypeOK == TypeOK /\ F!TypeOK /\ H!TypeOK /\ B!TypeOK

\* Results of a search are not dropped before the shortest cache time is over.
YoungResultsStand == F!YoungResultsStand

\* Results that a window found to be too old are dropped in the end.
ExpiredGo == F!ExpiredGo

\* A brotherhood has one inception record at most, the one its history names.
OneInception == H!OneInception

\* The history lists every other record exactly once.
EachListedOnce == H!EachListedOnce

\* Every box is found from the boxes below none, and no box is below itself.
EveryBoxReached == B!EveryBoxReached
=============================================================================
