------------------------------ MODULE BoxTree ------------------------------
(***************************************************************************)
(* The tree of the boxes one actor has made (MessageBox.parentMessageBoxes)*)
(* as MessageBoxController and MessageBoxService change it. What the boxes *)
(* hold is modelled in MessageBoxes. A predefined box is never edited nor  *)
(* deleted, so that to be below one is the same as to be below none.       *)
(*                                                                         *)
(* findByParent() and delete() recurse over the children of a box. Around  *)
(* a cycle they never end: such a request has no step here.                *)
(***************************************************************************)
CONSTANTS
    Box,      \* the rows that are ever inserted
    Window,   \* browser windows of the actor
    Top,      \* the parent of a box below no other of these
    NoBox     \* no such row, before its insertion or after its deletion

VARIABLES
    parent,   \* of each box
    used,     \* the boxes that were inserted
    tab       \* what each window shows or has asked for

vars == <<parent, used, tab>>

Stored == {b \in Box : parent[b] # NoBox}

Children(b) == {c \in Stored : parent[c] = b}

Closed(S) == \A b \in S : Children(b) \subseteq S

\* What findByParent() collects on its way down from a box: its children and theirs, and
\* nothing else.
Below(b) ==
    {c \in Stored : \A S \in SUBSET Stored : Children(b) \subseteq S /\ Closed(S) => c \in S}

\* The recursion meets no box twice on its way down.
Ends(b) == \A c \in {b} \cup Below(b) : c \notin Below(c)

(* pc     the page the window shows, or the request it waits for           *)
(* box    the box of the form, NoBox for a new one                         *)
(* offered  the boxes its select lists, besides Top                        *)
(* to     the parent that was chosen                                       *)
(* doomed the boxes a deletion has collected                               *)
(* stale  others wrote a row this request will write                       *)
TabState == [pc : {"idle", "form", "save", "delete"},
             box : Box \cup {NoBox},
             offered : SUBSET Box,
             to : Box \cup {Top},
             doomed : SUBSET Box,
             stale : BOOLEAN]

Idle == [pc |-> "idle", box |-> NoBox, offered |-> {}, to |-> Top,
         doomed |-> {}, stale |-> FALSE]

Init ==
    /\ parent = [b \in Box |-> NoBox]
    /\ used = {}
    /\ tab = [w \in Window |-> Idle]

Show(w, next) == tab' = [tab EXCEPT ![w] = next]

\* The commit of window w wrote the boxes S.
Commits(w, S) ==
    /\ ~tab[w].stale
    /\ tab' = [v \in Window |->
                 IF v = w THEN Idle
                 ELSE [tab[v] EXCEPT !.stale =
                         @ \/ (tab[v].pc = "save" /\ tab[v].box \in S)
                           \/ (tab[v].pc = "delete" /\ tab[v].doomed \cap S # {})]]

-----------------------------------------------------------------------------
(* GET messagebox/create.do and messagebox/edit.do *)

OpenNew(w) ==
    /\ tab[w].pc = "idle"
    /\ Show(w, [Idle EXCEPT !.pc = "form", !.offered = Stored])
    /\ UNCHANGED <<parent, used>>

\* Mutant: boxes.removeAll(childBoxes) with the children only.
OfferedButChildren(b) == Stored \ ({b} \cup Children(b))

Offered(b) == Stored \ ({b} \cup Below(b))

OpenEdit(w, b) ==
    /\ tab[w].pc = "idle"
    /\ b \in Stored
    /\ Ends(b)
    /\ Show(w, [Idle EXCEPT !.pc = "form", !.box = b, !.offered = Offered(b)])
    /\ UNCHANGED <<parent, used>>

Leave(w) ==
    /\ tab[w].pc = "form"
    /\ Show(w, Idle)
    /\ UNCHANGED <<parent, used>>

-----------------------------------------------------------------------------
(* POST messagebox/edit.do *)

checkParentBox(b, p) == p \notin Children(b)

\* The converter finds no box that was deleted meanwhile: the parent is null then.
Converted(p) == IF p \in Stored THEN p ELSE Top

Sends(w, p) ==
    /\ tab[w].pc = "form"
    /\ p \in tab[w].offered \cup {Top}
    /\ Show(w, [tab[w] EXCEPT !.pc = "save", !.to = Converted(p)])
    /\ UNCHANGED <<parent, used>>

SendNew(w, p) == tab[w].box = NoBox /\ Sends(w, p)

\* checkParentBox() reads the children and save() writes the box, in one transaction.
SendEdit(w, p) ==
    /\ tab[w].box \in Stored
    /\ Ends(tab[w].box)
    /\ checkParentBox(tab[w].box, Converted(p))
    /\ Sends(w, p)

\* The foreign key of the parent.
Refers(p) == p \in Stored \cup {Top}

Insert(w) ==
    /\ tab[w].pc = "save"
    /\ tab[w].box = NoBox
    /\ Refers(tab[w].to)
    /\ \E b \in Box \ used :
         /\ parent' = [parent EXCEPT ![b] = tab[w].to]
         /\ used' = used \cup {b}
         /\ Commits(w, {b})

Save(w) ==
    /\ tab[w].pc = "save"
    /\ tab[w].box # NoBox
    /\ Refers(tab[w].to)
    /\ parent' = [parent EXCEPT ![tab[w].box] = tab[w].to]
    /\ Commits(w, {tab[w].box})
    /\ UNCHANGED used

-----------------------------------------------------------------------------
(* GET messagebox/delete.do *)

AskDelete(w, b) ==
    /\ tab[w].pc = "idle"
    /\ b \in Stored
    /\ Ends(b)
    /\ Show(w, [Idle EXCEPT !.pc = "delete", !.doomed = {b} \cup Below(b)])
    /\ UNCHANGED <<parent, used>>

\* The foreign key refuses while a box that was not collected is below one that was.
Holds(S) == \E c \in Stored \ S : parent[c] \in S

Delete(w) ==
    LET S == tab[w].doomed
    IN  /\ tab[w].pc = "delete"
        /\ ~Holds(S)
        /\ parent' = [b \in Box |-> IF b \in S THEN NoBox ELSE parent[b]]
        /\ Commits(w, S)
        /\ UNCHANGED used

Rollback(w) ==
    /\ tab[w].pc \in {"save", "delete"}
    /\ Show(w, Idle)
    /\ UNCHANGED <<parent, used>>

Next ==
    \E w \in Window :
        \/ OpenNew(w) \/ Insert(w) \/ Save(w) \/ Delete(w) \/ Leave(w) \/ Rollback(w)
        \/ \E p \in Box \cup {Top} : SendNew(w, p) \/ SendEdit(w, p)
        \/ \E b \in Box : OpenEdit(w, b) \/ AskDelete(w, b)

Spec == Init /\ [][Next]_vars

-----------------------------------------------------------------------------
(* Properties *)

\* The variables hold what the code can put there.
TypeOK ==
    /\ parent \in [Box -> Box \cup {Top, NoBox}]
    /\ used \in SUBSET Box
    /\ Stored \subseteq used
    /\ tab \in [Window -> TabState]

\* From the boxes below none (findByOwnerFirst) the pages lead down to every box: no
\* sequence of moves makes a cycle, which findByParent() would follow for ever, and no
\* deletion leaves a box below one that is gone. It takes one window at a time: two
\* that move a box each can put each of the two below the other.
EveryBoxReached ==
    LET first == {b \in Stored : parent[b] = Top}
    IN  Stored = first \cup UNION {Below(b) : b \in first}
=============================================================================
