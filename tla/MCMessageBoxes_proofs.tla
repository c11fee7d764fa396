------------------------ MODULE MCMessageBoxes_proofs ------------------------
(***************************************************************************)
(* Theorems about MessageBoxes, for any actors, windows and own boxes, and *)
(* any number of messages, and about Moderation in the sum of the two, for *)
(* any actors, windows and profiles.                                       *)
(***************************************************************************)
EXTENDS MCMessageBoxes, FiniteSetTheorems, TLAPS

\* The variables but for the bound on copies, which needs the sums below.
Typing ==
    /\ name \in [Box -> Predefined \cup Typed \cup {"none", "deleted"}]
    /\ copies \in [Box -> [Ids -> Nat]]
    /\ message \in [Ids -> [sender : Actor, recipient : Actor] \cup {NoMessage}]
    /\ nextId \in 1..(MaxId + 1)
    /\ tab \in [Window -> TabState]

\* An actor has k copies of message i at most. Three boxes say it of all of them: a
\* fourth that holds one leaves less for the other three.
AtMost(k, i) ==
    \A b, c, d \in Box :
        b # c /\ b # d /\ c # d /\ Owner(b) = Owner(c) /\ Owner(b) = Owner(d)
            => copies[b][i] + copies[c][i] + copies[d][i] <= k

Copies(i) ==
    /\ AtMost(2, i)
    /\ i \in Stored /\ message[i].sender # message[i].recipient => AtMost(1, i)

\* No message has an id to come.
IdsAhead ==
    \A i \in Ids : i >= nextId => message[i] = NoMessage /\ \A b \in Box : copies[b][i] = 0

\* A request that is not stale finds the message where it read it to be.
Knows(w) ==
    LET t == tab[w]
    IN  /\ t.pc \in {"move", "purge"} =>
              /\ t.id \in Ids /\ t.id < nextId
              /\ t.from \in Box /\ t.to \in Box
              /\ Owner(t.from) = UserOf[w] /\ Owner(t.to) = UserOf[w]
              /\ copies[t.from][t.id] > 0
        /\ t.pc = "purge" => name[t.from] = "Trash box"
        /\ t.pc = "create" => t.typed \in Typed

\* The inductive invariant.
Inv ==
    /\ Typing
    /\ IdsAhead
    /\ \A i \in Ids : Copies(i)
    /\ \A w \in Window : Knows(w)

\* A message that has come stays so.
LEMMA LaterIds ==
    ASSUME NEW m \in 1..(MaxId + 1), NEW n \in 1..(MaxId + 1), n >= m
    PROVE  \A i \in Ids : i < m => i < n
BY IdsAssumption DEF Ids

\* An id is not ahead of itself.
LEMMA SameId ==
    ASSUME NEW m \in 1..(MaxId + 1)
    PROVE  m >= m
BY IdsAssumption

\* A window that waits for nothing, or whose request is stale, is a state of a window.
LEMMA IdleIsState ==
    /\ Idle \in TabState /\ Stale \in TabState
    /\ Idle.pc = "idle" /\ Stale.pc = "stale"
BY DEF Idle, Stale, TabState

-----------------------------------------------------------------------------
(* One box of a name *)

\* An actor's boxes are finitely many.
LEMMA BoxesFinite ==
    ASSUME NEW a, NEW S, S \subseteq {b \in Box : Owner(b) = a}
    PROVE  IsFiniteSet(S)
<1>1. IsFiniteSet(Predefined)
  <2>. DEFINE two == {"In box"} \cup {"Trash box"}
              three == two \cup {"Out box"}
              four == three \cup {"Spam box"}
  <2>1. IsFiniteSet(two)
    BY FS_Singleton, FS_AddElement
  <2>2. IsFiniteSet(three)
    BY <2>1, FS_AddElement
  <2>3. IsFiniteSet(four)
    BY <2>2, FS_AddElement
  <2>4. IsFiniteSet(four \cup {"Notification box"})
    BY <2>3, FS_AddElement
  <2>5. Predefined = four \cup {"Notification box"}
    BY DEF Predefined
  <2>. QED BY <2>4, <2>5
<1>2. IsFiniteSet({a} \X Predefined)
  BY <1>1, FS_Singleton, FS_Product
<1>3. IsFiniteSet(({a} \X Predefined) \cup Extra)
  BY <1>2, BoxAssumption, FS_Union
<1>4. S \in SUBSET (({a} \X Predefined) \cup Extra)
  BY DEF Box, Owner
<1>. QED BY <1>3, <1>4, FS_Subset

\* A name that is found is the name of one box.
LEMMA FoundIsOne ==
    ASSUME NEW a, NEW n, Found(a, n)
    PROVE  \E b \in Box : Owner(b) = a /\ name[b] = n /\ Named(a, n) = {b}
<1>1. Named(a, n) \subseteq {b \in Box : Owner(b) = a}
  BY DEF Named, Boxes
<1>2. PICK b : Named(a, n) = {b}
  BY <1>1, BoxesFinite, FS_Singleton DEF Found
<1>. QED BY <1>2 DEF Named, Boxes

-----------------------------------------------------------------------------
(* Steps *)

\* A window waits for something else, and nothing is written.
LEMMA ShowStep ==
    ASSUME Inv, NEW w \in Window, NEW next \in TabState, Show(w, next), Knows(w)',
           UNCHANGED <<name, copies, message, nextId>>
    PROVE  Inv'
<1>1. /\ tab' \in [Window -> TabState]
      /\ \A v \in Window : tab'[v] = IF v = w THEN next ELSE tab[v]
  BY DEF Inv, Typing, Show
<1>2. Typing' /\ IdsAhead'
  BY <1>1 DEF Inv, Typing, IdsAhead
<1>3. \A i \in Ids : Copies(i)'
  BY DEF Inv, Copies, AtMost, Stored
<1>4. \A v \in Window : Knows(v)'
  <2>. SUFFICES ASSUME NEW v \in Window, v # w PROVE Knows(v)'
    OBVIOUS
  <2>1. Knows(v) /\ tab'[v] = tab[v]
    BY <1>1 DEF Inv
  <2>. QED BY <2>1 DEF Knows
<1>. QED BY <1>2, <1>3, <1>4 DEF Inv

\* A commit wrote the boxes S, whose other requests are stale, or gave a box its name.
LEMMA CommitStep ==
    ASSUME Inv, NEW w \in Window, NEW S, Touches(w, S, Idle),
           name' \in [Box -> Predefined \cup Typed \cup {"none", "deleted"}],
           copies' \in [Box -> [Ids -> Nat]],
           message' \in [Ids -> [sender : Actor, recipient : Actor] \cup {NoMessage}],
           nextId' \in 1..(MaxId + 1), nextId' >= nextId,
           \A b \in Box \ S : copies'[b] = copies[b],
           \A b \in Box \ S : name'[b] = name[b] \/ name[b] # "Trash box",
           IdsAhead', \A i \in Ids : Copies(i)'
    PROVE  Inv'
<1>0. \A i \in Ids : i < nextId => i < nextId'
  <2>1. nextId \in 1..(MaxId + 1)
    BY DEF Inv, Typing
  <2>. QED BY <2>1, LaterIds
<1>1. \A v \in Window :
        tab'[v] = IF v = w THEN Idle
                  ELSE IF {tab[v].from, tab[v].to} \cap S # {} THEN Stale ELSE tab[v]
  BY DEF Touches
<1>2. tab' \in [Window -> TabState]
  BY <1>1, IdleIsState DEF Inv, Typing, Touches
<1>3. Typing'
  BY <1>2 DEF Typing
<1>4. \A v \in Window : Knows(v)'
  <2>. SUFFICES ASSUME NEW v \in Window PROVE Knows(v)'
    OBVIOUS
  <2>1. CASE tab'[v] \in {Idle, Stale}
    BY <2>1, IdleIsState DEF Knows
  <2>2. CASE tab'[v] \notin {Idle, Stale}
    <3>1. tab'[v] = tab[v] /\ tab[v].from \notin S /\ Knows(v)
      BY <2>2, <1>1 DEF Inv
    <3>. QED BY <1>0, <3>1 DEF Knows
  <2>. QED BY <2>1, <2>2
<1>. QED BY <1>3, <1>4 DEF Inv

\* Boxes have less than before: what is so of the copies stays so.
LEMMA FewerCopies ==
    ASSUME Inv, copies' \in [Box -> [Ids -> Nat]], nextId' = nextId,
           \A b \in Box, i \in Ids : copies'[b][i] <= copies[b][i],
           \A i \in Ids : message'[i] \in {message[i], NoMessage}
    PROVE  IdsAhead' /\ \A i \in Ids : Copies(i)'
<1>1. \A b \in Box, i \in Ids : copies[b][i] \in Nat /\ copies'[b][i] \in Nat
  BY DEF Inv, Typing
<1>2. IdsAhead'
  BY <1>1 DEF Inv, IdsAhead
<1>3. ASSUME NEW i \in Ids, NEW k \in Nat, AtMost(k, i)
      PROVE  AtMost(k, i)'
  <2>. SUFFICES ASSUME NEW b \in Box, NEW c \in Box, NEW d \in Box,
                       b # c, b # d, c # d, Owner(b) = Owner(c), Owner(b) = Owner(d)
                PROVE  copies'[b][i] + copies'[c][i] + copies'[d][i] <= k
    BY DEF AtMost
  <2>1. copies[b][i] + copies[c][i] + copies[d][i] <= k
    BY <1>3 DEF AtMost
  <2>2. /\ copies'[b][i] <= copies[b][i]
        /\ copies'[c][i] <= copies[c][i]
        /\ copies'[d][i] <= copies[d][i]
    OBVIOUS
  <2>. QED BY <1>1, <2>1, <2>2
<1>4. \A i \in Ids : i \in Stored' => i \in Stored /\ message'[i] = message[i]
  BY DEF Stored
<1>. QED BY <1>2, <1>3, <1>4 DEF Inv, Copies

-----------------------------------------------------------------------------
(* Sending *)

\* A new message is put once in each box of S: in three boxes of nobody, and in two
\* of nobody if it is from one actor to another.
LEMMA PostsStep ==
    ASSUME Inv, NEW w \in Window, NEW a \in Actor, NEW r \in Actor, NEW S,
           Posts(w, a, r, S),
           \A b, c, d \in S :
               b # c /\ b # d /\ c # d => ~(Owner(b) = Owner(c) /\ Owner(b) = Owner(d)),
           a # r => \A b, c \in S : Owner(b) = Owner(c) => b = c
    PROVE  Inv'
<1>1. nextId \in Ids /\ nextId \in Nat /\ nextId' = nextId + 1
  BY IdsAssumption DEF Posts, Ids
<1>2. nextId' \in 1..(MaxId + 1) /\ nextId' >= nextId
  BY <1>1, IdsAssumption DEF Ids
<1>3. message' \in [Ids -> [sender : Actor, recipient : Actor] \cup {NoMessage}]
  BY <1>1 DEF Posts, Inv, Typing
<1>4. /\ message'[nextId] = [sender |-> a, recipient |-> r]
      /\ \A j \in Ids \ {nextId} : message'[j] = message[j]
  BY <1>1 DEF Posts, Inv, Typing
<1>5. \A b \in Box, j \in Ids : copies[b][j] \in Nat
  BY DEF Inv, Typing
<1>6. copies' \in [Box -> [Ids -> Nat]]
  BY <1>1, <1>5 DEF Posts, Inv, Typing
<1>7. \A b \in Box, j \in Ids :
        copies'[b][j] = IF b \in S /\ j = nextId THEN copies[b][j] + 1 ELSE copies[b][j]
  BY <1>1 DEF Posts, Inv, Typing
<1>8. \A b \in Box \ S : copies'[b] = copies[b]
  BY DEF Posts
<1>9. \A b \in Box : copies[b][nextId] = 0
  BY <1>1 DEF Inv, IdsAhead
<1>10. IdsAhead'
  <2>. SUFFICES ASSUME NEW j \in Ids, j >= nextId'
                PROVE  message'[j] = NoMessage /\ \A b \in Box : copies'[b][j] = 0
    BY DEF IdsAhead
  <2>1. j \in Nat
    BY IdsAssumption DEF Ids
  <2>2. j >= nextId /\ j # nextId
    BY <2>1, <1>1
  <2>. QED BY <2>2, <1>4, <1>7 DEF Inv, IdsAhead
<1>11. ASSUME NEW j \in Ids PROVE Copies(j)'
  <2>1. CASE j # nextId
    <3>1. message'[j] = message[j] /\ \A b \in Box : copies'[b][j] = copies[b][j]
      BY <2>1, <1>4, <1>7
    <3>2. Copies(j)
      BY DEF Inv
    <3>. QED BY <3>1, <3>2 DEF Copies, AtMost, Stored
  <2>2. CASE j = nextId
    <3>1. \A b \in Box : copies'[b][j] = IF b \in S THEN 1 ELSE 0
      BY <2>2, <1>7, <1>9
    <3>2. AtMost(2, j)'
      <4>. SUFFICES ASSUME NEW b \in Box, NEW c \in Box, NEW d \in Box,
                           b # c, b # d, c # d, Owner(b) = Owner(c), Owner(b) = Owner(d)
                    PROVE  copies'[b][j] + copies'[c][j] + copies'[d][j] <= 2
        BY DEF AtMost
      <4>1. ~(b \in S /\ c \in S /\ d \in S)
        OBVIOUS
      <4>. QED BY <4>1, <3>1
    <3>3. CASE a # r
      <4>1. AtMost(1, j)'
        <5>. SUFFICES ASSUME NEW b \in Box, NEW c \in Box, NEW d \in Box,
                             b # c, b # d, c # d, Owner(b) = Owner(c), Owner(b) = Owner(d)
                      PROVE  copies'[b][j] + copies'[c][j] + copies'[d][j] <= 1
          BY DEF AtMost
        <5>1. /\ ~(b \in S /\ c \in S)
              /\ ~(b \in S /\ d \in S)
              /\ ~(c \in S /\ d \in S)
          BY <3>3
        <5>. QED BY <5>1, <3>1
      <4>. QED BY <3>2, <4>1 DEF Copies
    <3>4. CASE a = r
      BY <3>2, <3>4, <1>4, <2>2 DEF Copies
    <3>. QED BY <3>3, <3>4
  <2>. QED BY <2>1, <2>2
<1>12. /\ Touches(w, S, Idle)
       /\ name' \in [Box -> Predefined \cup Typed \cup {"none", "deleted"}]
       /\ \A b \in Box \ S : name'[b] = name[b]
  BY DEF Posts, Inv, Typing
<1>. QED BY <1>2, <1>3, <1>6, <1>8, <1>10, <1>11, <1>12, CommitStep

\* Sending keeps the invariant: the new id has a copy in a box of each side.
LEMMA SendStep ==
    ASSUME Inv, NEW w \in Window, NEW r \in Actor, Send(w, r)
    PROVE  Inv'
<1>1. PICK n \in {"In box", "Spam box", "Notification box"} :
        /\ Found(r, n)
        /\ Posts(w, UserOf[w], r, Named(r, n) \cup Named(UserOf[w], "Out box"))
  BY DEF Send
<1>2. UserOf[w] \in Actor /\ r # UserOf[w] /\ Found(UserOf[w], "Out box")
  BY UsersAssumption DEF Send
<1>3. PICK x \in Box : Owner(x) = r /\ Named(r, n) = {x}
  BY <1>1, FoundIsOne
<1>4. PICK y \in Box : Owner(y) = UserOf[w] /\ Named(UserOf[w], "Out box") = {y}
  <2>1. \A m : Found(UserOf[w], m) =>
          \E y \in Box : Owner(y) = UserOf[w] /\ Named(UserOf[w], m) = {y}
    BY FoundIsOne
  <2>. QED BY <1>2, <2>1
<1>5. \A b, c \in {x} \cup {y} : Owner(b) = Owner(c) => b = c
  BY <1>2, <1>3, <1>4
<1>. QED BY <1>1, <1>2, <1>3, <1>4, <1>5, PostsStep

\* A broadcast puts two copies at most with its sender, and one with any other.
LEMMA BroadcastStep ==
    ASSUME Inv, NEW w \in Window, NEW R \in SUBSET Actor, Broadcast(w, R)
    PROVE  Inv'
<1>. DEFINE a == UserOf[w]
            S == Named(a, "Out box") \cup UNION {Named(r, "Notification box") : r \in R}
<1>1. a \in Actor
  BY UsersAssumption
<1>2. Posts(w, a, a, S)
  BY DEF Broadcast
<1>3. PICK y \in Box : Named(a, "Out box") = {y}
  <2>1. \A n : Found(a, n) => \E y \in Box : Named(a, n) = {y}
    BY FoundIsOne
  <2>2. Found(a, "Out box")
    BY DEF Broadcast
  <2>. QED BY <2>1, <2>2
<1>4. ASSUME NEW b \in S, b # y
      PROVE  Found(Owner(b), "Notification box") /\ b \in Named(Owner(b), "Notification box")
  <2>1. PICK r \in R : b \in Named(r, "Notification box")
    BY <1>3, <1>4
  <2>2. Owner(b) = r
    BY <2>1 DEF Named, Boxes
  <2>. QED BY <2>1, <2>2 DEF Broadcast
<1>5. ASSUME NEW b \in S, NEW c \in S, b # y, c # y, Owner(b) = Owner(c)
      PROVE  b = c
  <2>1. PICK z \in Box : Named(Owner(b), "Notification box") = {z}
    BY <1>4, <1>5, FoundIsOne
  <2>2. b \in {z} /\ c \in {z}
    BY <1>4, <1>5, <2>1
  <2>. QED BY <2>2
<1>6. \A b, c, d \in S :
        b # c /\ b # d /\ c # d => ~(Owner(b) = Owner(c) /\ Owner(b) = Owner(d))
  BY <1>5
<1>. HIDE DEF S
<1>. QED BY <1>1, <1>2, <1>6, PostsStep

-----------------------------------------------------------------------------
(* Moving and deleting *)

\* A message that a box holds has its id.
LEMMA HeldIsPast ==
    ASSUME Inv, NEW b \in Box, NEW i \in Ids, copies[b][i] > 0
    PROVE  i < nextId
<1>1. i \in Nat /\ nextId \in Nat
  BY IdsAssumption DEF Ids, Inv, Typing
<1>2. ~(i >= nextId)
  BY DEF Inv, IdsAhead
<1>. QED BY <1>1, <1>2

\* Asking to move a message reads where it is.
LEMMA MoveToStep ==
    ASSUME Inv, NEW w \in Window, NEW i \in Ids, NEW d \in Box, MoveTo(w, i, d)
    PROVE  Inv'
<1>1. PICK o \in Boxes(UserOf[w]) :
        copies[o][i] > 0 /\ Show(w, About("move", i, o, d, FALSE))
  BY DEF MoveTo
<1>. DEFINE next == About("move", i, o, d, FALSE)
<1>2. /\ o \in Box /\ Owner(o) = UserOf[w]
      /\ d \in Box /\ Owner(d) = UserOf[w]
  BY DEF MoveTo, Boxes
<1>3. /\ next \in TabState
      /\ next.pc = "move" /\ next.id = i /\ next.from = o /\ next.to = d
  BY <1>2 DEF About, Idle, TabState
<1>4. i < nextId
  BY <1>1, <1>2, HeldIsPast
<1>5. UNCHANGED <<name, copies, message, nextId>>
  BY DEF MoveTo
<1>. HIDE DEF next
<1>6. tab'[w] = next
  BY <1>1 DEF Show, Inv, Typing, next
<1>7. Knows(w)'
  BY <1>1, <1>2, <1>3, <1>4, <1>5, <1>6 DEF Knows
<1>. QED BY <1>1, <1>3, <1>5, <1>7, ShowStep DEF next

\* Deleting a message moves it to the trash box, or asks to purge what is in it.
LEMMA DeleteStep ==
    ASSUME Inv, NEW w \in Window, NEW i \in Ids, Delete(w, i)
    PROVE  Inv'
<1>1. PICK t \in Named(UserOf[w], "Trash box") :
        IF copies[t][i] > 0
        THEN /\ Show(w, About("purge", i, t, t, findMessage(i)))
             /\ UNCHANGED <<name, copies, message, nextId>>
        ELSE MoveTo(w, i, t)
  BY DEF Delete
<1>2. t \in Box /\ Owner(t) = UserOf[w] /\ name[t] = "Trash box"
  BY DEF Named, Boxes
<1>3. CASE copies[t][i] > 0
  <2>. DEFINE next == About("purge", i, t, t, findMessage(i))
  <2>1. findMessage(i) \in BOOLEAN
    BY DEF findMessage
  <2>2. /\ next \in TabState
        /\ next.pc = "purge" /\ next.id = i /\ next.from = t /\ next.to = t
    BY <1>2, <2>1 DEF About, Idle, TabState
  <2>3. i < nextId
    BY <1>2, <1>3, HeldIsPast
  <2>4. Show(w, next) /\ UNCHANGED <<name, copies, message, nextId>>
    BY <1>1, <1>3
  <2>. HIDE DEF next
  <2>5. tab'[w] = next
    BY <2>4 DEF Show, Inv, Typing
  <2>6. Knows(w)'
    BY <1>2, <1>3, <2>2, <2>3, <2>4, <2>5 DEF Knows
  <2>. QED BY <2>2, <2>4, <2>6, ShowStep
<1>4. CASE ~(copies[t][i] > 0)
  BY <1>1, <1>2, <1>4, MoveToStep
<1>. QED BY <1>3, <1>4

\* Of four boxes the first holds something, and three of them hold one or two: the
\* last three have room for what the first gives.
LEMMA FourBoxes ==
    ASSUME NEW k \in {1, 2}, NEW o \in Nat, NEW d \in Nat, NEW c \in Nat, NEW e \in Nat,
           o >= 1, o + d + c <= k, o + d + e <= k, o + c + e <= k
    PROVE  d + 1 + c + e <= k
OBVIOUS

\* What a move makes of the copies of the message it moves, and of the others.
LEMMA MovedIs ==
    ASSUME Inv, NEW i \in Ids, NEW o \in Box, NEW d \in Box, copies[o][i] > 0,
           copies' = Moved(i, o, d)
    PROVE  /\ copies' \in [Box -> [Ids -> Nat]]
           /\ \A b \in Box : \A j \in Ids \ {i} : copies'[b][j] = copies[b][j]
           /\ \A b \in Box \ {o, d} : copies'[b] = copies[b]
           /\ o = d => copies'[o][i] = copies[o][i]
           /\ o # d => copies'[o][i] = copies[o][i] - 1 /\ copies'[d][i] = copies[d][i] + 1
<1>1. copies \in [Box -> [Ids -> Nat]]
  BY DEF Inv, Typing
<1>2. copies[o][i] \in Nat /\ copies[d][i] \in Nat
  BY <1>1
<1>3. Without(copies[o][i]) = copies[o][i] - 1 /\ copies[o][i] - 1 \in Nat
  BY <1>2 DEF Without
<1>. DEFINE first == [copies EXCEPT ![o][i] = Without(@)]
<1>4. first = [copies EXCEPT ![o] = [copies[o] EXCEPT ![i] = copies[o][i] - 1]]
  BY <1>1, <1>3
<1>5. first \in [Box -> [Ids -> Nat]]
  BY <1>1, <1>3, <1>4
<1>6. /\ first[o][i] = copies[o][i] - 1
      /\ \A b \in Box : \A j \in Ids \ {i} : first[b][j] = copies[b][j]
      /\ \A b \in Box \ {o} : first[b] = copies[b]
  BY <1>1, <1>4
<1>7. copies' = [first EXCEPT ![d] = [first[d] EXCEPT ![i] = first[d][i] + 1]]
  BY <1>5 DEF Moved
<1>. HIDE DEF first
<1>8. copies' \in [Box -> [Ids -> Nat]]
  BY <1>5, <1>7
<1>9. /\ copies'[d][i] = first[d][i] + 1
      /\ \A b \in Box : \A j \in Ids \ {i} : copies'[b][j] = first[b][j]
      /\ \A b \in Box \ {d} : copies'[b] = first[b]
  BY <1>5, <1>7
<1>. QED BY <1>2, <1>6, <1>8, <1>9

\* A move between two boxes of an actor keeps the number of his copies.
LEMMA MovedKeeps ==
    ASSUME Inv, NEW i \in Ids, NEW o \in Box, NEW d \in Box, copies[o][i] > 0,
           Owner(o) = Owner(d), copies' = Moved(i, o, d), NEW k \in {1, 2}, AtMost(k, i)
    PROVE  AtMost(k, i)'
<1>. DEFINE v(b) == copies[b][i]
            u(b) == copies'[b][i]
<1>1. \A b \in Box : v(b) \in Nat /\ u(b) \in Nat
  BY MovedIs DEF Inv, Typing
<1>2. CASE o = d
  <2>1. \A b \in Box : u(b) = v(b)
    BY <1>2, MovedIs
  <2>. QED BY <2>1, <1>2 DEF AtMost
<1>3. CASE o # d
  <2>1. /\ u(o) = v(o) - 1 /\ u(d) = v(d) + 1 /\ v(o) >= 1
        /\ \A b \in Box \ {o, d} : u(b) = v(b)
    BY <1>1, <1>3, MovedIs
  <2>2. \A b, c, e \in Box :
          b # c /\ b # e /\ c # e /\ Owner(b) = Owner(c) /\ Owner(b) = Owner(e)
              => v(b) + v(c) + v(e) <= k
    BY DEF AtMost
  \* Three boxes, the first of them the one it moves to.
  <2>3. ASSUME NEW c \in Box, NEW e \in Box,
               c # d, e # d, c # e, Owner(c) = Owner(d), Owner(e) = Owner(d)
        PROVE  u(d) + u(c) + u(e) <= k
    <3>. HIDE DEF v, u
    <3>1. CASE o \notin {c, e}
      <4>1. /\ v(o) + v(d) + v(c) <= k
            /\ v(o) + v(d) + v(e) <= k
            /\ v(o) + v(c) + v(e) <= k
        BY <2>2, <2>3, <3>1, <1>3
      <4>2. v(d) + 1 + v(c) + v(e) <= k
        BY <4>1, <1>1, <2>1, FourBoxes
      <4>3. u(c) = v(c) /\ u(e) = v(e)
        BY <2>1, <2>3, <3>1
      <4>. QED BY <4>2, <4>3, <2>1
    <3>2. CASE o = c
      <4>1. v(d) + v(o) + v(e) <= k
        BY <2>2, <2>3, <3>2
      <4>2. u(e) = v(e)
        BY <2>1, <2>3, <3>2
      <4>. QED BY <4>1, <4>2, <2>1, <1>1, <3>2
    <3>3. CASE o = e
      <4>1. v(d) + v(c) + v(o) <= k
        BY <2>2, <2>3, <3>3
      <4>2. u(c) = v(c)
        BY <2>1, <2>3, <3>3
      <4>. QED BY <4>1, <4>2, <2>1, <1>1, <3>3
    <3>. QED BY <3>1, <3>2, <3>3
  <2>4. \A b \in Box : b # d => u(b) <= v(b)
    BY <1>1, <2>1
  <2>5. ASSUME NEW b \in Box, NEW c \in Box, NEW e \in Box,
               b # c, b # e, c # e, Owner(b) = Owner(c), Owner(b) = Owner(e)
        PROVE  u(b) + u(c) + u(e) <= k
    <3>. HIDE DEF v, u
    <3>1. u(b) \in Nat /\ u(c) \in Nat /\ u(e) \in Nat
      BY <1>1
    <3>2. CASE d = b
      BY <2>3, <2>5, <3>2
    <3>3. CASE d = c
      <4>1. u(c) + u(b) + u(e) <= k
        BY <2>3, <2>5, <3>3
      <4>. QED BY <4>1, <3>1
    <3>4. CASE d = e
      <4>1. u(e) + u(b) + u(c) <= k
        BY <2>3, <2>5, <3>4
      <4>. QED BY <4>1, <3>1
    <3>5. CASE d \notin {b, c, e}
      <4>1. u(b) <= v(b) /\ u(c) <= v(c) /\ u(e) <= v(e)
        BY <2>4, <3>5
      <4>2. v(b) + v(c) + v(e) <= k
        BY <2>2, <2>5
      <4>3. v(b) \in Nat /\ v(c) \in Nat /\ v(e) \in Nat
        BY <1>1
      <4>. QED BY <3>1, <4>1, <4>2, <4>3
    <3>. QED BY <3>2, <3>3, <3>4, <3>5
  <2>. QED BY <2>5 DEF AtMost
<1>. QED BY <1>2, <1>3

\* The commit of a move keeps the invariant.
LEMMA MoveStep ==
    ASSUME Inv, NEW w \in Window, Move(w)
    PROVE  Inv'
<1>. DEFINE i == tab[w].id
            o == tab[w].from
            d == tab[w].to
<1>1. /\ i \in Ids /\ o \in Box /\ d \in Box
      /\ Owner(o) = Owner(d) /\ copies[o][i] > 0
  BY DEF Move, Inv, Knows
<1>2. /\ copies' = Moved(i, o, d)
      /\ Touches(w, {o, d}, Idle)
      /\ UNCHANGED <<name, message, nextId>>
  BY DEF Move
<1>. HIDE DEF i, o, d
<1>3. /\ copies' \in [Box -> [Ids -> Nat]]
      /\ \A b \in Box : \A j \in Ids \ {i} : copies'[b][j] = copies[b][j]
      /\ \A b \in Box \ {o, d} : copies'[b] = copies[b]
  BY <1>1, <1>2, MovedIs
<1>4. IdsAhead'
  <2>1. ~(i >= nextId)
    BY <1>1 DEF Inv, IdsAhead
  <2>. QED BY <2>1, <1>2, <1>3 DEF Inv, IdsAhead
<1>5. ASSUME NEW j \in Ids PROVE Copies(j)'
  <2>1. Copies(j) /\ message'[j] = message[j]
    BY <1>2 DEF Inv
  <2>2. CASE j = i
    BY <1>1, <1>2, <2>1, <2>2, MovedKeeps DEF Copies, Stored
  <2>3. CASE j # i
    <3>1. \A b \in Box : copies'[b][j] = copies[b][j]
      BY <1>3, <2>3
    <3>. QED BY <2>1, <3>1 DEF Copies, AtMost, Stored
  <2>. QED BY <2>2, <2>3
<1>6. /\ name' \in [Box -> Predefined \cup Typed \cup {"none", "deleted"}]
      /\ message' \in [Ids -> [sender : Actor, recipient : Actor] \cup {NoMessage}]
      /\ \A b \in Box : name'[b] = name[b]
  BY <1>2 DEF Inv, Typing
<1>7. nextId' \in 1..(MaxId + 1) /\ nextId' >= nextId
  <2>1. nextId \in 1..(MaxId + 1) /\ nextId' = nextId
    BY <1>2 DEF Inv, Typing
  <2>. QED BY <2>1, IdsAssumption
<1>. QED BY <1>2, <1>3, <1>4, <1>5, <1>6, <1>7, CommitStep

\* A commit that takes copies out of the boxes S, or makes a box, and may delete a
\* row.
LEMMA FewerStep ==
    ASSUME Inv, NEW w \in Window, NEW S, Touches(w, S, Idle), nextId' = nextId,
           name' \in [Box -> Predefined \cup Typed \cup {"none", "deleted"}],
           copies' \in [Box -> [Ids -> Nat]],
           message' \in [Ids -> [sender : Actor, recipient : Actor] \cup {NoMessage}],
           \A b \in Box \ S : copies'[b] = copies[b],
           \A b \in Box \ S : name'[b] = name[b] \/ name[b] # "Trash box",
           \A b \in Box, i \in Ids : copies'[b][i] <= copies[b][i],
           \A i \in Ids : message'[i] \in {message[i], NoMessage}
    PROVE  Inv'
<1>1. nextId' \in 1..(MaxId + 1) /\ nextId' >= nextId
  <2>1. nextId \in 1..(MaxId + 1)
    BY DEF Inv, Typing
  <2>2. nextId >= nextId
    BY <2>1, SameId
  <2>. QED BY <2>1, <2>2
<1>2. IdsAhead' /\ \A i \in Ids : Copies(i)'
  BY FewerCopies
<1>. QED BY <1>1, <1>2, CommitStep

\* The commit of a deletion from the trash keeps the invariant.
LEMMA PurgeStep ==
    ASSUME Inv, NEW w \in Window, Purge(w)
    PROVE  Inv'
<1>. DEFINE i == tab[w].id
            o == tab[w].from
<1>1. i \in Ids /\ o \in Box
  BY DEF Purge, Inv, Knows
<1>2. copies' = [copies EXCEPT ![o] = [copies[o] EXCEPT ![i] = Without(copies[o][i])]]
  BY DEF Purge
<1>3. \A b \in Box, j \in Ids : copies[b][j] \in Nat
  BY DEF Inv, Typing
<1>4. Without(copies[o][i]) \in Nat /\ Without(copies[o][i]) <= copies[o][i]
  BY <1>1, <1>3 DEF Without
<1>5. copies \in [Box -> [Ids -> Nat]]
  BY DEF Inv, Typing
<1>6. copies' \in [Box -> [Ids -> Nat]]
  BY <1>1, <1>2, <1>4, <1>5
<1>7. \A b \in Box, j \in Ids : copies'[b][j] <= copies[b][j]
  BY <1>1, <1>2, <1>3, <1>4, <1>5
<1>8. \A b \in Box \ {o} : copies'[b] = copies[b]
  BY <1>2, <1>5
<1>9. message' = message \/ message' = [message EXCEPT ![i] = NoMessage]
  BY DEF Purge
<1>10. /\ message' \in [Ids -> [sender : Actor, recipient : Actor] \cup {NoMessage}]
       /\ \A j \in Ids : message'[j] \in {message[j], NoMessage}
  BY <1>1, <1>9 DEF Inv, Typing
<1>11. Touches(w, {o}, Idle) /\ UNCHANGED <<name, nextId>>
  BY DEF Purge
<1>12. /\ name' \in [Box -> Predefined \cup Typed \cup {"none", "deleted"}]
       /\ \A b \in Box : name'[b] = name[b]
  BY <1>11 DEF Inv, Typing
<1>. HIDE DEF i, o
<1>. QED BY <1>6, <1>7, <1>8, <1>10, <1>11, <1>12, FewerStep

-----------------------------------------------------------------------------
(* The boxes *)

\* A window that asks for a new box knows the name typed.
LEMMA AskCreateStep ==
    ASSUME Inv, NEW w \in Window, NEW n \in Typed, AskCreate(w, n)
    PROVE  Inv'
<1>. DEFINE next == [Idle EXCEPT !.pc = "create", !.typed = n]
<1>1. next \in TabState /\ next.pc = "create" /\ next.typed = n
  BY DEF Idle, TabState
<1>2. Show(w, next) /\ UNCHANGED <<name, copies, message, nextId>>
  BY DEF AskCreate
<1>. HIDE DEF next
<1>3. tab'[w] = next
  BY <1>2 DEF Show, Inv, Typing
<1>4. Knows(w)'
  BY <1>1, <1>3 DEF Knows
<1>. QED BY <1>1, <1>2, <1>4, ShowStep

\* A new box is empty and gives no other the name of the trash.
LEMMA CreateStep ==
    ASSUME Inv, NEW w \in Window, Create(w)
    PROVE  Inv'
<1>1. PICK b \in Extra : name[b] = "none" /\ name' = [name EXCEPT ![b] = tab[w].typed]
  BY DEF Create
<1>2. b \in Box /\ tab[w].typed \in Typed
  BY DEF Box, Create, Inv, Knows
<1>3. /\ name' \in [Box -> Predefined \cup Typed \cup {"none", "deleted"}]
      /\ \A c \in Box \ {} : name'[c] = name[c] \/ name[c] # "Trash box"
  BY <1>1, <1>2 DEF Inv, Typing
<1>4. Show(w, Idle) /\ UNCHANGED <<copies, message, nextId>>
  BY DEF Create
<1>5. Touches(w, {}, Idle)
  BY <1>4 DEF Show, Touches, Inv, Typing
<1>6. /\ copies' \in [Box -> [Ids -> Nat]]
      /\ message' \in [Ids -> [sender : Actor, recipient : Actor] \cup {NoMessage}]
      /\ \A c \in Box \ {} : copies'[c] = copies[c]
      /\ \A i \in Ids : message'[i] \in {message[i], NoMessage}
  BY <1>4 DEF Inv, Typing
<1>7. \A c \in Box, i \in Ids : copies'[c][i] <= copies[c][i]
  <2>1. \A c \in Box, i \in Ids : copies[c][i] \in Nat
    BY DEF Inv, Typing
  <2>. QED BY <1>4, <2>1
<1>. QED BY <1>3, <1>4, <1>5, <1>6, <1>7, FewerStep

\* The boxes S are emptied and renamed, or deleted.
LEMMA EmptyStep ==
    ASSUME Inv, NEW w \in Window, NEW S, S \subseteq Box, Touches(w, S, Idle),
           copies' = Emptied(S), UNCHANGED <<message, nextId>>,
           name' \in [Box -> Predefined \cup Typed \cup {"none", "deleted"}],
           \A b \in Box \ S : name'[b] = name[b]
    PROVE  Inv'
<1>1. \A b \in Box, i \in Ids : copies[b][i] \in Nat
  BY DEF Inv, Typing
<1>2. copies' \in [Box -> [Ids -> Nat]]
  BY <1>1 DEF Emptied, Inv, Typing
<1>3. \A b \in Box, i \in Ids : copies'[b][i] = IF b \in S THEN 0 ELSE copies[b][i]
  BY DEF Emptied
<1>4. \A b \in Box, i \in Ids : copies'[b][i] <= copies[b][i]
  BY <1>1, <1>3
<1>5. \A b \in Box \ S : copies'[b] = copies[b]
  BY DEF Emptied
<1>6. /\ message' \in [Ids -> [sender : Actor, recipient : Actor] \cup {NoMessage}]
      /\ \A i \in Ids : message'[i] \in {message[i], NoMessage}
  BY DEF Inv, Typing
<1>. QED BY <1>2, <1>4, <1>5, <1>6, FewerStep

\* Editing a box of his own empties it, and makes requests about it stale.
LEMMA EditStep ==
    ASSUME Inv, NEW w \in Window, NEW b \in Extra, NEW n \in Typed, Edit(w, b, n)
    PROVE  Inv'
<1>1. {b} \subseteq Box /\ b \in Box
  BY DEF Box
<1>2. /\ Touches(w, {b}, Idle) /\ copies' = Emptied({b})
      /\ UNCHANGED <<message, nextId>> /\ name' = [name EXCEPT ![b] = n]
  BY DEF Edit
<1>3. /\ name' \in [Box -> Predefined \cup Typed \cup {"none", "deleted"}]
      /\ \A c \in Box \ {b} : name'[c] = name[c]
  BY <1>1, <1>2 DEF Inv, Typing
<1>. QED BY <1>1, <1>2, <1>3, EmptyStep

\* Deleting boxes takes their copies with them.
LEMMA DeleteBoxStep ==
    ASSUME Inv, NEW w \in Window, NEW S \in SUBSET Extra, DeleteBox(w, S)
    PROVE  Inv'
<1>1. S \subseteq Box
  BY DEF Box
<1>2. /\ Touches(w, S, Idle) /\ copies' = Emptied(S)
      /\ UNCHANGED <<message, nextId>>
      /\ name' = [b \in Box |-> IF b \in S THEN "deleted" ELSE name[b]]
  BY DEF DeleteBox
<1>3. /\ name' \in [Box -> Predefined \cup Typed \cup {"none", "deleted"}]
      /\ \A c \in Box \ S : name'[c] = name[c]
  BY <1>2 DEF Inv, Typing
<1>. QED BY <1>1, <1>2, <1>3, EmptyStep

\* A request that fails leaves nothing behind.
LEMMA RollbackStep ==
    ASSUME Inv, NEW w \in Window, Rollback(w)
    PROVE  Inv'
<1>1. Show(w, Idle) /\ UNCHANGED <<name, copies, message, nextId>>
  BY DEF Rollback
<1>2. tab'[w] = Idle
  BY <1>1 DEF Show, Inv, Typing
<1>3. Knows(w)'
  BY <1>2, IdleIsState DEF Knows
<1>. QED BY <1>1, <1>3, IdleIsState, ShowStep

-----------------------------------------------------------------------------

\* The invariant holds of actors with their predefined boxes and no messages.
LEMMA InitInv == Init => Inv
<1>. SUFFICES ASSUME Init PROVE Inv
  OBVIOUS
<1>1. \A b \in Box : IsPredefined(b) => b[2] \in Predefined
  BY DEF Box, IsPredefined
<1>2. nextId \in 1..(MaxId + 1)
  BY IdsAssumption DEF Init
<1>3. Typing
  BY <1>1, <1>2, IdleIsState DEF Init, Typing
<1>4. \A b \in Box, i \in Ids : copies[b][i] = 0
  BY DEF Init
<1>5. IdsAhead
  BY <1>4 DEF Init, IdsAhead
<1>6. \A i \in Ids : Copies(i)
  BY <1>4 DEF Copies, AtMost
<1>7. \A w \in Window : Knows(w)
  BY IdleIsState DEF Init, Knows
<1>. QED BY <1>3, <1>5, <1>6, <1>7 DEF Inv

\* Every step of the messages and boxes keeps the invariant.
LEMMA StepKeeps == Inv /\ [Next]_vars => Inv'
<1>. SUFFICES ASSUME Inv, [Next]_vars PROVE Inv'
  OBVIOUS
<1>1. CASE UNCHANGED vars
  BY <1>1 DEF vars, Inv, Typing, IdsAhead, Copies, AtMost, Stored, Knows
<1>2. ASSUME NEW w \in Window, NEW r \in Actor, Send(w, r) PROVE Inv'
  BY <1>2, SendStep
<1>3. ASSUME NEW w \in Window, NEW R \in SUBSET Actor, Broadcast(w, R) PROVE Inv'
  BY <1>3, BroadcastStep
<1>4. ASSUME NEW w \in Window, NEW i \in Ids, NEW d \in Box, MoveTo(w, i, d) PROVE Inv'
  BY <1>4, MoveToStep
<1>5. ASSUME NEW w \in Window, NEW i \in Ids, Delete(w, i) PROVE Inv'
  BY <1>5, DeleteStep
<1>6. ASSUME NEW w \in Window, Move(w) PROVE Inv'
  BY <1>6, MoveStep
<1>7. ASSUME NEW w \in Window, Purge(w) PROVE Inv'
  BY <1>7, PurgeStep
<1>8. ASSUME NEW w \in Window, NEW n \in Typed, AskCreate(w, n) PROVE Inv'
  BY <1>8, AskCreateStep
<1>9. ASSUME NEW w \in Window, Create(w) PROVE Inv'
  BY <1>9, CreateStep
<1>10. ASSUME NEW w \in Window, NEW b \in Extra, NEW n \in Typed, Edit(w, b, n) PROVE Inv'
  BY <1>10, EditStep
<1>11. ASSUME NEW w \in Window, NEW S \in SUBSET Extra, DeleteBox(w, S) PROVE Inv'
  BY <1>11, DeleteBoxStep
<1>12. ASSUME NEW w \in Window, Rollback(w) PROVE Inv'
  BY <1>12, RollbackStep
<1>. QED
  BY <1>1, <1>2, <1>3, <1>4, <1>5, <1>6, <1>7, <1>8, <1>9, <1>10, <1>11, <1>12 DEF Next

\* Every request that is not stale finds its message where it read it to be, and an
\* actor has one copy of a letter, two of an announcement of his own at most.
THEOREM CopiesCounted == Spec => []Inv
<1>1. Init => Inv
  BY InitInv
<1>2. Inv /\ [Next]_vars => Inv'
  BY StepKeeps
<1>. QED BY <1>1, <1>2, PTL DEF Spec

\* Whoever has a box has two others.
LEMMA ThreeBoxes ==
    ASSUME NEW b \in Box, NEW c \in Box, Owner(b) = Owner(c)
    PROVE  /\ \E d \in Box : d # b /\ d # c /\ Owner(d) = Owner(b)
           /\ \E d, e \in Box : d # b /\ e # b /\ d # e /\ Owner(d) = Owner(b) /\ Owner(e) = Owner(b)
<1>1. Owner(b) \in Actor
  BY BoxAssumption DEF Owner, Box
<1>. DEFINE x == <<Owner(b), "In box">>
            y == <<Owner(b), "Trash box">>
            z == <<Owner(b), "Out box">>
<1>2. x \in Box /\ y \in Box /\ z \in Box
  BY <1>1 DEF Box, Predefined
<1>3. x # y /\ x # z /\ y # z
  OBVIOUS
<1>4. Owner(x) = Owner(b) /\ Owner(y) = Owner(b) /\ Owner(z) = Owner(b)
  BY DEF Owner
<1>. HIDE DEF x, y, z
<1>. QED BY <1>2, <1>3, <1>4

\* The variables hold what the code can put there, two copies in a box at most.
THEOREM TypeCorrect == Spec => []TypeOK
<1>1. Inv => TypeOK
  <2>. SUFFICES ASSUME Inv PROVE TypeOK
    OBVIOUS
  <2>1. \A b \in Box, i \in Ids : copies[b][i] \in Nat
    BY DEF Inv, Typing
  <2>2. ASSUME NEW b \in Box, NEW i \in Ids PROVE copies[b][i] \in 0..2
    <3>1. PICK d \in Box, e \in Box :
            d # b /\ e # b /\ d # e /\ Owner(d) = Owner(b) /\ Owner(e) = Owner(b)
      BY ThreeBoxes
    <3>2. copies[b][i] + copies[d][i] + copies[e][i] <= 2
      BY <3>1 DEF Inv, Copies, AtMost
    <3>. QED BY <2>1, <3>2
  <2>3. copies \in [Box -> [Ids -> 0..2]]
    BY <2>2 DEF Inv, Typing
  <2>. QED BY <2>3 DEF Inv, Typing, TypeOK
<1>. QED BY <1>1, CopiesCounted, PTL

\* Of a letter from one actor to another each has at most one copy, whatever windows
\* move and delete it.
THEOREM OneCopy == Spec => []OneCopyEach
<1>1. Inv => OneCopyEach
  <2>. SUFFICES ASSUME Inv, NEW i \in Stored, message[i].sender # message[i].recipient,
                       NEW b \in Box, NEW c \in Box, copies[b][i] > 0, copies[c][i] > 0,
                       Owner(b) = Owner(c)
                PROVE  b = c /\ copies[b][i] = 1
    BY DEF OneCopyEach
  <2>1. i \in Ids /\ AtMost(1, i)
    BY DEF Inv, Copies, Stored
  <2>2. \A x \in Box : copies[x][i] \in Nat
    BY <2>1 DEF Inv, Typing
  <2>3. b = c
    <3>. SUFFICES ASSUME b # c PROVE FALSE
      OBVIOUS
    <3>1. PICK d \in Box : d # b /\ d # c /\ Owner(d) = Owner(b)
      BY ThreeBoxes
    <3>2. copies[b][i] + copies[c][i] + copies[d][i] <= 1
      BY <2>1, <3>1 DEF AtMost
    <3>. QED BY <2>2, <3>2
  <2>4. copies[b][i] <= 1
    <3>1. PICK d \in Box, e \in Box :
            d # b /\ e # b /\ d # e /\ Owner(d) = Owner(b) /\ Owner(e) = Owner(b)
      BY ThreeBoxes
    <3>2. copies[b][i] + copies[d][i] + copies[e][i] <= 1
      BY <2>1, <3>1 DEF AtMost
    <3>. QED BY <2>2, <3>2
  <2>. QED BY <2>2, <2>3, <2>4
<1>. QED BY <1>1, CopiesCounted, PTL

-----------------------------------------------------------------------------
(* What a step takes from an actor *)

\* The window's actor deletes message i in his own trash box b, or b is one of his
\* own making and is emptied.
Parts(a, i) ==
    \E b \in Box :
        /\ Owner(b) = a
        /\ copies[b][i] > 0
        /\ \/ /\ name[b] = "Trash box"
              /\ \E w \in Window : UserOf[w] = a /\ tab[w].pc = "purge" /\ tab[w].id = i
           \/ ~IsPredefined(b) /\ \A j \in Ids : copies'[b][j] = 0

\* An actor who loses the message had a copy, which is gone.
LEMMA LostCopy ==
    ASSUME Inv, NEW a, NEW i \in Ids, Holds(a, i), ~Holds(a, i)'
    PROVE  \E b \in Box : /\ Owner(b) = a /\ copies[b][i] > 0
                          /\ ~(copies'[b][i] > 0)
                          /\ \A c \in Box : Owner(c) = a => ~(copies'[c][i] > 0)
BY DEF Holds

\* Who loses a last copy to the emptying of own boxes parts with it himself.
LEMMA EmptiedParts ==
    ASSUME Inv, NEW S \in SUBSET Extra, copies' = Emptied(S),
           NEW a, NEW i \in Ids, Holds(a, i), ~Holds(a, i)'
    PROVE  Parts(a, i)
<1>1. PICK b \in Box : Owner(b) = a /\ copies[b][i] > 0 /\ ~(copies'[b][i] > 0)
  BY LostCopy
<1>2. b \in S
  BY <1>1 DEF Emptied
<1>3. ~IsPredefined(b) /\ \A j \in Ids : copies'[b][j] = 0
  BY <1>2 DEF Emptied, IsPredefined
<1>. QED BY <1>1, <1>3 DEF Parts

\* Who has a message before a move has it afterwards.
LEMMA MoveLosesNothing ==
    ASSUME Inv, NEW w \in Window, Move(w), NEW a, NEW i \in Ids, Holds(a, i)
    PROVE  Holds(a, i)'
<1>. DEFINE m == tab[w].id
            o == tab[w].from
            d == tab[w].to
<1>1. /\ m \in Ids /\ o \in Box /\ d \in Box
      /\ Owner(o) = Owner(d) /\ copies[o][m] > 0
      /\ copies' = Moved(m, o, d)
  BY DEF Move, Inv, Knows
<1>. HIDE DEF m, o, d
<1>2. /\ \A b \in Box : \A j \in Ids \ {m} : copies'[b][j] = copies[b][j]
      /\ \A b \in Box \ {o, d} : copies'[b] = copies[b]
      /\ o = d => copies'[o][m] = copies[o][m]
      /\ o # d => copies'[d][m] = copies[d][m] + 1
  BY <1>1, MovedIs
<1>3. PICK b \in Box : Owner(b) = a /\ copies[b][i] > 0
  BY DEF Holds
<1>4. CASE i = m /\ b \in {o, d}
  <2>1. copies[d][m] \in Nat
    BY <1>1 DEF Inv, Typing
  <2>2. copies'[d][m] > 0
    BY <1>1, <1>2, <2>1
  <2>. QED BY <1>1, <1>3, <1>4, <2>2 DEF Holds
<1>5. CASE ~(i = m /\ b \in {o, d})
  <2>1. copies'[b][i] = copies[b][i]
    BY <1>2, <1>5
  <2>. QED BY <1>3, <2>1 DEF Holds
<1>. QED BY <1>4, <1>5

\* A new message takes none away.
LEMMA PostsLoseNothing ==
    ASSUME Inv, NEW w \in Window, NEW c, NEW r, NEW S, Posts(w, c, r, S),
           NEW a, NEW i \in Ids, Holds(a, i)
    PROVE  Holds(a, i)'
<1>1. PICK b \in Box : Owner(b) = a /\ copies[b][i] > 0
  BY DEF Holds
<1>2. copies[b] \in [Ids -> Nat] /\ copies[b][i] \in Nat /\ nextId \in Ids
  BY DEF Inv, Typing, Posts
<1>3. copies'[b][i] = copies[b][i] \/ copies'[b][i] = copies[b][i] + 1
  BY <1>2 DEF Posts
<1>4. copies'[b][i] > 0
  BY <1>1, <1>2, <1>3
<1>. QED BY <1>1, <1>4 DEF Holds

\* Who loses a last copy to a purge had it in his trash box.
LEMMA PurgeParts ==
    ASSUME Inv, NEW w \in Window, Purge(w), NEW a, NEW i \in Ids, Holds(a, i), ~Holds(a, i)'
    PROVE  Parts(a, i)
<1>1. PICK b \in Box : Owner(b) = a /\ copies[b][i] > 0 /\ ~(copies'[b][i] > 0)
  BY LostCopy
<1>. DEFINE m == tab[w].id
            o == tab[w].from
<1>2. /\ m \in Ids /\ o \in Box /\ Owner(o) = UserOf[w]
      /\ tab[w].pc = "purge" /\ name[o] = "Trash box"
  BY DEF Purge, Inv, Knows
<1>3. copies' = [copies EXCEPT ![o] = [copies[o] EXCEPT ![m] = Without(copies[o][m])]]
  BY DEF Purge
<1>4. copies \in [Box -> [Ids -> Nat]]
  BY DEF Inv, Typing
<1>. HIDE DEF m, o
<1>5. b = o /\ i = m
  BY <1>1, <1>2, <1>3, <1>4
<1>. QED BY <1>1, <1>2, <1>5 DEF Parts, m, o

\* A step in which the actor loses the message.
LEMMA StepParts ==
    ASSUME Inv, Next, NEW a \in Actor, NEW i \in Ids, Holds(a, i), ~Holds(a, i)'
    PROVE  Parts(a, i)
<1>1. copies' = copies => Holds(a, i)'
  BY DEF Holds
<1>2. copies' # copies
  BY <1>1
<1>3. PICK w \in Window :
        \/ \E r \in Actor : Send(w, r)
        \/ \E R \in SUBSET Actor : Broadcast(w, R)
        \/ Move(w) \/ Purge(w)
        \/ \E b \in Extra, n \in Typed : Edit(w, b, n)
        \/ \E S \in SUBSET Extra : DeleteBox(w, S)
  BY <1>2 DEF Next, MoveTo, Delete, AskCreate, Create, Rollback
<1>4. CASE \E r \in Actor : Send(w, r)
  <2>1. \E r, S : Posts(w, UserOf[w], r, S)
    BY <1>4 DEF Send
  <2>. QED BY <2>1, PostsLoseNothing
<1>5. CASE \E R \in SUBSET Actor : Broadcast(w, R)
  <2>1. \E r, S : Posts(w, UserOf[w], r, S)
    BY <1>5 DEF Broadcast
  <2>. QED BY <2>1, PostsLoseNothing
<1>6. CASE Move(w)
  BY <1>6, MoveLosesNothing
<1>7. CASE Purge(w)
  BY <1>7, PurgeParts
<1>8. CASE \E b \in Extra, n \in Typed : Edit(w, b, n)
  <2>1. PICK b \in Extra : copies' = Emptied({b})
    BY <1>8 DEF Edit
  <2>2. {b} \in SUBSET Extra
    OBVIOUS
  <2>. QED BY <2>1, <2>2, EmptiedParts
<1>9. CASE \E S \in SUBSET Extra : DeleteBox(w, S)
  <2>1. PICK S \in SUBSET Extra : copies' = Emptied(S)
    BY <1>9 DEF DeleteBox
  <2>. QED BY <2>1, EmptiedParts
<1>. QED BY <1>3, <1>4, <1>5, <1>6, <1>7, <1>8, <1>9

\* An actor loses the last copy of a message only in his own trash box, or with a box
\* of his own making that he edits or deletes.
THEOREM KeptForGood == Spec => NothingLost
<1>1. Inv /\ [Next]_vars => [NothingLostStep]_vars
  <2>. SUFFICES ASSUME Inv, Next PROVE NothingLostStep
    OBVIOUS
  <2>1. \A a \in Actor, i \in Ids : Holds(a, i) /\ ~Holds(a, i)' => Parts(a, i)
    BY StepParts
  <2>. QED BY <2>1 DEF NothingLostStep, Parts
<1>. QED BY <1>1, CopiesCounted, PTL DEF Spec, NothingLost

-----------------------------------------------------------------------------
(* Moderation                                                              *)

\* A mark that has been made is not taken back.
Marked(old, new) ==
    /\ old.spammer # NoMark => new.spammer # NoMark
    /\ old.low # NoMark => new.low # NoMark

\* What a request changes in a row it has read: no columns but its own.
Keeps(pc, old, new) ==
    /\ pc # "flag" => new.spammer = old.spammer
    /\ pc # "score" => new.low = old.low
    /\ pc \notin {"profile", "complete"} => new.profile = old.profile

\* A session changes its own columns, and whom it bans has been judged.
KeepsTo(t) ==
    /\ \A a \in Judged : Marked(t.view[a], t.write[a]) /\ Keeps(t.pc, t.view[a], t.write[a])
    /\ t.pc = "ban" => t.who \in Judged /\ rows[t.who].spammer # NoMark
                                        /\ rows[t.who].low # NoMark

\* The inductive invariant.
RowsInv ==
    /\ M!TypeOK
    /\ M!BannedWereJudged
    /\ \A w \in JudgeWindow : KeepsTo(judging[w])

\* Rows that nobody has judged, and windows that wait for nothing.
LEMMA FreshAre ==
    /\ M!FreshRows \in [Judged -> M!Row] /\ M!Idle \in M!TabState
    /\ M!Idle.pc = "idle" /\ ~M!Idle.stale /\ M!Idle.view = M!FreshRows
    /\ M!Idle.write = M!FreshRows
<1>1. M!Fresh \in M!Row
  BY JudgedAssumption DEF M!Fresh, M!Row
<1>. QED BY <1>1 DEF M!FreshRows, M!Idle, M!TabState

\* A window that waits for nothing may wait for nothing.
LEMMA IdleKeeps == KeepsTo(M!Idle)
BY FreshAre DEF KeepsTo, Marked, Keeps

\* Initially nobody is judged or banned.
LEMMA RowsInit == M!Init => RowsInv
<1>. SUFFICES ASSUME M!Init PROVE RowsInv
  OBVIOUS
<1>1. M!TypeOK
  BY FreshAre DEF M!Init, M!TypeOK, M!Requests
<1>2. M!BannedWereJudged
  BY DEF M!Init, M!BannedWereJudged
<1>3. \A w \in JudgeWindow : KeepsTo(judging[w])
  BY IdleKeeps DEF M!Init
<1>. QED BY <1>1, <1>2, <1>3 DEF RowsInv

\* A window asks for something, or for nothing any more, and nothing is written.
LEMMA AskStep ==
    ASSUME RowsInv, NEW w \in JudgeWindow, NEW next \in M!TabState, M!Show(w, next),
           UNCHANGED <<rows, banned>>, KeepsTo(next),
           next.pc # "idle" => next.view = rows,
           next.pc \in {"ban", "unban"} => (next.who \in banned <=> next.pc = "unban")
    PROVE  RowsInv'
<1>1. /\ judging' \in [JudgeWindow -> M!TabState]
      /\ \A v \in JudgeWindow : judging'[v] = IF v = w THEN next ELSE judging[v]
  BY DEF RowsInv, M!TypeOK, M!Show
<1>2. M!TypeOK'
  BY <1>1 DEF RowsInv, M!TypeOK, M!Requests
<1>3. M!BannedWereJudged'
  BY DEF RowsInv, M!BannedWereJudged
<1>4. \A v \in JudgeWindow : KeepsTo(judging[v])'
  BY <1>1 DEF RowsInv, KeepsTo
<1>. QED BY <1>2, <1>3, <1>4 DEF RowsInv

\* A window asks for something that changes its own columns in the rows it has read.
LEMMA AskedStep ==
    ASSUME RowsInv, NEW w \in JudgeWindow, NEW pc \in M!Requests,
           NEW a \in Judged \cup {Nobody}, NEW write \in [Judged -> M!Row],
           M!Asks(w, pc, a, write),
           \A b \in Judged : Marked(rows[b], write[b]) /\ Keeps(pc, rows[b], write[b]),
           pc = "ban" => a \in Judged /\ rows[a].spammer # NoMark /\ rows[a].low # NoMark,
           pc \in {"ban", "unban"} => (a \in banned <=> pc = "unban")
    PROVE  RowsInv'
<1>. DEFINE next == [pc |-> pc, who |-> a, view |-> rows, write |-> write,
                     missed |-> {}, stale |-> FALSE]
<1>1. M!Show(w, next) /\ UNCHANGED <<rows, banned>>
  BY DEF M!Asks
<1>2. next \in M!TabState
  BY DEF RowsInv, M!TypeOK, M!TabState
<1>3. next.pc = pc /\ next.who = a /\ next.view = rows /\ next.write = write
  OBVIOUS
<1>. HIDE DEF next
<1>4. KeepsTo(next)
  BY <1>3 DEF KeepsTo
<1>. QED BY <1>1, <1>2, <1>3, <1>4, AskStep

\* A request that saves a profile again begins where its first commit ended.
LEMMA CompletedIs ==
    ASSUME NEW t \in M!TabState, NEW p \in Profile
    PROVE  /\ M!Completed(t, p) \in M!TabState /\ KeepsTo(M!Completed(t, p))
           /\ M!Completed(t, p).pc = "complete" /\ M!Completed(t, p).view = t.write
           /\ M!Completed(t, p).missed = t.missed
<1>. DEFINE write == [t.write EXCEPT ![t.who].profile = p]
            next == [t EXCEPT !.pc = "complete", !.view = t.write, !.write = write]
<1>1. write \in [Judged -> M!Row]
  BY DEF M!TabState, M!Row
<1>2. \A a \in Judged : Marked(t.write[a], write[a]) /\ Keeps("complete", t.write[a], write[a])
  BY DEF M!TabState, M!Row, Marked, Keeps
<1>3. next = M!Completed(t, p)
  BY DEF M!Completed
<1>. HIDE DEF write
<1>4. /\ next \in M!TabState /\ next.pc = "complete" /\ next.view = t.write
      /\ next.write = write /\ next.missed = t.missed
  BY <1>1 DEF M!TabState, M!Requests
<1>. HIDE DEF next
<1>5. KeepsTo(next)
  BY <1>2, <1>4 DEF KeepsTo
<1>. QED BY <1>3, <1>4, <1>5

\* What a commit finds in the rows it writes is what its session has read, so that it
\* changes its own columns only and takes no mark back.
LEMMA CommitKeeps ==
    ASSUME RowsInv, NEW w \in JudgeWindow, NEW next, M!Written(w, next),
           judging[w].pc # "idle"
    PROVE  /\ rows' \in [Judged -> M!Row]
           /\ \A a \in Judged : /\ Marked(rows[a], rows'[a])
                                /\ Keeps(judging[w].pc, rows[a], rows'[a])
                                /\ rows'[a] # rows[a] => rows'[a] = judging[w].write[a]
           /\ \A a \in Judged \ judging[w].missed : rows'[a] = judging[w].write[a]
           /\ \A a \in Judged : rows'[a] # rows[a] => a \in M!Dirty(judging[w])
<1>. DEFINE t == judging[w]
<1>1. /\ t \in M!TabState /\ rows \in [Judged -> M!Row]
      /\ \A a \in Judged \ t.missed : t.view[a] = rows[a]
      /\ KeepsTo(t)
  BY DEF RowsInv, M!TypeOK, M!TabState
<1>2. \A a \in Judged : rows'[a] = IF a \in M!Dirty(t) THEN t.write[a] ELSE rows[a]
  BY DEF M!Written
<1>3. \A a \in M!Dirty(t) : a \in Judged \ t.missed
  BY DEF M!Written, M!Commits, M!Dirty
<1>4. rows' \in [Judged -> M!Row]
  BY <1>1 DEF M!Written, M!TabState
<1>5. \A a \in Judged : Marked(rows[a], rows'[a]) /\ Keeps(t.pc, rows[a], rows'[a])
  <2>. SUFFICES ASSUME NEW a \in Judged
                PROVE  Marked(rows[a], rows'[a]) /\ Keeps(t.pc, rows[a], rows'[a])
    OBVIOUS
  <2>1. CASE a \in M!Dirty(t)
    BY <2>1, <1>1, <1>2, <1>3 DEF KeepsTo
  <2>2. CASE a \notin M!Dirty(t)
    BY <2>2, <1>2 DEF Marked, Keeps
  <2>. QED BY <2>1, <2>2
<1>6. \A a \in Judged \ t.missed : rows'[a] = t.write[a]
  BY <1>1, <1>2 DEF M!Dirty
<1>7. \A a \in Judged : rows'[a] # rows[a] => rows'[a] = t.write[a] /\ a \in M!Dirty(t)
  BY <1>2
<1>. QED BY <1>4, <1>5, <1>6, <1>7

\* A commit of rows.
LEMMA WrittenStep ==
    ASSUME RowsInv, NEW w \in JudgeWindow, NEW next \in M!TabState, M!Written(w, next),
           judging[w].pc # "idle", KeepsTo(next), next.pc \notin {"ban", "unban"},
           next.pc # "idle" => next.view = judging[w].write /\ next.missed = judging[w].missed
    PROVE  RowsInv'
<1>1. /\ rows' \in [Judged -> M!Row]
      /\ \A a \in Judged : Marked(rows[a], rows'[a])
      /\ \A a \in Judged \ judging[w].missed : rows'[a] = judging[w].write[a]
      /\ \A a \in Judged : rows'[a] # rows[a] => a \in M!Dirty(judging[w])
  BY CommitKeeps
<1>2. judging \in [JudgeWindow -> M!TabState]
  BY DEF RowsInv, M!TypeOK
<1>3. /\ judging' \in [JudgeWindow -> M!TabState]
      /\ judging'[w] = next
      /\ \A v \in JudgeWindow \ {w} :
           \/ judging'[v] = M!Idle
           \/ /\ judging[v].pc # "idle"
              /\ judging'[v].pc = judging[v].pc /\ judging'[v].who = judging[v].who
              /\ judging'[v].view = judging[v].view /\ judging'[v].write = judging[v].write
              /\ judging'[v].missed = judging[v].missed \cup M!Dirty(judging[w])
              /\ judging'[v].stale = judging[v].stale
  <2>1. judging' = [v \in JudgeWindow |->
                      IF v = w THEN next
                      ELSE IF judging[v].pc = "idle" THEN M!Idle
                      ELSE [judging[v] EXCEPT !.missed = @ \cup M!Dirty(judging[w])]]
    BY DEF M!Written
  <2>2. M!Dirty(judging[w]) \in SUBSET Judged
    BY DEF M!Dirty
  <2>3. \A v \in JudgeWindow :
          [judging[v] EXCEPT !.missed = @ \cup M!Dirty(judging[w])] \in M!TabState
    BY <1>2, <2>2 DEF M!TabState
  <2>4. \A v \in JudgeWindow :
          LET u == [judging[v] EXCEPT !.missed = @ \cup M!Dirty(judging[w])]
          IN  /\ u.pc = judging[v].pc /\ u.who = judging[v].who /\ u.view = judging[v].view
              /\ u.write = judging[v].write /\ u.stale = judging[v].stale
              /\ u.missed = judging[v].missed \cup M!Dirty(judging[w])
    BY <1>2 DEF M!TabState
  <2>5. judging' \in [JudgeWindow -> M!TabState]
    BY <2>1, <2>3, FreshAre
  <2>. QED BY <2>1, <2>4, <2>5
<1>4. banned' = banned
  BY DEF M!Written
<1>5. M!TypeOK'
  <2>1. \A v \in JudgeWindow : judging'[v].pc \in M!Requests =>
          \A a \in Judged \ judging'[v].missed : judging'[v].view[a] = rows'[a]
    <3>. SUFFICES ASSUME NEW v \in JudgeWindow, judging'[v].pc \in M!Requests,
                         NEW a \in Judged \ judging'[v].missed
                  PROVE  judging'[v].view[a] = rows'[a]
      OBVIOUS
    <3>1. CASE v = w
      BY <3>1, <1>1, <1>3 DEF M!Requests
    <3>2. CASE v # w
      <4>1. judging'[v].pc # "idle"
        BY DEF M!Requests
      <4>2. /\ judging[v].pc \in M!Requests /\ judging'[v].view = judging[v].view
            /\ a \notin judging[v].missed /\ a \notin M!Dirty(judging[w])
        BY <3>2, <4>1, <1>3, FreshAre
      <4>3. judging[v].view[a] = rows[a]
        BY <4>2 DEF RowsInv, M!TypeOK
      <4>. QED BY <4>2, <4>3, <1>1
    <3>. QED BY <3>1, <3>2
  <2>2. \A v \in JudgeWindow : judging'[v].pc \in {"ban", "unban"} /\ ~judging'[v].stale =>
          (judging'[v].who \in banned' <=> judging'[v].pc = "unban")
    BY <1>3, <1>4, FreshAre DEF RowsInv, M!TypeOK
  <2>. QED BY <2>1, <2>2, <1>1, <1>3, <1>4 DEF RowsInv, M!TypeOK
<1>6. M!BannedWereJudged'
  BY <1>1, <1>4 DEF RowsInv, M!TypeOK, M!BannedWereJudged, Marked
<1>7. \A v \in JudgeWindow : KeepsTo(judging[v])'
  <2>. SUFFICES ASSUME NEW v \in JudgeWindow PROVE KeepsTo(judging[v])'
    OBVIOUS
  <2>1. CASE v = w
    BY <2>1, <1>3 DEF KeepsTo
  <2>2. CASE judging'[v] = M!Idle
    BY <2>2, IdleKeeps, FreshAre DEF KeepsTo
  <2>3. CASE v # w /\ judging'[v] # M!Idle
    BY <2>3, <1>1, <1>3 DEF RowsInv, KeepsTo, Marked
  <2>. QED BY <2>1, <2>2, <2>3
<1>. QED BY <1>5, <1>6, <1>7 DEF RowsInv

\* A commit of an account: whoever is banned by it was judged.
LEMMA AccountStep ==
    ASSUME RowsInv, NEW w \in JudgeWindow, M!Ban(w) \/ M!Unban(w)
    PROVE  RowsInv'
<1>. DEFINE a == judging[w].who
<1>1. PICK accounts : /\ M!AccountWritten(w, accounts) /\ accounts = banned'
                      /\ \A b : b # a => (b \in accounts <=> b \in banned)
                      /\ \/ accounts \subseteq banned
                         \/ judging[w].pc = "ban" /\ accounts = banned \cup {a}
  BY DEF M!Ban, M!Unban, M!AccountWritten
<1>2. rows' = rows /\ banned' = accounts
  BY <1>1 DEF M!AccountWritten
<1>3. /\ judging' \in [JudgeWindow -> M!TabState]
      /\ judging'[w] = M!Idle
      /\ \A v \in JudgeWindow \ {w} :
           /\ judging'[v].pc = judging[v].pc /\ judging'[v].who = judging[v].who
           /\ judging'[v].view = judging[v].view /\ judging'[v].write = judging[v].write
           /\ judging'[v].missed = judging[v].missed
           /\ judging'[v].stale =
                (judging[v].stale \/ (judging[v].pc # "idle" /\ judging[v].who = a))
  <2>1. judging' = [v \in JudgeWindow |->
                      IF v = w THEN M!Idle
                      ELSE [judging[v] EXCEPT !.stale =
                              @ \/ (judging[v].pc # "idle" /\ judging[v].who = a)]]
    BY <1>1 DEF M!AccountWritten
  <2>2. judging \in [JudgeWindow -> M!TabState]
    BY DEF RowsInv, M!TypeOK
  <2>3. \A v \in JudgeWindow, s \in BOOLEAN : [judging[v] EXCEPT !.stale = s] \in M!TabState
    BY <2>2 DEF M!TabState
  <2>. QED BY <2>1, <2>2, <2>3, FreshAre DEF M!TabState
<1>4. M!BannedWereJudged'
  BY <1>1, <1>2 DEF RowsInv, M!BannedWereJudged, KeepsTo
<1>5. M!TypeOK'
  <2>1. banned' \in SUBSET Judged
    BY <1>1, <1>2 DEF RowsInv, M!TypeOK, KeepsTo
  <2>2. \A v \in JudgeWindow : judging'[v].pc \in {"ban", "unban"} /\ ~judging'[v].stale =>
          (judging'[v].who \in banned' <=> judging'[v].pc = "unban")
    <3>. SUFFICES ASSUME NEW v \in JudgeWindow, judging'[v].pc \in {"ban", "unban"},
                         ~judging'[v].stale
                  PROVE  judging'[v].who \in banned' <=> judging'[v].pc = "unban"
      OBVIOUS
    <3>1. v # w
      BY <1>3, FreshAre
    <3>2. /\ judging'[v].who = judging[v].who /\ judging'[v].pc = judging[v].pc
          /\ judging[v].who # a /\ ~judging[v].stale
      BY <3>1, <1>3
    <3>3. judging[v].who \in banned <=> judging[v].pc = "unban"
      BY <3>2 DEF RowsInv, M!TypeOK
    <3>. QED BY <3>2, <3>3, <1>1, <1>2
  <2>3. \A v \in JudgeWindow : judging'[v].pc \in M!Requests =>
          \A b \in Judged \ judging'[v].missed : judging'[v].view[b] = rows'[b]
    BY <1>2, <1>3, FreshAre DEF RowsInv, M!TypeOK, M!Requests
  <2>. QED BY <2>1, <2>2, <2>3, <1>2, <1>3 DEF RowsInv, M!TypeOK
<1>6. \A v \in JudgeWindow : KeepsTo(judging[v])'
  <2>. SUFFICES ASSUME NEW v \in JudgeWindow PROVE KeepsTo(judging[v])'
    OBVIOUS
  <2>1. CASE v = w
    BY <2>1, <1>2, <1>3, IdleKeeps, FreshAre DEF KeepsTo
  <2>2. CASE v # w
    BY <2>2, <1>2, <1>3 DEF RowsInv, KeepsTo
  <2>. QED BY <2>1, <2>2
<1>. QED BY <1>4, <1>5, <1>6 DEF RowsInv

\* Every step keeps what the sessions know and who was judged.
LEMMA RowsStep == RowsInv /\ [M!Next]_(M!vars) => RowsInv'
<1>1. ASSUME RowsInv, UNCHANGED M!vars PROVE RowsInv'
  BY <1>1 DEF RowsInv, M!vars, M!TypeOK, M!BannedWereJudged, KeepsTo, M!TabState, M!Row
<1>2. ASSUME RowsInv, M!Next PROVE RowsInv'
  <2>0. /\ rows \in [Judged -> M!Row] /\ banned \in SUBSET Judged
        /\ judging \in [JudgeWindow -> M!TabState]
    BY <1>2 DEF RowsInv, M!TypeOK
  <2>1. PICK w \in JudgeWindow :
          \/ M!AskFlags(w) \/ M!Flag(w) \/ M!AskScores(w) \/ M!Score(w)
          \/ \E a \in Judged : M!AskBan(w, a) \/ M!AskUnban(w, a)
          \/ \E a \in Judged, p \in Profile : M!AskProfile(w, a, p)
          \/ M!SaveProfile(w) \/ M!CompleteProfile(w) \/ M!Ban(w) \/ M!Unban(w)
          \/ M!Rollback(w)
    BY <1>2 DEF M!Next
  <2>2. CASE M!AskFlags(w)
    <3>1. PICK s \in [Judged -> BOOLEAN] :
            M!Asks(w, "flag", Nobody, [a \in Judged |-> [rows[a] EXCEPT !.spammer = s[a]]])
      BY <2>2 DEF M!AskFlags
    <3>. DEFINE write == [a \in Judged |-> [rows[a] EXCEPT !.spammer = s[a]]]
    <3>2. \A a \in Judged : /\ [rows[a] EXCEPT !.spammer = s[a]] \in M!Row
                            /\ Marked(rows[a], [rows[a] EXCEPT !.spammer = s[a]])
                            /\ Keeps("flag", rows[a], [rows[a] EXCEPT !.spammer = s[a]])
      BY <2>0, JudgedAssumption DEF M!Row, Marked, Keeps
    <3>3. /\ write \in [Judged -> M!Row]
          /\ \A a \in Judged : Marked(rows[a], write[a]) /\ Keeps("flag", rows[a], write[a])
      BY <3>2
    <3>4. M!Asks(w, "flag", Nobody, write)
      BY <3>1
    <3>. HIDE DEF write
    <3>. QED BY <1>2, <3>3, <3>4, AskedStep DEF M!Requests
  <2>3. CASE M!AskScores(w)
    <3>1. PICK s \in [Judged -> BOOLEAN] :
            M!Asks(w, "score", Nobody, [a \in Judged |-> [rows[a] EXCEPT !.low = s[a]]])
      BY <2>3 DEF M!AskScores
    <3>. DEFINE write == [a \in Judged |-> [rows[a] EXCEPT !.low = s[a]]]
    <3>2. \A a \in Judged : /\ [rows[a] EXCEPT !.low = s[a]] \in M!Row
                            /\ Marked(rows[a], [rows[a] EXCEPT !.low = s[a]])
                            /\ Keeps("score", rows[a], [rows[a] EXCEPT !.low = s[a]])
      BY <2>0, JudgedAssumption DEF M!Row, Marked, Keeps
    <3>3. /\ write \in [Judged -> M!Row]
          /\ \A a \in Judged : Marked(rows[a], write[a]) /\ Keeps("score", rows[a], write[a])
      BY <3>2
    <3>4. M!Asks(w, "score", Nobody, write)
      BY <3>1
    <3>. HIDE DEF write
    <3>. QED BY <1>2, <3>3, <3>4, AskedStep DEF M!Requests
  <2>4. CASE \E a \in Judged : M!AskBan(w, a) \/ M!AskUnban(w, a)
    <3>1. \A a \in Judged : /\ Marked(rows[a], rows[a])
                            /\ \A pc \in M!Requests : Keeps(pc, rows[a], rows[a])
      BY DEF Marked, Keeps
    <3>2. PICK a \in Judged : M!AskBan(w, a) \/ M!AskUnban(w, a)
      BY <2>4
    <3>3. CASE M!AskBan(w, a)
      <4>1. /\ M!Asks(w, "ban", a, rows) /\ a \notin banned
            /\ rows[a].spammer # NoMark /\ rows[a].low # NoMark
        BY <3>3, JudgedAssumption DEF M!AskBan, M!Suspicious
      <4>. QED BY <1>2, <2>0, <3>1, <4>1, AskedStep DEF M!Requests
    <3>4. CASE M!AskUnban(w, a)
      <4>1. M!Asks(w, "unban", a, rows) /\ a \in banned
        BY <3>4 DEF M!AskUnban
      <4>. QED BY <1>2, <2>0, <3>1, <4>1, AskedStep DEF M!Requests
    <3>. QED BY <3>2, <3>3, <3>4
  <2>5. CASE \E a \in Judged, p \in Profile : M!AskProfile(w, a, p)
    <3>1. PICK a \in Judged, p \in Profile : M!AskProfile(w, a, p)
      BY <2>5
    <3>. DEFINE write == [rows EXCEPT ![a].profile = p]
    <3>2. M!Asks(w, "profile", a, write)
      BY <3>1 DEF M!AskProfile
    <3>3. /\ write \in [Judged -> M!Row]
          /\ \A b \in Judged : Marked(rows[b], write[b]) /\ Keeps("profile", rows[b], write[b])
      BY <2>0 DEF M!Row, Marked, Keeps
    <3>. HIDE DEF write
    <3>. QED BY <1>2, <3>2, <3>3, AskedStep DEF M!Requests
  <2>6. CASE M!Flag(w) \/ M!Score(w) \/ M!CompleteProfile(w)
    BY <1>2, <2>6, FreshAre, IdleKeeps, WrittenStep DEF M!Flag, M!Score, M!CompleteProfile
  <2>7. CASE M!SaveProfile(w)
    <3>1. CASE M!Written(w, M!Idle)
      BY <1>2, <2>7, <3>1, FreshAre, IdleKeeps, WrittenStep DEF M!SaveProfile
    <3>2. CASE \E p \in Profile : M!Written(w, M!Completed(judging[w], p))
      <4>1. PICK p \in Profile : M!Written(w, M!Completed(judging[w], p))
        BY <3>2
      <4>2. judging[w].pc = "profile" /\ judging[w] \in M!TabState
        BY <2>0, <2>7 DEF M!SaveProfile
      <4>. QED BY <1>2, <4>1, <4>2, CompletedIs, WrittenStep
    <3>. QED BY <2>7, <3>1, <3>2 DEF M!SaveProfile
  <2>8. CASE M!Ban(w) \/ M!Unban(w)
    BY <1>2, <2>8, AccountStep
  <2>9. CASE M!Rollback(w)
    BY <1>2, <2>9, FreshAre, IdleKeeps, AskStep DEF M!Rollback
  <2>. QED BY <2>1, <2>2, <2>3, <2>4, <2>5, <2>6, <2>7, <2>8, <2>9
<1>. QED BY <1>1, <1>2

\* What changes in a row is what one committing request wrote into its own columns.
LEMMA StepPutsNothingBack ==
    RowsInv /\ [M!Next]_(M!vars) => [M!NothingPutBackStep]_(M!vars)
<1>. SUFFICES ASSUME RowsInv, M!Next PROVE M!NothingPutBackStep
  OBVIOUS
<1>1. CASE rows' = rows
  BY <1>1 DEF M!NothingPutBackStep
<1>2. CASE rows' # rows
  <2>1. PICK w \in JudgeWindow :
          M!Flag(w) \/ M!Score(w) \/ M!SaveProfile(w) \/ M!CompleteProfile(w)
    BY <1>2 DEF M!Next, M!AskFlags, M!AskScores, M!AskBan, M!AskUnban, M!AskProfile, M!Asks,
                M!Ban, M!Unban, M!AccountWritten, M!Rollback
  <2>2. judging[w] \in M!TabState /\ judging[w].pc # "idle"
    BY <2>1 DEF RowsInv, M!TypeOK, M!Flag, M!Score, M!SaveProfile, M!CompleteProfile
  <2>3. PICK next : M!Written(w, next) /\ next.pc # judging[w].pc
    <3>1. CASE M!Written(w, M!Idle)
      BY <2>2, <3>1, FreshAre
    <3>2. CASE /\ judging[w].pc = "profile"
               /\ \E p \in Profile : M!Written(w, M!Completed(judging[w], p))
      BY <2>2, <3>2, CompletedIs
    <3>. QED BY <2>1, <3>1, <3>2 DEF M!Flag, M!Score, M!SaveProfile, M!CompleteProfile
  <2>4. judging'[w].pc # judging[w].pc
    BY <2>3 DEF M!Written
  <2>5. \A a \in Judged : /\ Keeps(judging[w].pc, rows[a], rows'[a])
                          /\ rows'[a] # rows[a] => rows'[a] = judging[w].write[a]
    BY <2>2, <2>3, CommitKeeps
  <2>6. judging[w].pc \in {"flag", "score", "profile", "complete"}
    BY <2>1 DEF M!Flag, M!Score, M!SaveProfile, M!CompleteProfile
  <2>. QED BY <2>4, <2>5, <2>6 DEF M!NothingPutBackStep, Keeps
<1>. QED BY <1>1, <1>2

\* The behaviours of the sum, of which the messages are one part, keep the invariant.
LEMMA RowsInvariant == SumSpec => []RowsInv
<1>1. SumInit => RowsInv
  BY RowsInit DEF SumInit
<1>2. RowsInv /\ [SumNext]_<<part, vars, judgements>> => RowsInv'
  BY RowsStep DEF SumNext, judgements, M!vars
<1>. QED BY <1>1, <1>2, PTL DEF SumSpec

\* Sessions know what is stored in every row that others have not written since, for
\* any actors and windows.
THEOREM SessionsKnow == SumSpec => []RowsTypeOK
<1>1. RowsInv => RowsTypeOK
  BY DEF RowsInv, RowsTypeOK
<1>. QED BY <1>1, RowsInvariant, PTL

\* Whoever is banned was judged by both computations, and his row goes on saying so.
THEOREM BannedJudged == SumSpec => []BannedWereJudged
<1>1. RowsInv => BannedWereJudged
  BY DEF RowsInv, BannedWereJudged
<1>. QED BY <1>1, RowsInvariant, PTL

\* No commit puts back what it had read of columns that are not its own.
THEOREM KeptToItsColumns == SumSpec => NothingPutBack
<1>1. RowsInv /\ [SumNext]_<<part, vars, judgements>> => [M!NothingPutBackStep]_(M!vars)
  BY StepPutsNothingBack DEF SumNext, judgements, M!vars
<1>. QED BY <1>1, RowsInvariant, PTL DEF SumSpec, NothingPutBack, M!NothingPutBack
=============================================================================
