---------------------------- MODULE DsuMTProofs ----------------------------
(***************************************************************************)
(* Theorems about DsuMT, for any number of slots, threads and merges and   *)
(* for any priorities, also tied ones.                                     *)
(***************************************************************************)
EXTENDS DsuMT, FiniteSetTheorems, TLAPS

-----------------------------------------------------------------------------
(* The inductive invariant *)

Above(x, y) == x = y \/ Higher(x, y)

\* The shared arrays: comp is a partition, a parent is in the component of its
\* child and above it, and every component has a root, above all of it.
TreeInv ==
  /\ Climbing
  /\ \A s \in Slot : s \in comp[s] /\ parent[s] \in comp[s]
  /\ \A s \in Slot : \A o \in comp[s] : comp[o] = comp[s]
  /\ \A s \in Slot : \E q \in comp[s] : Root(q)
  /\ \A q \in Slot : Root(q) => \A o \in comp[q] : Above(q, o)

\* What thread t executes.
ControlInv(t) ==
  /\ pc[t] = "idle" <=> call[t] = NoCall
  /\ pc[t] = "idle" => ret[t] = "a"
  /\ pc[t] # "idle" => (phase = "find" <=> ret[t] = "found")
  /\ pc[t] = "cas" => ret[t] = "b"

\* find_root of thread t: only the slots that are no roots are halved, and what
\* is stored is above u.  That a slot is a root was true of its earlier loads
\* whenever it is true now.
FindInv(t) ==
  /\ pc[t] \in {"outer", "right"} /\ Root(u[t]) => v[t] = u[t]
  /\ pc[t] \in {"halve_inner", "halve_outer", "halve_store", "advance"} => ~Root(u[t])
  /\ pc[t] \in {"halve_outer", "halve_store"} =>
       comp[v[t]] = comp[u[t]] /\ Higher(v[t], u[t])

\* x and y are in the components of the two arguments of t, in either order.
Sides(t, x, y) ==
  \/ comp[x] = comp[call[t][1]] /\ comp[y] = comp[call[t][2]]
  \/ comp[x] = comp[call[t][2]] /\ comp[y] = comp[call[t][1]]

\* The locals of merge stand for its arguments, however the trees change.
MergeInv(t) ==
  /\ pc[t] # "idle" /\ ret[t] = "a" => Sides(t, u[t], b[t])
  /\ pc[t] \in FindPC /\ ret[t] = "b" => Sides(t, a[t], u[t])
  /\ pc[t] = "cas" => Sides(t, a[t], b[t]) /\ Higher(a[t], b[t])

\* find_root called for a slot climbs from it.
ClimbInv(t) ==
  pc[t] # "idle" /\ ret[t] = "found" =>
    /\ comp[u[t]] = comp[call[t][1]]
    /\ Above(u[t], call[t][1])

ThreadInv(t) == ControlInv(t) /\ FindInv(t) /\ MergeInv(t) /\ ClimbInv(t)

FoundInv ==
  /\ phase = "merge" => \A s \in Slot : found[s] = NotFound
  /\ LabelsCountComponents

DsuInv == TypeOK /\ TreeInv /\ (\A t \in Thread : ThreadInv(t)) /\ FoundInv /\ RootsAccount

-----------------------------------------------------------------------------
(* The order of slots *)

\* The constants as the provers need them.
LEMMA SlotFacts == N \in Nat /\ N > 0 /\ 0 \in Slot /\ NotFound \notin Slot /\ Slot \subseteq Nat
  BY NAssumption DEF Slot, NotFound

LEMMA SlotsFinite == IsFiniteSet(Slot) /\ Cardinality(Slot) = N
<1>1. 0 \in Int /\ N - 1 \in Int /\ (0 > N - 1 <=> FALSE) /\ N - 1 - 0 + 1 = N
  BY SlotFacts
<1>2. IsFiniteSet(0 .. N - 1) /\ Cardinality(0 .. N - 1) = N - 1 - 0 + 1
  BY <1>1, FS_Interval
<1> QED BY <1>1, <1>2 DEF Slot

\* Higher is a strict total order, ties of priority included.
LEMMA HigherOrder ==
  ASSUME TypeOK
  PROVE  /\ \A x, y \in Slot : Higher(x, y) => x # y /\ ~Higher(y, x)
         /\ \A x, y, z \in Slot : Higher(x, y) /\ Higher(y, z) => Higher(x, z)
         /\ \A x, y \in Slot : x # y => Higher(x, y) \/ Higher(y, x)
<1>1. \A x \in Slot : x \in Nat /\ priority[x] \in Nat
  BY SlotFacts DEF TypeOK
<1> QED BY <1>1 DEF Higher

LEMMA AboveOrder ==
  ASSUME TypeOK
  PROVE  /\ \A x, y \in Slot : Above(x, y) /\ Above(y, x) => x = y
         /\ \A x, y, z \in Slot : Above(x, y) /\ Above(y, z) => Above(x, z)
         /\ \A x, y, z \in Slot : Above(x, y) /\ Higher(y, z) => Higher(x, z)
  BY HigherOrder DEF Above

\* Priorities never change, so the order does not either.
LEMMA OrderFixed ==
  ASSUME UNCHANGED priority
  PROVE  \A x, y : (Higher(x, y)' <=> Higher(x, y)) /\ (Above(x, y)' <=> Above(x, y))
  BY DEF Higher, Above

\* Roots are unique in their component.
LEMMA OneRoot ==
  ASSUME TypeOK, TreeInv, NEW s \in Slot, NEW q \in comp[s], NEW r \in comp[s], Root(q), Root(r)
  PROVE  q = r
<1>1. q \in Slot /\ r \in Slot
  BY DEF TypeOK
<1>2. q \in comp[r] /\ r \in comp[q]
  BY <1>1 DEF TreeInv
<1> QED BY <1>1, <1>2, AboveOrder DEF TreeInv

-----------------------------------------------------------------------------
(* Steps of a thread that leave the trees alone, and what other threads see *)

\* A thread whose locals stay keeps its invariant while roots only disappear
\* and components only grow together.
LEMMA OtherThread ==
  ASSUME TypeOK, NEW o \in Thread, ThreadInv(o),
         UNCHANGED <<priority, phase>>,
         pc'[o] = pc[o], ret'[o] = ret[o], u'[o] = u[o], v'[o] = v[o],
         a'[o] = a[o], b'[o] = b[o], call'[o] = call[o],
         \A s \in Slot : ~Root(s) => ~Root(s)',
         \A x, y \in Slot : comp[x] = comp[y] => comp'[x] = comp'[y]
  PROVE  ThreadInv(o)'
<1>1. u[o] \in Slot /\ v[o] \in Slot /\ a[o] \in Slot /\ b[o] \in Slot
  BY DEF TypeOK
<1>2. call[o] # NoCall => call[o][1] \in Slot /\ call[o][2] \in Slot
  BY DEF TypeOK
<1>3. ControlInv(o)'
  BY DEF ThreadInv, ControlInv
<1>4. FindInv(o)'
  BY <1>1, OrderFixed DEF ThreadInv, FindInv
<1>5. MergeInv(o)'
  <2>1. \A x, y \in Slot : call[o] # NoCall /\ Sides(o, x, y) => Sides(o, x, y)'
    BY <1>2 DEF Sides
  <2>2. pc[o] # "idle" => call[o] # NoCall
    BY DEF ThreadInv, ControlInv
  <2>3. pc[o] \in FindPC => pc[o] # "idle"
    BY DEF FindPC
  <2>4. (Sides(o, u[o], b[o]) /\ call[o] # NoCall => Sides(o, u[o], b[o])')
        /\ (Sides(o, a[o], u[o]) /\ call[o] # NoCall => Sides(o, a[o], u[o])')
        /\ (Sides(o, a[o], b[o]) /\ call[o] # NoCall => Sides(o, a[o], b[o])')
    BY <1>1, <2>1 DEF Sides
  <2> QED BY <2>2, <2>3, <2>4, OrderFixed, <1>1 DEF ThreadInv, MergeInv
<1>6. ClimbInv(o)'
  BY <1>1, <1>2, OrderFixed DEF ThreadInv, ClimbInv, ControlInv
<1> QED BY <1>3, <1>4, <1>5, <1>6 DEF ThreadInv

-----------------------------------------------------------------------------
(* Type correctness *)

LEMMA TypeThread ==
  ASSUME TypeOK, NEW t \in Thread, ThreadStep(t)
  PROVE  TypeOK'
<1> USE SlotFacts DEF TypeOK, FindPC, Goto, Dead
<1>1. \A s \in Slot : parent[s] \in Slot
  OBVIOUS
<1>2. u[t] \in Slot /\ v[t] \in Slot /\ a[t] \in Slot /\ b[t] \in Slot
  OBVIOUS
<1>3. CASE ReadInner(t)
  BY <1>3, <1>1, <1>2 DEF ReadInner, Load
<1>4. CASE ReadOuter(t)
  BY <1>4, <1>1, <1>2 DEF ReadOuter, Load
<1>5. CASE ReadRight(t)
  BY <1>5, <1>1, <1>2 DEF ReadRight, Load
<1>6. CASE HalveInner(t)
  BY <1>6, <1>1, <1>2 DEF HalveInner, Load
<1>7. CASE HalveOuter(t)
  BY <1>7, <1>1, <1>2 DEF HalveOuter, Load
<1>8. CASE HalveStore(t)
  BY <1>8, <1>1, <1>2 DEF HalveStore
<1>9. CASE Advance(t)
  BY <1>9, <1>1, <1>2 DEF Advance
<1>10. CASE ReturnA(t)
  BY <1>10, <1>1, <1>2 DEF ReturnA, FindResult
<1>11. CASE ReturnB(t)
  <2>1. \A x, y \in Slot : OrderEdge(x, y)[1] \in Slot /\ OrderEdge(x, y)[2] \in Slot
    BY DEF OrderEdge
  <2> QED BY <1>11, <1>1, <1>2, <2>1 DEF ReturnB, FindResult
<1>12. CASE MergeFalse(t)
  BY <1>12, <1>1, <1>2 DEF MergeFalse, Return
<1>13. CASE ReturnFound(t)
  BY <1>13, <1>1, <1>2 DEF ReturnFound, Return, FindResult
<1>14. CASE CasSuccess(t)
  <2>1. comp' \in [Slot -> SUBSET Slot]
    BY <1>14, <1>2 DEF CasSuccess
  <2> QED BY <1>14, <1>1, <1>2, <2>1 DEF CasSuccess, Return
<1>15. CASE CasFail(t)
  BY <1>15, <1>1, <1>2 DEF CasFail
<1> QED BY <1>3, <1>4, <1>5, <1>6, <1>7, <1>8, <1>9, <1>10, <1>11, <1>12, <1>13, <1>14, <1>15
        DEF ThreadStep

LEMMA TypeNext == TypeOK /\ [Next]_vars => TypeOK'
<1> SUFFICES ASSUME TypeOK, [Next]_vars PROVE TypeOK'
  OBVIOUS
<1> USE SlotFacts DEF TypeOK, FindPC, Goto, locals
<1>1. ASSUME NEW t \in Thread, ThreadStep(t) PROVE TypeOK'
  BY <1>1, TypeThread
<1>2. ASSUME NEW t \in Thread, NEW x \in Slot, NEW y \in Slot, CallMerge(t, x, y) PROVE TypeOK'
  BY <1>2 DEF CallMerge
<1>3. ASSUME NEW t \in Thread, NEW s \in Slot, CallFind(t, s) PROVE TypeOK'
  BY <1>3 DEF CallFind
<1>4. CASE BeginFinds
  BY <1>4 DEF BeginFinds
<1>5. CASE EndFinds
  BY <1>5 DEF EndFinds
<1>6. CASE Reset
  BY <1>6 DEF Reset
<1>7. CASE UNCHANGED vars
  BY <1>7 DEF vars
<1> QED BY <1>1, <1>2, <1>3, <1>4, <1>5, <1>6, <1>7 DEF Next

LEMMA TypeInit == Init => TypeOK
  BY SlotFacts, PriorityAssumption DEF Init, Idle, TypeOK, FindPC, Dead, NotFound

\* The arrays and the locals of every thread stay within their ranges: find_root
\* and merge index parent and priority only with slots.
THEOREM TypeCorrect == Spec => []TypeOK
  BY TypeInit, TypeNext, PTL DEF Spec

-----------------------------------------------------------------------------
(* Steps that change only locals of one thread *)

\* Only thread t moves.
OnlyMoves(t) ==
  \A o \in Thread \ {t} :
    /\ pc'[o] = pc[o] /\ ret'[o] = ret[o] /\ u'[o] = u[o] /\ v'[o] = v[o]
    /\ a'[o] = a[o] /\ b'[o] = b[o] /\ call'[o] = call[o]

\* The arrays stay, thread t keeps its invariant: so does everyone else.
LEMMA LocalStep ==
  ASSUME DsuInv, NEW t \in Thread, TypeOK', ThreadInv(t)', OnlyMoves(t),
         UNCHANGED <<parent, priority, phase, found, joins, comp>>
  PROVE  DsuInv'
<1>1. TreeInv'
  BY OrderFixed DEF DsuInv, TreeInv, Climbing, Root
<1>2. ASSUME NEW o \in Thread, o # t PROVE ThreadInv(o)'
  BY <1>2, OtherThread DEF DsuInv, OnlyMoves, Root
<1>3. FoundInv'
  BY DEF DsuInv, FoundInv, LabelsCountComponents, Root
<1>4. RootsAccount'
  BY DEF DsuInv, RootsAccount, Root
<1> QED BY <1>1, <1>2, <1>3, <1>4 DEF DsuInv

LEMMA ThreadTypes ==
  ASSUME TypeOK, NEW t \in Thread
  PROVE  /\ u[t] \in Slot /\ v[t] \in Slot /\ a[t] \in Slot /\ b[t] \in Slot
         /\ \A s \in Slot : parent[s] \in Slot /\ comp[s] \subseteq Slot
         /\ pc[t] \in FindPC \cup {"idle", "cas"} /\ ret[t] \in {"a", "b", "found"}
         /\ call[t] # NoCall => call[t][1] \in Slot /\ call[t][2] \in Slot
  BY DEF TypeOK

\* A parent is in the component of its child, and above it.
LEMMA ParentFacts ==
  ASSUME TypeOK, TreeInv, NEW s \in Slot
  PROVE  /\ comp[parent[s]] = comp[s]
         /\ Above(parent[s], s)
         /\ ~Root(s) => Higher(parent[s], s)
  BY ThreadTypes DEF TreeInv, Climbing, Above, Root

\* The loads of find_root.
LEMMA FindLoad ==
  ASSUME DsuInv, TypeOK', NEW t \in Thread,
         ReadInner(t) \/ ReadOuter(t) \/ ReadRight(t) \/ HalveInner(t) \/ HalveOuter(t)
  PROVE  DsuInv'
<1> USE DEF DsuInv
<1>0. /\ UNCHANGED <<parent, priority, phase, found, joins, comp>> /\ OnlyMoves(t)
      /\ u' = u /\ a' = a /\ b' = b /\ ret' = ret /\ call' = call
      /\ pc[t] \in FindPC /\ pc'[t] \in FindPC
  BY DEF ReadInner, ReadOuter, ReadRight, HalveInner, HalveOuter, Load, Goto, OnlyMoves, TypeOK, FindPC
<1>1. ControlInv(t)' /\ MergeInv(t)' /\ ClimbInv(t)'
  BY <1>0, OrderFixed DEF ThreadInv, ControlInv, MergeInv, ClimbInv, Sides, FindPC
<1>2. FindInv(t)'
  <2>0. /\ u[t] \in Slot /\ v[t] \in Slot /\ parent[u[t]] \in Slot
        /\ FindInv(t) /\ u'[t] = u[t] /\ (Root(u[t])' <=> Root(u[t]))
        /\ (Higher(v[t], u[t])' <=> Higher(v'[t], u[t]))
    BY <1>0, ThreadTypes, OrderFixed DEF Root, ThreadInv
  <2>1. CASE ReadInner(t)
    <3>1. pc'[t] = "outer" /\ v'[t] = parent[u[t]]
      BY <2>1 DEF ReadInner, Load, Goto, TypeOK
    <3> QED BY <3>1, <2>0, <1>0 DEF FindInv, Root
  <2>2. CASE ReadOuter(t)
    <3>1. pc[t] = "outer" /\ pc'[t] = "right" /\ v'[t] = parent[v[t]]
      BY <2>2 DEF ReadOuter, Load, Goto, TypeOK
    <3> QED BY <3>1, <2>0, <1>0 DEF FindInv, Root
  <2>3. CASE ReadRight(t)
    <3>1. pc[t] = "right" /\ pc'[t] = (IF v[t] # parent[u[t]] THEN "halve_inner" ELSE "return")
      BY <2>3 DEF ReadRight, Load, Goto, TypeOK
    <3> QED BY <3>1, <2>0, <1>0 DEF FindInv, Root
  <2>4. CASE HalveInner(t)
    <3>1. pc[t] = "halve_inner" /\ pc'[t] = "halve_outer" /\ v'[t] = parent[u[t]]
      BY <2>4 DEF HalveInner, Load, Goto, TypeOK
    <3>2. comp[v'[t]] = comp[u[t]] /\ Higher(v'[t], u[t])
      BY <3>1, <2>0, ParentFacts DEF FindInv
    <3> QED BY <3>1, <3>2, <2>0, <1>0 DEF FindInv
  <2>5. CASE HalveOuter(t)
    <3>1. pc[t] = "halve_outer" /\ pc'[t] = "halve_store" /\ v'[t] = parent[v[t]]
      BY <2>5 DEF HalveOuter, Load, Goto, TypeOK
    <3>2. comp[v'[t]] = comp[u[t]] /\ Higher(v'[t], u[t])
      BY <3>1, <2>0, ParentFacts, AboveOrder, ThreadTypes DEF FindInv
    <3> QED BY <3>1, <3>2, <2>0, <1>0 DEF FindInv
  <2> QED BY <2>1, <2>2, <2>3, <2>4, <2>5
<1> QED BY <1>0, <1>1, <1>2, LocalStep DEF ThreadInv

\* u climbs to its parent.
LEMMA FindAdvance ==
  ASSUME DsuInv, TypeOK', NEW t \in Thread, Advance(t)
  PROVE  DsuInv'
<1> USE DEF DsuInv
<1>0. /\ UNCHANGED <<parent, priority, phase, found, joins, comp>> /\ OnlyMoves(t)
      /\ v' = v /\ a' = a /\ b' = b /\ ret' = ret /\ call' = call
      /\ pc[t] = "advance" /\ pc'[t] = "inner" /\ u'[t] = parent[u[t]]
  BY DEF Advance, Goto, OnlyMoves, TypeOK
<1>1. /\ u[t] \in Slot /\ u'[t] \in Slot /\ comp[u'[t]] = comp[u[t]] /\ Above(u'[t], u[t])
  BY <1>0, ParentFacts, ThreadTypes
<1>2. ControlInv(t)' /\ MergeInv(t)' /\ FindInv(t)'
  BY <1>0, <1>1 DEF ThreadInv, ControlInv, MergeInv, FindInv, Sides, FindPC
<1>3. ClimbInv(t)'
  <2>1. call[t] # NoCall => call[t][1] \in Slot
    BY ThreadTypes
  <2> QED BY <1>0, <1>1, <2>1, AboveOrder, OrderFixed DEF ThreadInv, ClimbInv, ControlInv
<1> QED BY <1>0, <1>2, <1>3, LocalStep DEF ThreadInv

\* A halving store: no root is touched, so the roots stay what they are.
LEMMA FindHalve ==
  ASSUME DsuInv, TypeOK', NEW t \in Thread, HalveStore(t)
  PROVE  DsuInv'
<1> USE DEF DsuInv
<1>0. /\ UNCHANGED <<priority, phase, found, joins, comp>> /\ OnlyMoves(t)
      /\ u' = u /\ a' = a /\ b' = b /\ ret' = ret /\ call' = call
      /\ pc[t] = "halve_store" /\ pc'[t] = "advance"
  BY DEF HalveStore, Goto, OnlyMoves, TypeOK
<1>1. /\ u[t] \in Slot /\ v[t] \in Slot /\ ~Root(u[t])
      /\ comp[v[t]] = comp[u[t]] /\ Higher(v[t], u[t]) /\ v[t] # u[t]
  BY <1>0, ThreadTypes, HigherOrder DEF ThreadInv, FindInv
<1>2. \A s \in Slot : parent'[s] = IF s = u[t] THEN v[t] ELSE parent[s]
  BY <1>1 DEF HalveStore, TypeOK
<1>3. \A s \in Slot : Root(s)' <=> Root(s)
  BY <1>1, <1>2 DEF Root
<1>4. TreeInv'
  <2>1. \A s \in Slot : parent'[s] \in comp[s] /\ (Root(s) \/ Higher(parent'[s], s))
    BY <1>1, <1>2 DEF TreeInv, Climbing
  <2>2. \A s \in Slot : \A o \in comp[s] : o \in Slot
    BY DEF TypeOK
  <2>3. Climbing'
    BY <2>1, <1>3, <1>0, OrderFixed DEF Climbing
  <2>4. \A s \in Slot : \E q \in comp[s] : Root(q)'
    BY <2>2, <1>3 DEF TreeInv
  <2>5. \A q \in Slot : Root(q)' => \A o \in comp[q] : Above(q, o)'
    BY <1>3, <1>0, OrderFixed DEF TreeInv
  <2> QED BY <2>1, <2>3, <2>4, <2>5, <1>0 DEF TreeInv
<1>5. ThreadInv(t)'
  <2>1. FindInv(t)'
    BY <1>0, <1>1, <1>3 DEF FindInv
  <2> QED BY <1>0, <2>1, OrderFixed DEF ThreadInv, ControlInv, MergeInv, ClimbInv, Sides, FindPC
<1>6. ASSUME NEW o \in Thread, o # t PROVE ThreadInv(o)'
  BY <1>6, <1>0, <1>3, OtherThread DEF OnlyMoves
<1>7. FoundInv'
  BY <1>0, <1>3 DEF FoundInv, LabelsCountComponents
<1>8. RootsAccount'
  <2>1. {s \in Slot : Root(s)}' = {s \in Slot : Root(s)}
    BY <1>3
  <2> QED BY <2>1, <1>0 DEF RootsAccount
<1> QED BY <1>4, <1>5, <1>6, <1>7, <1>8

-----------------------------------------------------------------------------
(* merge *)

\* find_root(a) is done.
LEMMA MergeReturnA ==
  ASSUME DsuInv, TypeOK', NEW t \in Thread, ReturnA(t)
  PROVE  DsuInv'
<1> USE DEF DsuInv
<1>0. /\ UNCHANGED <<parent, priority, phase, found, joins, comp>> /\ OnlyMoves(t)
      /\ v' = v /\ call' = call /\ pc[t] = "return" /\ pc'[t] = "inner"
      /\ ret[t] = "a" /\ ret'[t] = "b" /\ a'[t] = parent[u[t]] /\ u'[t] = b[t]
  BY DEF ReturnA, Goto, OnlyMoves, TypeOK, FindResult
<1>1. comp[a'[t]] = comp[u[t]]
  BY <1>0, ParentFacts, ThreadTypes
<1> QED BY <1>0, <1>1, LocalStep DEF ThreadInv, ControlInv, MergeInv, FindInv, ClimbInv, Sides, FindPC

\* find_root(b) is done and the roots are ordered for the exchange.
LEMMA MergeReturnB ==
  ASSUME DsuInv, TypeOK', NEW t \in Thread, ReturnB(t)
  PROVE  DsuInv'
<1> USE DEF DsuInv
<1> DEFINE r == parent[u[t]]
<1>0. /\ UNCHANGED <<parent, priority, phase, found, joins, comp>> /\ OnlyMoves(t)
      /\ v' = v /\ call' = call /\ ret' = ret /\ pc[t] = "return" /\ pc'[t] = "cas"
      /\ ret[t] = "b" /\ a[t] # r
      /\ a'[t] = OrderEdge(a[t], r)[1] /\ b'[t] = OrderEdge(a[t], r)[2]
  BY DEF ReturnB, Goto, OnlyMoves, TypeOK, FindResult
<1>1. comp[r] = comp[u[t]] /\ r \in Slot /\ a[t] \in Slot
  BY ParentFacts, ThreadTypes
<1>2. Sides(t, a[t], u[t])
  BY <1>0 DEF ThreadInv, MergeInv, FindPC
<1>3. /\ Higher(a'[t], b'[t])
      /\ (a'[t] = a[t] /\ b'[t] = r) \/ (a'[t] = r /\ b'[t] = a[t])
  BY <1>0, <1>1, HigherOrder DEF OrderEdge
<1>4. Sides(t, a[t], b[t])'
  BY <1>0, <1>1, <1>2, <1>3 DEF Sides
<1>5. Higher(a[t], b[t])'
  BY <1>0, <1>3, OrderFixed
<1> QED BY <1>0, <1>4, <1>5, LocalStep DEF ThreadInv, ControlInv, MergeInv, FindInv, ClimbInv, FindPC

\* The compare-and-exchange failed.
LEMMA MergeCasFail ==
  ASSUME DsuInv, TypeOK', NEW t \in Thread, CasFail(t)
  PROVE  DsuInv'
<1> USE DEF DsuInv
<1>0. /\ UNCHANGED <<parent, priority, phase, found, joins, comp>> /\ OnlyMoves(t)
      /\ v' = v /\ call' = call /\ pc[t] = "cas" /\ pc'[t] = "inner"
      /\ ret'[t] = "a" /\ b'[t] = parent[b[t]] /\ u'[t] = a[t]
  BY DEF CasFail, Goto, OnlyMoves, TypeOK
<1>1. comp[b'[t]] = comp[b[t]]
  BY <1>0, ParentFacts, ThreadTypes
<1> QED BY <1>0, <1>1, LocalStep DEF ThreadInv, ControlInv, MergeInv, FindInv, ClimbInv, Sides, FindPC

\* A thread that is idle has nothing to keep.
LEMMA IdleThread ==
  ASSUME NEW t \in Thread, pc[t] = "idle", ret[t] = "a", call[t] = NoCall
  PROVE  ThreadInv(t)
  BY DEF ThreadInv, ControlInv, FindInv, MergeInv, ClimbInv, FindPC

LEMMA MergeReturnFalse ==
  ASSUME DsuInv, TypeOK', NEW t \in Thread, MergeFalse(t)
  PROVE  DsuInv'
<1>0. /\ UNCHANGED <<parent, priority, phase, found, joins, comp>> /\ OnlyMoves(t)
      /\ pc'[t] = "idle" /\ ret'[t] = "a" /\ call'[t] = NoCall
  BY DEF DsuInv, MergeFalse, Return, Goto, OnlyMoves, TypeOK
<1>1. ThreadInv(t)'
  BY <1>0 DEF ThreadInv, ControlInv, FindInv, MergeInv, ClimbInv, FindPC
<1> QED BY <1>0, <1>1, LocalStep

LEMMA MergeCalled ==
  ASSUME DsuInv, TypeOK', NEW t \in Thread, NEW x \in Slot, NEW y \in Slot, CallMerge(t, x, y)
  PROVE  DsuInv'
<1>0. /\ UNCHANGED <<parent, priority, phase, found, joins, comp>> /\ OnlyMoves(t)
      /\ phase = "merge" /\ pc'[t] = "inner" /\ ret'[t] = "a" /\ call'[t] = <<x, y>>
      /\ u'[t] = x /\ b'[t] = y
  BY DEF DsuInv, CallMerge, Goto, OnlyMoves, TypeOK
<1>1. <<x, y>> # NoCall
  BY NoCallAssumption
<1>2. ThreadInv(t)'
  BY <1>0, <1>1 DEF ThreadInv, ControlInv, FindInv, MergeInv, ClimbInv, Sides, FindPC
<1> QED BY <1>0, <1>2, LocalStep

LEMMA FindCalled ==
  ASSUME DsuInv, TypeOK', NEW t \in Thread, NEW s \in Slot, CallFind(t, s)
  PROVE  DsuInv'
<1>0. /\ UNCHANGED <<parent, priority, phase, found, joins, comp>> /\ OnlyMoves(t)
      /\ phase = "find" /\ pc'[t] = "inner" /\ ret'[t] = "found" /\ call'[t] = <<s, s>>
      /\ u'[t] = s
  BY DEF DsuInv, CallFind, Goto, OnlyMoves, TypeOK
<1>1. <<s, s>> # NoCall
  BY NoCallAssumption
<1>2. ThreadInv(t)'
  BY <1>0, <1>1 DEF ThreadInv, ControlInv, FindInv, MergeInv, ClimbInv, Above, FindPC
<1> QED BY <1>0, <1>2, LocalStep


\* find_root returned to its region: the label of s is s exactly if s is a root,
\* since u is above s and no slot of its component is above a root.
LEMMA FindReturned ==
  ASSUME DsuInv, TypeOK', NEW t \in Thread, ReturnFound(t)
  PROVE  DsuInv'
<1> USE DEF DsuInv
<1> DEFINE s == call[t][1]
           r == parent[u[t]]
<1>0. /\ UNCHANGED <<parent, priority, phase, joins, comp>> /\ OnlyMoves(t)
      /\ pc[t] = "return" /\ ret[t] = "found"
      /\ pc'[t] = "idle" /\ ret'[t] = "a" /\ call'[t] = NoCall
      /\ found' = [found EXCEPT ![s] = r]
  BY DEF ReturnFound, Return, Goto, OnlyMoves, TypeOK, FindResult
<1>1. phase = "find" /\ call[t] # NoCall /\ comp[u[t]] = comp[s] /\ Above(u[t], s)
  BY <1>0 DEF ThreadInv, ControlInv, ClimbInv
<1>2. s \in Slot /\ u[t] \in Slot /\ r \in Slot
  BY <1>1, ThreadTypes
<1>3. u[t] \in comp[s] /\ r \in comp[s] /\ Above(r, u[t])
  BY <1>1, <1>2, ParentFacts DEF TreeInv
<1>4. r = s <=> Root(s)
  <2>1. ASSUME Root(s) PROVE u[t] = s
    <3>1. Above(s, u[t])
      BY <2>1, <1>2, <1>3 DEF TreeInv
    <3> QED BY <3>1, <1>1, <1>2, AboveOrder
  <2>2. ASSUME r = s PROVE u[t] = s
    BY <2>2, <1>1, <1>2, <1>3, AboveOrder
  <2> QED BY <2>1, <2>2 DEF Root
<1>5. FoundInv'
  <2>1. \A q \in Slot : found'[q] = IF q = s THEN r ELSE found[q]
    BY <1>0, <1>2 DEF TypeOK
  <2>2. \A q \in Slot : Root(q)' <=> Root(q)
    BY <1>0 DEF Root
  <2> QED BY <2>1, <2>2, <1>0, <1>1, <1>3, <1>4 DEF FoundInv, LabelsCountComponents
<1>6. TreeInv'
  BY <1>0, OrderFixed DEF TreeInv, Climbing, Root
<1>7. ThreadInv(t)'
  BY <1>0 DEF ThreadInv, ControlInv, FindInv, MergeInv, ClimbInv, FindPC
<1>8. ASSUME NEW o \in Thread, o # t PROVE ThreadInv(o)'
  BY <1>8, <1>0, OtherThread DEF OnlyMoves, Root
<1>9. RootsAccount'
  BY <1>0 DEF RootsAccount, Root
<1> QED BY <1>5, <1>6, <1>7, <1>8, <1>9

\* What a successful exchange does: b was a root, a is above it, so a is in
\* another component, and the two become one.
LEMMA ExchangeFacts ==
  ASSUME DsuInv, TypeOK', NEW t \in Thread, CasSuccess(t)
  PROVE  /\ UNCHANGED <<priority, phase, found>> /\ OnlyMoves(t) /\ joins' = joins + 1
         /\ pc[t] = "cas" /\ ret[t] = "b" /\ call[t] # NoCall /\ phase = "merge"
         /\ pc'[t] = "idle" /\ ret'[t] = "a" /\ call'[t] = NoCall
         /\ a[t] \in Slot /\ b[t] \in Slot /\ Root(b[t]) /\ Higher(a[t], b[t])
         /\ comp[a[t]] # comp[b[t]] /\ Sides(t, a[t], b[t])
         /\ \A s \in Slot : parent'[s] = IF s = b[t] THEN a[t] ELSE parent[s]
         /\ \A s \in Slot : comp'[s] = IF s \in comp[a[t]] \cup comp[b[t]]
                                       THEN comp[a[t]] \cup comp[b[t]] ELSE comp[s]
<1> USE DEF DsuInv
<1>0. /\ UNCHANGED <<priority, phase, found>> /\ OnlyMoves(t) /\ joins' = joins + 1
      /\ pc[t] = "cas" /\ pc'[t] = "idle" /\ ret'[t] = "a" /\ call'[t] = NoCall
      /\ parent[b[t]] = b[t] /\ parent' = [parent EXCEPT ![b[t]] = a[t]]
      /\ comp' = [s \in Slot |-> IF s \in comp[a[t]] \cup comp[b[t]]
                                 THEN comp[a[t]] \cup comp[b[t]] ELSE comp[s]]
  BY DEF CasSuccess, Expected, Return, Goto, OnlyMoves, TypeOK
<1>1. a[t] \in Slot /\ b[t] \in Slot
  BY ThreadTypes
<1>2. /\ ret[t] = "b" /\ call[t] # NoCall /\ Sides(t, a[t], b[t]) /\ Higher(a[t], b[t])
      /\ phase # "find"
  BY <1>0 DEF ThreadInv, ControlInv, MergeInv
<1>3. phase = "merge"
  BY <1>2 DEF TypeOK
<1>4. comp[a[t]] # comp[b[t]]
  <2> SUFFICES ASSUME comp[a[t]] = comp[b[t]] PROVE FALSE
    OBVIOUS
  <2>1. Above(b[t], a[t])
    BY <1>0, <1>1 DEF TreeInv, Root
  <2> QED BY <2>1, <1>1, <1>2, HigherOrder DEF Above
<1> QED BY <1>0, <1>1, <1>2, <1>3, <1>4 DEF TypeOK, Root

LEMMA MergeReturnTrue ==
  ASSUME DsuInv, TypeOK', NEW t \in Thread, CasSuccess(t)
  PROVE  DsuInv'
<1> USE DEF DsuInv
<1> DEFINE x == a[t]
           y == b[t]
           c == comp[x] \cup comp[y]
<1> HIDE DEF x, y
<1>0. /\ UNCHANGED <<priority, phase, found>> /\ OnlyMoves(t) /\ joins' = joins + 1
      /\ phase = "merge" /\ pc'[t] = "idle" /\ ret'[t] = "a" /\ call'[t] = NoCall
  BY ExchangeFacts
<1>1. x \in Slot /\ y \in Slot /\ Root(y) /\ Higher(x, y) /\ x # y /\ comp[x] # comp[y]
  BY ExchangeFacts, HigherOrder DEF x, y
<1>2. \A s \in Slot : parent'[s] = IF s = y THEN x ELSE parent[s]
  BY ExchangeFacts DEF x, y
<1>3. \A s \in Slot : comp'[s] = IF s \in c THEN c ELSE comp[s]
  BY ExchangeFacts DEF x, y
<1>4. \A s \in Slot : Root(s)' <=> Root(s) /\ s # y
  BY <1>1, <1>2 DEF Root
<1>5. /\ \A s \in Slot : comp[s] \subseteq Slot /\ s \in comp[s] /\ parent[s] \in comp[s]
      /\ \A s \in Slot : \A o \in comp[s] : comp[o] = comp[s]
  BY ThreadTypes DEF TreeInv
<1>6. \A s \in Slot : s \in c <=> comp[s] = comp[x] \/ comp[s] = comp[y]
  BY <1>1, <1>5
<1>7. PICK r \in comp[x] : Root(r)
  BY <1>1 DEF TreeInv
<1>8. r \in Slot /\ r # y /\ Root(r)' /\ comp[r] = comp[x] /\ Above(r, x) /\ Higher(r, y)
  <2>1. r \in Slot /\ comp[r] = comp[x] /\ r # y
    BY <1>1, <1>5
  <2>2. Above(r, x)
    BY <2>1, <1>1, <1>5, <1>7 DEF TreeInv
  <2> QED BY <2>1, <2>2, <1>1, <1>4, <1>7, AboveOrder
<1>9. TreeInv'
  <2>1. Climbing'
    BY <1>0, <1>1, <1>2, <1>4, OrderFixed DEF TreeInv, Climbing
  <2>2. \A s \in Slot : s \in comp'[s] /\ parent'[s] \in comp'[s]
    BY <1>1, <1>2, <1>3, <1>5, <1>6
  <2>3. \A s \in Slot : \A o \in comp'[s] : comp'[o] = comp'[s]
    <3>1. ASSUME NEW s \in Slot, s \notin c, NEW o \in comp[s] PROVE o \in Slot /\ o \notin c
      BY <3>1, <1>5, <1>6
    <3>2. \A o \in c : o \in Slot
      BY <1>1, <1>5
    <3> QED BY <3>1, <3>2, <1>3, <1>5
  <2>4. \A s \in Slot : \E q \in comp'[s] : Root(q)'
    <3>1. ASSUME NEW s \in Slot, s \notin c PROVE \E q \in comp[s] : q # y /\ Root(q)
      BY <3>1, <1>5, <1>6 DEF TreeInv
    <3> QED BY <3>1, <1>3, <1>4, <1>5, <1>7, <1>8
  <2>5. \A q \in Slot : Root(q)' => \A o \in comp'[q] : Above(q, o)
    <3> SUFFICES ASSUME NEW q \in Slot, Root(q), q # y, NEW o \in comp'[q] PROVE Above(q, o)
      BY <1>4
    <3>1. CASE q \notin c
      BY <3>1, <1>3 DEF TreeInv
    <3>2. CASE q \in c
      <4>1. comp[q] = comp[x]
        <5> SUFFICES ASSUME comp[q] = comp[y] PROVE FALSE
          BY <3>2, <1>6
        <5>1. q \in comp[y] /\ y \in comp[y]
          BY <1>1, <1>5
        <5> QED BY <5>1, <1>1, OneRoot
      <4>2. q = r
        BY <4>1, <1>1, <1>5, <1>7, OneRoot
      <4>3. o \in comp[x] => Above(q, o)
        BY <4>1 DEF TreeInv
      <4>4. o \in comp[y] => Above(q, o)
        BY <4>2, <1>1, <1>5, <1>8, AboveOrder DEF TreeInv, Above
      <4> QED BY <3>2, <4>3, <4>4, <1>3
    <3> QED BY <3>1, <3>2
  <2> QED BY <2>1, <2>2, <2>3, <2>4, <2>5, <1>0, OrderFixed DEF TreeInv
<1>10. ThreadInv(t)'
  BY <1>0 DEF ThreadInv, ControlInv, FindInv, MergeInv, ClimbInv, FindPC
<1>11. ASSUME NEW o \in Thread, o # t PROVE ThreadInv(o)'
  <2>1. \A p, q \in Slot : comp[p] = comp[q] => comp'[p] = comp'[q]
    BY <1>3, <1>6
  <2> QED BY <1>11, <2>1, <1>0, <1>4, OtherThread DEF OnlyMoves
<1>12. FoundInv'
  BY <1>0 DEF FoundInv, LabelsCountComponents
<1>13. RootsAccount'
  <2> DEFINE R == {s \in Slot : Root(s)}
  <2>1. {s \in Slot : Root(s)}' = R \ {y} /\ y \in R
    BY <1>1, <1>4
  <2>2. IsFiniteSet(R)
    BY SlotsFinite, FS_Subset
  <2>3. Cardinality(R \ {y}) = Cardinality(R) - 1 /\ Cardinality(R) \in Nat
    BY <2>1, <2>2, FS_RemoveElement, FS_CardinalityType
  <2>4. Cardinality(R) + joins = N
    BY DEF RootsAccount
  <2>5. Cardinality({s \in Slot : Root(s)}') = Cardinality(R) - 1
    BY <2>1, <2>3
  <2>6. Cardinality({s \in Slot : Root(s)}') + joins' = N
    <3> HIDE DEF R
    <3> QED BY <2>3, <2>4, <2>5, <1>0 DEF TypeOK
  <2> QED BY <2>6 DEF RootsAccount
<1> QED BY <1>9, <1>10, <1>11, <1>12, <1>13


-----------------------------------------------------------------------------
(* Regions and reset *)

\* The arrays of the constructor and of reset: every slot is a component.
LEMMA FreshTrees ==
  ASSUME parent = [s \in Slot |-> s], comp = [s \in Slot |-> {s}], joins = 0
  PROVE  TreeInv /\ RootsAccount
<1>1. TreeInv
  BY DEF TreeInv, Climbing, Root, Above
<1>2. {s \in Slot : Root(s)} = Slot
  BY DEF Root
<1>3. RootsAccount
  BY <1>2, SlotsFinite, SlotFacts DEF RootsAccount
<1> QED BY <1>1, <1>3

LEMMA InvInit == Init => DsuInv
<1> SUFFICES ASSUME Init PROVE DsuInv
  OBVIOUS
<1>1. TypeOK
  BY TypeInit
<1>2. TreeInv /\ RootsAccount
  BY FreshTrees DEF Init
<1>3. \A t \in Thread : ThreadInv(t)
  BY IdleThread DEF Init, Idle
<1>4. FoundInv
  BY DEF Init, Idle, FoundInv, LabelsCountComponents
<1> QED BY <1>1, <1>2, <1>3, <1>4 DEF DsuInv

\* The barrier before and after a region of find_root calls.
LEMMA RegionChanges ==
  ASSUME DsuInv, TypeOK', BeginFinds \/ EndFinds
  PROVE  DsuInv'
<1> USE DEF DsuInv
<1>0. UNCHANGED <<parent, priority, pc, ret, call, u, v, a, b, joins, comp>> /\ AllIdle
  BY DEF BeginFinds, EndFinds, locals
<1>1. \A t \in Thread : ThreadInv(t)'
  BY <1>0 DEF AllIdle, ThreadInv, ControlInv, FindInv, MergeInv, ClimbInv, FindPC
<1>2. TreeInv' /\ RootsAccount'
  BY <1>0, OrderFixed DEF TreeInv, Climbing, RootsAccount, Root
<1>3. FoundInv'
  BY <1>0 DEF BeginFinds, EndFinds, FoundInv, LabelsCountComponents, Root
<1> QED BY <1>1, <1>2, <1>3

LEMMA ResetFresh ==
  ASSUME DsuInv, TypeOK', Reset
  PROVE  DsuInv'
<1> USE DEF DsuInv
<1>0. /\ UNCHANGED <<priority, phase, pc, ret, call, u, v, a, b, found>> /\ AllIdle
      /\ phase = "merge" /\ parent' = [s \in Slot |-> s] /\ comp' = [s \in Slot |-> {s}]
      /\ joins' = 0
  BY DEF Reset, locals
<1>1. \A t \in Thread : ThreadInv(t)'
  BY <1>0 DEF AllIdle, ThreadInv, ControlInv, FindInv, MergeInv, ClimbInv, FindPC
<1>2. TreeInv'
  BY <1>0 DEF TreeInv, Climbing, Root, Above
<1>3. {s \in Slot : Root(s)}' = Slot
  BY <1>0 DEF Root
<1>4. RootsAccount'
  BY <1>0, <1>3, SlotsFinite, SlotFacts DEF RootsAccount
<1>5. FoundInv'
  BY <1>0 DEF FoundInv, LabelsCountComponents
<1> QED BY <1>1, <1>2, <1>4, <1>5

-----------------------------------------------------------------------------
(* The invariant, and what follows from it *)

LEMMA InvThread ==
  ASSUME DsuInv, TypeOK', NEW t \in Thread, ThreadStep(t)
  PROVE  DsuInv'
  BY FindLoad, FindHalve, FindAdvance, MergeReturnA, MergeReturnB, MergeReturnFalse,
     FindReturned, MergeReturnTrue, MergeCasFail DEF ThreadStep

LEMMA InvStutter == DsuInv /\ UNCHANGED vars => DsuInv'
<1> SUFFICES ASSUME DsuInv, UNCHANGED vars PROVE DsuInv'
  OBVIOUS
<1>0. /\ UNCHANGED <<parent, priority, phase, pc, ret, u, v, a, b, call>>
      /\ UNCHANGED <<found, joins, comp, calls>>
  BY DEF vars, locals
<1>1. TypeOK' /\ TreeInv'
  BY <1>0 DEF DsuInv, TypeOK, TreeInv, Climbing, Root, Above, Higher
<1>2. \A t \in Thread : ThreadInv(t)'
  BY <1>0, OtherThread DEF DsuInv, Root
<1>3. FoundInv' /\ RootsAccount'
  BY <1>0 DEF DsuInv, FoundInv, LabelsCountComponents, RootsAccount, Root
<1> QED BY <1>1, <1>2, <1>3 DEF DsuInv

LEMMA InvNext == DsuInv /\ [Next]_vars => DsuInv'
<1> SUFFICES ASSUME DsuInv, [Next]_vars PROVE DsuInv'
  OBVIOUS
<1>1. TypeOK'
  BY TypeNext DEF DsuInv
<1> QED BY <1>1, InvThread, MergeCalled, FindCalled, RegionChanges, ResetFresh, InvStutter DEF Next

\* The joint invariant of the arrays, of every thread inside find_root or merge
\* and of the labels, under every interleaving of their loads and stores.
THEOREM Invariance == Spec => []DsuInv
  BY InvInit, InvNext, PTL DEF Spec

\* A parent ranks above its child, so the racing halving stores and exchanges of
\* dsu.h never close a cycle.
THEOREM ParentsClimb == Spec => []Climbing
<1>1. DsuInv => Climbing
  BY DEF DsuInv, TreeInv
<1> QED BY <1>1, Invariance, PTL

\* The trees of the parent array are the components the merges that returned
\* true have built, each with one root.
THEOREM TreesRight == Spec => []TreesAreComponents
<1>1. ASSUME DsuInv PROVE TreesAreComponents
  <2>1. ASSUME NEW s \in Slot
        PROVE  \E q \in comp[s] : Root(q) /\ \A o \in comp[s] : Root(o) => o = q
    <3>1. PICK q \in comp[s] : Root(q)
      BY <1>1 DEF DsuInv, TreeInv
    <3> QED BY <3>1, <1>1, OneRoot DEF DsuInv
  <2> QED BY <1>1, <2>1 DEF DsuInv, TreeInv, TreesAreComponents
<1> QED BY <1>1, Invariance, PTL

\* Every merge that returned true took exactly one root away.
THEOREM RootsCounted == Spec => []RootsAccount
<1>1. DsuInv => RootsAccount
  BY DEF DsuInv
<1> QED BY <1>1, Invariance, PTL

\* In a region of find_root calls exactly the roots are their own labels, and a
\* label is in the component of its slot.
THEOREM LabelsRight == Spec => []LabelsCountComponents
<1>1. DsuInv => LabelsCountComponents
  BY DEF DsuInv, FoundInv
<1> QED BY <1>1, Invariance, PTL


-----------------------------------------------------------------------------
(* DsuMT implements Partition *)

\* The calls asked for after a step in which only thread t moves.
LEMMA AskedAfter ==
  ASSUME TypeOK, TypeOK', NEW t \in Thread, OnlyMoves(t)
  PROVE  MergesAsked' = [MergesAsked EXCEPT ![t] = IF ret'[t] = "found" THEN NoCall ELSE call'[t]]
  BY DEF OnlyMoves, MergesAsked

\* Steps inside a call that Partition does not see.
LEMMA HiddenSteps ==
  ASSUME DsuInv, TypeOK', NEW t \in Thread, ThreadStep(t), ~MergeFalse(t), ~CasSuccess(t)
  PROVE  UNCHANGED Atomic!pvars
<1> USE DEF DsuInv
<1>1. CASE ReadInner(t) \/ ReadOuter(t) \/ ReadRight(t) \/ HalveInner(t) \/ HalveOuter(t)
           \/ HalveStore(t) \/ Advance(t) \/ ReturnB(t)
  BY <1>1 DEF ReadInner, ReadOuter, ReadRight, HalveInner, HalveOuter, Load, HalveStore, Advance,
              ReturnB, MergesAsked, Atomic!pvars
<1>2. CASE ReturnA(t) \/ CasFail(t)
  <2>1. /\ OnlyMoves(t) /\ UNCHANGED <<comp, joins, call>>
        /\ ret[t] # "found" /\ ret'[t] # "found"
    BY <1>2 DEF ReturnA, CasFail, Goto, OnlyMoves, TypeOK, ThreadInv, ControlInv
  <2>2. MergesAsked' = MergesAsked
    BY <2>1 DEF MergesAsked, OnlyMoves
  <2> QED BY <2>1, <2>2 DEF Atomic!pvars
<1>3. CASE ReturnFound(t)
  <2>1. /\ OnlyMoves(t) /\ UNCHANGED <<comp, joins>>
        /\ ret[t] = "found" /\ call'[t] = NoCall
    BY <1>3 DEF ReturnFound, Return, Goto, OnlyMoves, TypeOK
  <2>2. MergesAsked' = MergesAsked
    BY <2>1 DEF MergesAsked, OnlyMoves
  <2> QED BY <2>1, <2>2 DEF Atomic!pvars
<1> QED BY <1>1, <1>2, <1>3 DEF ThreadStep

\* The compare-and-exchange is the instant at which merge joins its arguments.
LEMMA ExchangeJoins ==
  ASSUME DsuInv, TypeOK', NEW t \in Thread, CasSuccess(t)
  PROVE  Atomic!MergeTrue(t)
<1> USE DEF DsuInv
<1>1. /\ OnlyMoves(t) /\ joins' = joins + 1
      /\ ret[t] = "b" /\ call[t] # NoCall /\ ret'[t] = "a" /\ call'[t] = NoCall
      /\ comp[a[t]] # comp[b[t]] /\ Sides(t, a[t], b[t])
  BY ExchangeFacts
<1>2. MergesAsked[t] = call[t] /\ MergesAsked' = [MergesAsked EXCEPT ![t] = NoCall]
  BY <1>1, AskedAfter DEF MergesAsked
<1>3. comp[call[t][1]] # comp[call[t][2]]
  BY <1>1 DEF Sides
<1>4. comp[a[t]] \cup comp[b[t]] = comp[call[t][1]] \cup comp[call[t][2]]
  BY <1>1 DEF Sides
<1>5. comp' = Atomic!Union(comp, call[t][1], call[t][2])
  BY <1>4 DEF CasSuccess, Atomic!Union
<1> QED BY <1>1, <1>2, <1>3, <1>5 DEF Atomic!MergeTrue

\* A merge that met one root twice: its arguments are in one component now.
LEMMA FalseAgrees ==
  ASSUME DsuInv, TypeOK', NEW t \in Thread, MergeFalse(t)
  PROVE  Atomic!MergeFalse(t)
<1> USE DEF DsuInv
<1>1. /\ OnlyMoves(t) /\ UNCHANGED <<comp, joins>> /\ pc[t] = "return"
      /\ ret[t] = "b" /\ ret'[t] = "a" /\ call'[t] = NoCall /\ a[t] = parent[u[t]]
  BY DEF MergeFalse, Return, Goto, OnlyMoves, TypeOK, FindResult
<1>2. call[t] # NoCall /\ Sides(t, a[t], u[t])
  BY <1>1 DEF ThreadInv, ControlInv, MergeInv, FindPC
<1>3. comp[a[t]] = comp[u[t]]
  BY <1>1, ParentFacts, ThreadTypes
<1>4. comp[call[t][1]] = comp[call[t][2]]
  BY <1>2, <1>3 DEF Sides
<1>5. MergesAsked[t] = call[t] /\ MergesAsked' = [MergesAsked EXCEPT ![t] = NoCall]
  BY <1>1, AskedAfter DEF MergesAsked
<1> QED BY <1>1, <1>2, <1>4, <1>5 DEF Atomic!MergeFalse

LEMMA CallsAgree ==
  ASSUME DsuInv, TypeOK', NEW t \in Thread
  PROVE  /\ \A x, y \in Slot : CallMerge(t, x, y) => Atomic!Call(t, x, y)
         /\ \A s \in Slot : CallFind(t, s) => UNCHANGED Atomic!pvars
<1> USE DEF DsuInv
<1>1. ASSUME NEW x \in Slot, NEW y \in Slot, CallMerge(t, x, y) PROVE Atomic!Call(t, x, y)
  <2>1. /\ OnlyMoves(t) /\ UNCHANGED <<comp, joins>> /\ pc[t] = "idle"
        /\ ret'[t] = "a" /\ call'[t] = <<x, y>>
    BY <1>1 DEF CallMerge, Goto, OnlyMoves, TypeOK
  <2>2. call[t] = NoCall
    BY <2>1 DEF ThreadInv, ControlInv
  <2>3. MergesAsked[t] = NoCall /\ MergesAsked' = [MergesAsked EXCEPT ![t] = <<x, y>>]
    BY <2>1, <2>2, AskedAfter DEF MergesAsked
  <2> QED BY <2>1, <2>3 DEF Atomic!Call
<1>2. ASSUME NEW s \in Slot, CallFind(t, s) PROVE UNCHANGED Atomic!pvars
  <2>1. /\ OnlyMoves(t) /\ UNCHANGED <<comp, joins>> /\ pc[t] = "idle" /\ ret'[t] = "found"
    BY <1>2 DEF CallFind, Goto, OnlyMoves, TypeOK
  <2>2. call[t] = NoCall
    BY <2>1 DEF ThreadInv, ControlInv
  <2>3. MergesAsked' = MergesAsked
    BY <2>1, <2>2 DEF MergesAsked, OnlyMoves
  <2> QED BY <2>1, <2>3 DEF Atomic!pvars
<1> QED BY <1>1, <1>2

LEMMA ResetClears == DsuInv /\ Reset => Atomic!Clear
<1> SUFFICES ASSUME DsuInv, Reset PROVE Atomic!Clear
  OBVIOUS
<1>1. \A t \in Thread : call[t] = NoCall
  BY DEF DsuInv, ThreadInv, ControlInv, Reset, AllIdle
<1>2. MergesAsked' = MergesAsked /\ \A t \in Thread : MergesAsked[t] = NoCall
  BY <1>1 DEF Reset, locals, MergesAsked
<1> QED BY <1>2 DEF Reset, Atomic!Clear, Atomic!Singletons

\* merge is atomic for every interleaving: a merge that returns true joins two
\* different components at its compare-and-exchange, one that returns false was
\* given slots of one component, and nothing else changes the partition.
THEOREM Atomicity == Spec => MergeIsAtomic
<1>1. Init => Atomic!PInit
  BY DEF Init, Idle, MergesAsked, Atomic!PInit, Atomic!Singletons
<1>2. DsuInv /\ [Next]_vars => [Atomic!PNext]_(Atomic!pvars)
  <2> SUFFICES ASSUME DsuInv, [Next]_vars PROVE [Atomic!PNext]_(Atomic!pvars)
    OBVIOUS
  <2>0. TypeOK'
    BY TypeNext DEF DsuInv
  <2>1. ASSUME NEW t \in Thread, ThreadStep(t) PROVE [Atomic!PNext]_(Atomic!pvars)
    BY <2>0, <2>1, HiddenSteps, ExchangeJoins, FalseAgrees DEF Atomic!PNext
  <2>2. ASSUME NEW t \in Thread, NEW x \in Slot, NEW y \in Slot, CallMerge(t, x, y)
        PROVE  Atomic!PNext
    BY <2>0, <2>2, CallsAgree DEF Atomic!PNext
  <2>3. ASSUME NEW t \in Thread, NEW s \in Slot, CallFind(t, s) PROVE UNCHANGED Atomic!pvars
    BY <2>0, <2>3, CallsAgree
  <2>4. CASE BeginFinds \/ EndFinds \/ UNCHANGED vars
    BY <2>4 DEF BeginFinds, EndFinds, vars, locals, MergesAsked, Atomic!pvars
  <2>5. CASE Reset
    BY <2>5, ResetClears DEF Atomic!PNext
  <2> QED BY <2>1, <2>2, <2>3, <2>4, <2>5 DEF Next
<1> QED BY <1>1, <1>2, Invariance, PTL DEF Spec, MergeIsAtomic, Atomic!PSpec

=============================================================================
