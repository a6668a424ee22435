------------------------------- MODULE DsuMT -------------------------------
(***************************************************************************)
(* DisjointSetUnion_MT of include/dsu.h: a union-find over atomics that    *)
(* several threads use without locks.  One step is one atomic load, store  *)
(* or compare-and-exchange of the parent array.                            *)
(*                                                                         *)
(* The algorithm uses it in two kinds of parallel region, separated by the *)
(* implicit OpenMP barrier: threads call only merge (sampling in a Boruvka *)
(* round, pre_insert of several stream threads), or they call only         *)
(* find_root, once per slot (create_merge_instructions and the constructor *)
(* of ConnectedComponents).  reset runs between regions.                   *)
(*                                                                         *)
(* C++ leaves the order of the operands of != open; GCC and Clang load the *)
(* left one first, and so does this module.                                *)
(***************************************************************************)
EXTENDS Integers, FiniteSets

CONSTANTS
  N,           \* number of slots
  Thread,      \* the threads of a parallel region
  Priorities,  \* the priority arrays the constructor may draw
  MaxMerges,   \* bound: calls of merge in a behaviour
  NoCall       \* call[t] when t executes nothing

Slot == 0 .. N - 1

ASSUME NAssumption == N \in Nat \ {0}
ASSUME PriorityAssumption == Priorities \subseteq [Slot -> Nat]
ASSUME BoundAssumption == MaxMerges \in Nat
ASSUME NoCallAssumption == NoCall \notin Slot \X Slot

VARIABLES
  parent, priority,   \* the two arrays of the class
  phase,              \* kind of the current parallel region
  pc, ret,            \* where a thread is; where the result of find_root goes
  u,                  \* u[t]: the local of find_root
  v,                  \* v[t]: the value of the last load, while it is needed
  a, b,               \* locals of merge
  call,               \* call[t]: the arguments of the call t executes
  found,              \* found[s]: what find_root(s) returned in this region
  joins,              \* merges that returned true since the last reset
  comp,               \* history: comp[s] is the component of slot s
  calls               \* merges called so far

locals == <<u, v, a, b, call>>
vars   == <<parent, priority, phase, pc, ret, locals, found, joins, comp, calls>>

NotFound == N   \* no result yet
Dead     == 0   \* value of a local nobody will read

FindPC == {"inner", "outer", "right", "halve_inner", "halve_outer",
           "halve_store", "advance", "return"}

TypeOK ==
  /\ parent \in [Slot -> Slot]
  /\ priority \in [Slot -> Nat]
  /\ phase \in {"merge", "find"}
  /\ pc \in [Thread -> FindPC \cup {"idle", "cas"}]
  /\ ret \in [Thread -> {"a", "b", "found"}]
  /\ u \in [Thread -> Slot] /\ v \in [Thread -> Slot]
  /\ a \in [Thread -> Slot] /\ b \in [Thread -> Slot]
  /\ call \in [Thread -> (Slot \X Slot) \cup {NoCall}]
  /\ found \in [Slot -> Slot \cup {NotFound}]
  /\ joins \in Nat
  /\ comp \in [Slot -> SUBSET Slot]
  /\ calls \in Nat

Idle ==
  /\ phase = "merge"
  /\ pc = [t \in Thread |-> "idle"]
  /\ ret = [t \in Thread |-> "a"]
  /\ u = [t \in Thread |-> Dead] /\ v = [t \in Thread |-> Dead]
  /\ a = [t \in Thread |-> Dead] /\ b = [t \in Thread |-> Dead]
  /\ call = [t \in Thread |-> NoCall]
  /\ found = [s \in Slot |-> NotFound]
  /\ calls = 0

\* The constructor.
Init ==
  /\ parent = [s \in Slot |-> s]
  /\ priority \in Priorities
  /\ joins = 0
  /\ comp = [s \in Slot |-> {s}]
  /\ Idle

-----------------------------------------------------------------------------
(* find_root *)

Goto(t, from, to) == pc[t] = from /\ pc' = [pc EXCEPT ![t] = to]

\* A load into the temporary v.
Load(t, from, to, value) ==
  /\ Goto(t, from, to)
  /\ v' = [v EXCEPT ![t] = value]
  /\ UNCHANGED <<parent, priority, phase, ret, u, a, b, call, found, joins, comp, calls>>

\* parent[parent[u]] != parent[u]: the inner load of the left operand, its
\* outer load, and the right operand, a second load of parent[u].
ReadInner(t) == Load(t, "inner", "outer", parent[u[t]])
ReadOuter(t) == Load(t, "outer", "right", parent[v[t]])
ReadRight(t) ==
  Load(t, "right", IF v[t] # parent[u[t]] THEN "halve_inner" ELSE "return", Dead)

\* parent[u] = parent[parent[u]].load(): two loads and a store.
HalveInner(t) == Load(t, "halve_inner", "halve_outer", parent[u[t]])
HalveOuter(t) == Load(t, "halve_outer", "halve_store", parent[v[t]])

HalveStore(t) ==
  /\ Goto(t, "halve_store", "advance")
  /\ parent' = [parent EXCEPT ![u[t]] = v[t]]
  /\ v' = [v EXCEPT ![t] = Dead]
  /\ UNCHANGED <<priority, phase, ret, u, a, b, call, found, joins, comp, calls>>

\* u = parent[u]
Advance(t) ==
  /\ Goto(t, "advance", "inner")
  /\ u' = [u EXCEPT ![t] = parent[u[t]]]
  /\ UNCHANGED <<parent, priority, phase, ret, v, a, b, call, found, joins, comp, calls>>

\* Mutant of FindResult: u instead of its parent.
FindResultChild(t) == u[t]

\* What find_root returns, a last load.
FindResult(t) == parent[u[t]]

-----------------------------------------------------------------------------
(* merge *)

\* Larger priority first, ties broken in favour of the smaller id.
Higher(x, y) == \/ priority[x] > priority[y]
                \/ priority[x] = priority[y] /\ x < y

\* Mutant of OrderEdge: the two roots are not ordered.
Unordered(x, y) == <<x, y>>

OrderEdge(x, y) == IF Higher(x, y) THEN <<x, y>> ELSE <<y, x>>

CallMerge(t, x, y) ==
  /\ phase = "merge" /\ calls < MaxMerges /\ x # y
  /\ Goto(t, "idle", "inner")
  /\ call' = [call EXCEPT ![t] = <<x, y>>]
  /\ u' = [u EXCEPT ![t] = x]
  /\ b' = [b EXCEPT ![t] = y]
  /\ ret' = [ret EXCEPT ![t] = "a"]
  /\ calls' = calls + 1
  /\ UNCHANGED <<parent, priority, phase, v, a, found, joins, comp>>

\* a = find_root(a) is done; find_root(b) starts.
ReturnA(t) ==
  /\ ret[t] = "a"
  /\ Goto(t, "return", "inner")
  /\ a' = [a EXCEPT ![t] = FindResult(t)]
  /\ u' = [u EXCEPT ![t] = b[t]]
  /\ b' = [b EXCEPT ![t] = Dead]
  /\ ret' = [ret EXCEPT ![t] = "b"]
  /\ UNCHANGED <<parent, priority, phase, v, call, found, joins, comp, calls>>

\* b = find_root(b) is done and a != b: order_edge(a, b).
ReturnB(t) ==
  /\ ret[t] = "b"
  /\ a[t] # FindResult(t)
  /\ Goto(t, "return", "cas")
  /\ LET ab == OrderEdge(a[t], FindResult(t))
     IN  a' = [a EXCEPT ![t] = ab[1]] /\ b' = [b EXCEPT ![t] = ab[2]]
  /\ u' = [u EXCEPT ![t] = Dead]
  /\ UNCHANGED <<parent, priority, phase, v, ret, call, found, joins, comp, calls>>

\* t leaves its call: its locals are gone.
Return(t) ==
  /\ u' = [u EXCEPT ![t] = Dead]
  /\ a' = [a EXCEPT ![t] = Dead]
  /\ b' = [b EXCEPT ![t] = Dead]
  /\ ret' = [ret EXCEPT ![t] = "a"]
  /\ call' = [call EXCEPT ![t] = NoCall]

\* b = find_root(b) is done and a == b: merge returns false.
MergeFalse(t) ==
  /\ ret[t] = "b"
  /\ a[t] = FindResult(t)
  /\ Goto(t, "return", "idle")
  /\ Return(t)
  /\ UNCHANGED <<parent, priority, phase, v, found, joins, comp, calls>>

\* Mutant of Expected: the exchange does not compare.
ExpectedOrNot(t) == TRUE

\* Does parent[b] still hold b?
Expected(t) == parent[b[t]] = b[t]

\* parent[b].compare_exchange_weak(b, a) succeeds: merge returns true.
CasSuccess(t) ==
  /\ Expected(t)
  /\ Goto(t, "cas", "idle")
  /\ parent' = [parent EXCEPT ![b[t]] = a[t]]
  /\ joins' = joins + 1
  /\ LET c == comp[a[t]] \cup comp[b[t]]
     IN  comp' = [s \in Slot |-> IF s \in c THEN c ELSE comp[s]]
  /\ Return(t)
  /\ UNCHANGED <<priority, phase, v, found, calls>>

\* Mutant of CasFail: no retry, merge returns false.
CasFailGivesUp(t) ==
  /\ Goto(t, "cas", "idle")
  /\ Return(t)
  /\ UNCHANGED <<parent, priority, phase, v, found, joins, comp, calls>>

\* Mutant of CasFail: the compare-and-exchange is repeated with the old roots.
CasFailSpins(t) ==
  /\ Goto(t, "cas", "cas")
  /\ UNCHANGED <<parent, priority, phase, ret, locals, found, joins, comp, calls>>

\* It fails, on another value or spuriously: b becomes the value loaded and
\* the loop starts again with find_root(a).
CasFail(t) ==
  /\ Goto(t, "cas", "inner")
  /\ b' = [b EXCEPT ![t] = parent[b[t]]]
  /\ u' = [u EXCEPT ![t] = a[t]]
  /\ a' = [a EXCEPT ![t] = Dead]
  /\ ret' = [ret EXCEPT ![t] = "a"]
  /\ UNCHANGED <<parent, priority, phase, v, call, found, joins, comp, calls>>

-----------------------------------------------------------------------------
(* Regions of find_root calls, and reset *)

AllIdle == \A t \in Thread : pc[t] = "idle"

BeginFinds ==
  /\ phase = "merge" /\ AllIdle
  /\ phase' = "find"
  /\ UNCHANGED <<parent, priority, pc, ret, locals, found, joins, comp, calls>>

\* Thread t takes slot s, which no other thread has taken.
CallFind(t, s) ==
  /\ phase = "find"
  /\ found[s] = NotFound
  /\ \A o \in Thread : call[o] # <<s, s>>
  /\ Goto(t, "idle", "inner")
  /\ call' = [call EXCEPT ![t] = <<s, s>>]
  /\ u' = [u EXCEPT ![t] = s]
  /\ ret' = [ret EXCEPT ![t] = "found"]
  /\ UNCHANGED <<parent, priority, phase, v, a, b, found, joins, comp, calls>>

ReturnFound(t) ==
  /\ ret[t] = "found"
  /\ Goto(t, "return", "idle")
  /\ found' = [found EXCEPT ![call[t][1]] = FindResult(t)]
  /\ Return(t)
  /\ UNCHANGED <<parent, priority, phase, v, joins, comp, calls>>

EndFinds ==
  /\ phase = "find" /\ AllIdle
  /\ \A s \in Slot : found[s] # NotFound
  /\ phase' = "merge"
  /\ found' = [s \in Slot |-> NotFound]
  /\ UNCHANGED <<parent, priority, pc, ret, locals, joins, comp, calls>>

\* Mutant of Reset: off by one.
ResetOffByOne ==
  /\ phase = "merge" /\ AllIdle
  /\ parent' = [s \in Slot |-> s + 1]
  /\ comp' = [s \in Slot |-> {s}]
  /\ joins' = 0
  /\ UNCHANGED <<priority, phase, pc, ret, locals, found, calls>>

Reset ==
  /\ phase = "merge" /\ AllIdle
  /\ parent' = [s \in Slot |-> s]
  /\ comp' = [s \in Slot |-> {s}]
  /\ joins' = 0
  /\ UNCHANGED <<priority, phase, pc, ret, locals, found, calls>>

\* A step of t inside a call it has made.
ThreadStep(t) ==
  \/ ReadInner(t) \/ ReadOuter(t) \/ ReadRight(t)
  \/ HalveInner(t) \/ HalveOuter(t) \/ HalveStore(t) \/ Advance(t)
  \/ ReturnA(t) \/ ReturnB(t) \/ MergeFalse(t) \/ ReturnFound(t)
  \/ CasSuccess(t) \/ CasFail(t)

Next ==
  \/ \E t \in Thread :
       \/ ThreadStep(t)
       \/ \E x, y \in Slot : CallMerge(t, x, y)
       \/ \E s \in Slot : CallFind(t, s)
  \/ BeginFinds \/ EndFinds \/ Reset

Spec == Init /\ [][Next]_vars

(***************************************************************************)
(* Fairness.  A thread inside a call keeps taking steps, and a weak        *)
(* compare-and-exchange that meets the expected value again and again does *)
(* not fail spuriously for ever.                                           *)
(***************************************************************************)
Fairness == \A t \in Thread : WF_vars(ThreadStep(t)) /\ SF_vars(CasSuccess(t))

FairSpec == Spec /\ Fairness

-----------------------------------------------------------------------------
(* Properties *)

Root(s) == parent[s] = s

\* A parent ranks above its child in the fixed order of order_edge, however
\* loads, halving stores and exchanges of several threads interleave; so the
\* parent array never holds a cycle and find_root never runs in a circle.
Climbing == \A s \in Slot : Root(s) \/ Higher(parent[s], s)

\* The trees of the parent array are the components: a blind halving store
\* never leads into another component, and every component has one root.
TreesAreComponents ==
  \A s \in Slot :
    /\ parent[s] \in comp[s]
    /\ \E q \in comp[s] : Root(q) /\ \A o \in comp[s] : Root(o) => o = q

\* Every merge that returned true cost exactly one root: no exchange is lost
\* to a racing store and none is counted twice.
RootsAccount == Cardinality({s \in Slot : Root(s)}) + joins = N

\* merge is atomic: the concurrent structure implements Partition, with the
\* compare-and-exchange as the instant of a merge that returns true.
MergesAsked == [t \in Thread |-> IF ret[t] = "found" THEN NoCall ELSE call[t]]

Atomic == INSTANCE Partition WITH part <- comp, op <- MergesAsked

MergeIsAtomic == Atomic!PSpec

\* merge and find_root return, whatever the other threads do.
CallsReturn == \A t \in Thread : pc[t] # "idle" ~> pc[t] = "idle"

\* In a region of find_root calls a slot is its own label exactly if it is the
\* root of its component (so temp_cc counts the components), and every label
\* lies in the component of its slot.
LabelsCountComponents ==
  \A s \in Slot : found[s] # NotFound =>
    /\ found[s] = s <=> Root(s)
    /\ found[s] \in comp[s]

\* "Disjoint set union that uses atomics to be thread safe": when no merge is
\* running, find_root returns the root.
FindReturnsRoot == \A s \in Slot : found[s] # NotFound => Root(found[s])
=============================================================================
