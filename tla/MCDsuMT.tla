------------------------------ MODULE MCDsuMT ------------------------------
(***************************************************************************)
(* Instances of DsuMT for TLC.                                             *)
(***************************************************************************)
EXTENDS DsuMT, TLC

Symmetry == Permutations(Thread)

\* Distinct priorities, and priorities with ties (broken by the smaller id).
Distinct == {[s \in Slot |-> s]}
WithTies == {[s \in Slot |-> (s + 1) \div 2]}

\* Start from any forest in which parents rank above their children.  Calls
\* merge(s, f[s]) by a single thread, lowest s first, build exactly f: both
\* arguments are roots then, so find_root halves nothing.
TreeOf(f) ==
  LET Up[s \in Slot] == IF f[s] = s THEN s ELSE Up[f[s]]
  IN  [s \in Slot |-> {o \in Slot : Up[o] = Up[s]}]

BuiltInit ==
  /\ priority \in Priorities
  /\ parent \in {f \in [Slot -> Slot] :
                 \A s \in Slot : f[s] = s \/ Higher(f[s], s)}
  /\ comp = TreeOf(parent)
  /\ joins = Cardinality({s \in Slot : parent[s] # s})
  /\ Idle

BuiltSpec == BuiltInit /\ [][Next]_vars
=============================================================================
