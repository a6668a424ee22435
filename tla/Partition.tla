----------------------------- MODULE Partition -----------------------------
(***************************************************************************)
(* What a concurrent disjoint-set union promises its callers: merge takes  *)
(* effect at one instant between its call and its return.  It returns true *)
(* if the two components were different at that instant and are joined     *)
(* now, and false if they already were one.                                *)
(***************************************************************************)
EXTENDS Naturals

CONSTANTS
  Slot,     \* the elements
  Thread,   \* the callers
  NoCall    \* op[t] when t is not inside merge

VARIABLES
  part,   \* part[s]: the component of s
  op,     \* op[t]: the two arguments of the merge t is executing, or NoCall
  joins   \* merges that returned true since the last reset

pvars == <<part, op, joins>>

Singletons == [s \in Slot |-> {s}]

PInit ==
  /\ part = Singletons
  /\ op = [t \in Thread |-> NoCall]
  /\ joins = 0

Call(t, x, y) ==
  /\ op[t] = NoCall
  /\ op' = [op EXCEPT ![t] = <<x, y>>]
  /\ UNCHANGED <<part, joins>>

\* The partition f with the components of x and y united.
Union(f, x, y) ==
  [s \in Slot |-> IF s \in f[x] \cup f[y] THEN f[x] \cup f[y] ELSE f[s]]

MergeTrue(t) ==
  /\ op[t] # NoCall
  /\ part[op[t][1]] # part[op[t][2]]
  /\ part' = Union(part, op[t][1], op[t][2])
  /\ joins' = joins + 1
  /\ op' = [op EXCEPT ![t] = NoCall]

MergeFalse(t) ==
  /\ op[t] # NoCall
  /\ part[op[t][1]] = part[op[t][2]]
  /\ op' = [op EXCEPT ![t] = NoCall]
  /\ UNCHANGED <<part, joins>>

Clear ==
  /\ \A t \in Thread : op[t] = NoCall
  /\ part' = Singletons
  /\ joins' = 0
  /\ UNCHANGED op

PNext ==
  \/ \E t \in Thread : \/ \E x, y \in Slot : Call(t, x, y)
                       \/ MergeTrue(t) \/ MergeFalse(t)
  \/ Clear

PSpec == PInit /\ [][PNext]_pvars
=============================================================================
