---------------------------- MODULE MCMergeRound ----------------------------
(***************************************************************************)
(* Instances of MergeRound for TLC.                                        *)
(***************************************************************************)
EXTENDS MergeRound

\* In the first round after round zero any choice of one label per component,
\* or labels that are not roots; three choices in later rounds.
Rooted   == {f \in [Vertex -> Vertex] : \A v \in Vertex : f[f[v]] = f[v]}
Chain    == [v \in Vertex |-> IF v < N - 1 THEN v + 1 ELSE v]
Identity == [v \in Vertex |-> v]
OneTree  == [v \in Vertex |-> 1]
Halves   == [v \in Vertex |-> IF 2 * v < N THEN 0 ELSE 2]
ManyLabels ==
  [r \in 1 .. NumSamples |-> IF r = 1 THEN Rooted \cup {Chain} ELSE {Identity, OneTree, Halves}]

\* Vertices a and b form a component labelled a, the others are alone.
Joined(a, b) == [r \in 1 .. NumSamples |-> {[v \in Vertex |-> IF v = b THEN a ELSE v]}]
OnePair  == Joined(8, 9)
LowPair  == Joined(1, 2)

\* The schedule in which the first thread that can move does.
SerialNext ==
  \/ \E t \in Tid : ThreadStep(t) /\ \A o \in 0 .. t - 1 : ~ENABLED ThreadStep(o)
  \/ TeamStep \/ CreateMergeInstructions

SerialSpec == Init /\ [][SerialNext]_vars
=============================================================================
