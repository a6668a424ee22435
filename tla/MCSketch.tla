------------------------------ MODULE MCSketch ------------------------------
(***************************************************************************)
(* Instances of Sketch for TLC.                                            *)
(***************************************************************************)
EXTENDS Sketch, TLC

\* Depths by the position of the edge and the column: edges that share every
\* bucket of the first column and are apart in the second, and edges of which
\* the first column drops one.
Collide == [idx \in Index |-> [c \in Column |-> IF c = 0 THEN 0 ELSE idx % BktPerCol]]
Drop    == [idx \in Index |-> [c \in Column |->
             IF c = 0 /\ idx = Min(Index) THEN BktPerCol ELSE (idx + c) % 2]]
SomeHashes == {Collide, Drop}

Symmetry == Permutations(Worker)
=============================================================================
