------------------------ MODULE MCWorkerThreadGroup ------------------------
(* WorkerThreadGroup for TLC: the workers are interchangeable.              *)
EXTENDS WorkerThreadGroup, TLC

Symmetry == Permutations(Worker)
=============================================================================
