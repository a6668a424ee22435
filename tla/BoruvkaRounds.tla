--------------------------- MODULE BoruvkaRounds ---------------------------
(***************************************************************************)
(* What the rounds of Boruvka after the first promise, and what the query  *)
(* of CCSketchAlg relies on (NextRound, Sampled and OutOfSamples there):   *)
(* a round samples every supernode, the vertices with one label, exactly   *)
(* once and whole, or the query ends with an exception because the         *)
(* sketches are out of samples.                                            *)
(***************************************************************************)
EXTENDS Naturals

CONSTANTS
  Vertex,
  Labelings,    \* Labelings[r]: labels find_root may return in round r
  NumSamples    \* samples a sketch supports

VARIABLES
  round,     \* rounds begun in this query, 0 before the second round
  todo,      \* supernodes still to sample
  taken,     \* samples taken in this round
  running,   \* is a round running?
  thrown     \* did the last round throw?

rvars == <<round, todo, taken, running, thrown>>

\* The supernodes of a round: vertices with the same label.
Supernodes(lab) == {{x \in Vertex : lab[x] = lab[v]} : v \in Vertex}

RInit == round = 0 /\ todo = {} /\ taken = 0 /\ running = FALSE /\ thrown = FALSE

BeginRound ==
  /\ ~running /\ ~thrown /\ round < NumSamples
  /\ round' = round + 1
  /\ \E lab \in Labelings[round'] : todo' = Supernodes(lab)
  /\ running' = TRUE
  /\ UNCHANGED <<taken, thrown>>

SampleOne ==
  /\ running /\ round < NumSamples
  /\ \E S \in todo : todo' = todo \ {S}
  /\ taken' = taken + 1
  /\ UNCHANGED <<round, running, thrown>>

EndRound ==
  /\ running /\ todo = {}
  /\ running' = FALSE /\ taken' = 0
  /\ UNCHANGED <<round, todo, thrown>>

Throw ==
  /\ running /\ round = NumSamples
  /\ running' = FALSE /\ taken' = 0 /\ todo' = {} /\ thrown' = TRUE
  /\ UNCHANGED round

\* The query is over and another begins.
NewQuery ==
  /\ ~running
  /\ round' = 0 /\ thrown' = FALSE
  /\ UNCHANGED <<todo, taken, running>>

RNext == BeginRound \/ SampleOne \/ EndRound \/ Throw \/ NewQuery

RSpec == RInit /\ [][RNext]_rvars /\ WF_rvars(SampleOne \/ EndRound \/ Throw)
=============================================================================
