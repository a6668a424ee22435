---------------------------- MODULE CCSketchAlg ----------------------------
(***************************************************************************)
(* The connected components algorithm of src/cc_sketch_alg.cpp under the   *)
(* driver of include/graph_sketch_driver.h: stream threads that keep an    *)
(* eager DSU and spanning forest up to date in pre_insert, workers that    *)
(* apply buffered updates to the sketches, and queries that answer from    *)
(* the DSU while it is valid and otherwise run Boruvka over the sketches.  *)
(*                                                                         *)
(* A sketch is modelled by the set of edges whose XOR it stores (sketches  *)
(* are linear over GF(2)); what sampling one may return is stated in the   *)
(* three Sample actions, up to the checksum collisions that the code       *)
(* neglects as well.  The DSU is the atomic one that DsuMT implements.     *)
(*                                                                         *)
(* A flush applies everything that was buffered.  That is an assumption:   *)
(* WorkerThreadGroup has it of the first flush of a driver                 *)
(* (FirstFlushComplete), and the violation of FlushComplete shows that a   *)
(* later one may leave a node behind.  AnswerRight, ForestRight and        *)
(* BoruvkaSound speak of drivers whose flushes are complete.               *)
(***************************************************************************)
EXTENDS Integers, FiniteSets

CONSTANTS
  N,               \* num_vertices
  Thread,          \* the stream threads
  NumSamples,      \* samples a sketch supports: rounds of Boruvka
  WriteUnflushed,  \* may write_binary be called with updates still buffered?
  NoFile,          \* nothing serialized yet
  MaxUpdates       \* bound: updates in a behaviour

Vertex == 0 .. N - 1

\* Edges with src < dst: the order std::min and std::max put them in.
Edge == {e \in Vertex \X Vertex : e[1] < e[2]}

ASSUME NAssumption == N \in Nat \ {0}
ASSUME BoundAssumption == /\ NumSamples \in Nat \ {0}
                          /\ MaxUpdates \in Nat
                          /\ WriteUnflushed \in BOOLEAN

\* The law of powers of two, for the rounds there may be: no prover knows ^.
ASSUME PowerAssumption ==
  \A r \in 0 .. NumSamples - 1 : 2^r \in Nat /\ (r > 0 => 2^r = 2 * 2^(r - 1))

VARIABLES
  graph,         \* history: edges updated an odd number of times
  pend,          \* pend[v]: updates of v buffered in the guttering system
  sketch,        \* sketch[v]: the edges whose XOR the sketch of v holds
  sample_idx,    \* sample_idx[v]: samples taken from the sketch of v
  comp,          \* the partition the DSU represents
  sf,            \* spanning_forest
  dsu_valid, shared_dsu_valid, update_locked,
  spc, cur,      \* where a stream thread is in pre_insert, and its edge
  upc,           \* what the user thread is doing
  round, todo, modified,   \* Boruvka: round, supernodes to sample, progress
  split,         \* history: did labels of this round split a component?
  failed,        \* history: did a sample of this query FAIL, or a round split?
  file,          \* what write_binary wrote, and the graph at that time
  updates        \* updates so far

dsu_vars   == <<comp, sf>>
flag_vars  == <<dsu_valid, shared_dsu_valid>>
query_vars == <<round, todo, modified, split, failed>>
vars == <<graph, pend, sketch, sample_idx, dsu_vars, flag_vars, update_locked,
          spc, cur, upc, query_vars, file, updates>>

StreamPC == {"idle", "lock", "merge", "record", "lookup", "shared"}
UserPC   == {"user", "stream", "ready", "boruvka", "terminated"}

NoEdge == <<0, 0>>

TypeOK ==
  /\ graph \subseteq Edge
  /\ pend \in [Vertex -> SUBSET Edge]
  /\ sketch \in [Vertex -> SUBSET Edge]
  /\ sample_idx \in [Vertex -> Nat]
  /\ comp \in [Vertex -> SUBSET Vertex]
  /\ sf \subseteq Edge
  /\ dsu_valid \in BOOLEAN /\ shared_dsu_valid \in BOOLEAN
  /\ update_locked \in BOOLEAN
  /\ spc \in [Thread -> StreamPC]
  /\ cur \in [Thread -> Edge \cup {NoEdge}]
  /\ upc \in UserPC
  /\ round \in 0 .. NumSamples - 1
  /\ todo \subseteq SUBSET Vertex
  /\ modified \in BOOLEAN /\ split \in BOOLEAN /\ failed \in BOOLEAN
  /\ file \in [sketch : [Vertex -> SUBSET Edge], graph : SUBSET Edge] \cup {NoFile}
  /\ updates \in Nat

Empty      == [v \in Vertex |-> {}]
Singletons == [v \in Vertex |-> {v}]

\* The constructor.
Init ==
  /\ graph = {} /\ pend = Empty /\ sketch = Empty
  /\ sample_idx = [v \in Vertex |-> 0]
  /\ comp = Singletons /\ sf = {}
  /\ dsu_valid = TRUE /\ shared_dsu_valid = TRUE /\ update_locked = FALSE
  /\ spc = [t \in Thread |-> "idle"] /\ cur = [t \in Thread |-> NoEdge]
  /\ upc = "user"
  /\ round = 0 /\ todo = {} /\ modified = FALSE /\ split = FALSE /\ failed = FALSE
  /\ file = NoFile
  /\ updates = 0

-----------------------------------------------------------------------------
(* Helpers *)

\* XOR of two sets.
Xor(A, B) == (A \ B) \cup (B \ A)

EndPoint(v, e) == v = e[1] \/ v = e[2]

\* The edges of E at vertex v.
Incident(v, E) == {e \in E : EndPoint(v, e)}

\* f with edge e toggled at both of its end points.
Toggle(f, e) ==
  [v \in Vertex |-> IF EndPoint(v, e) THEN Xor(f[v], {e}) ELSE f[v]]

SameComp(e) == comp[e[1]] = comp[e[2]]

\* dsu.merge(e.src, e.dst), atomic (see DsuMT).
DsuMerge(e) ==
  LET c == comp[e[1]] \cup comp[e[2]]
  IN  comp' = [v \in Vertex |-> IF v \in c THEN c ELSE comp[v]]

-----------------------------------------------------------------------------
(* Stream threads: process_stream_until and pre_insert.  After pre_insert   *)
(* an update is inserted into the guttering system for both end points;    *)
(* nothing reads the gutters in a way that tells when, so that insertion is *)
(* part of the last step of pre_insert.                                    *)

\* Mutant of GtsInsert: the update is inserted for its source only.
GtsInsertSource(t) ==
  /\ pend' = [pend EXCEPT ![cur[t][1]] = Xor(@, {cur[t]})]
  /\ spc' = [spc EXCEPT ![t] = "idle"]
  /\ cur' = [cur EXCEPT ![t] = NoEdge]

\* Both gts->insert calls, and the thread turns to its next update.
GtsInsert(t) ==
  /\ pend' = Toggle(pend, cur[t])
  /\ spc' = [spc EXCEPT ![t] = "idle"]
  /\ cur' = [cur EXCEPT ![t] = NoEdge]

\* The next update of the stream finds dsu_valid set ...
PreInsertValid(t, e) ==
  /\ spc[t] = "idle" /\ updates < MaxUpdates
  /\ dsu_valid
  /\ spc' = [spc EXCEPT ![t] = "lock"]
  /\ cur' = [cur EXCEPT ![t] = e]
  /\ updates' = updates + 1
  /\ UNCHANGED <<graph, pend, sketch, sample_idx, dsu_vars, flag_vars,
                 update_locked, upc, query_vars, file>>

\* ... or not: pre_insert does nothing.
PreInsertInvalid(t, e) ==
  /\ spc[t] = "idle" /\ updates < MaxUpdates
  /\ ~dsu_valid
  /\ graph' = Xor(graph, {e})
  /\ pend' = Toggle(pend, e)
  /\ updates' = updates + 1
  /\ UNCHANGED <<sketch, sample_idx, dsu_vars, flag_vars, update_locked,
                 spc, cur, upc, query_vars, file>>

\* The thread holds spanning_forest_mtx[src] of its edge.
Holds(t) == spc[t] \in {"merge", "record", "lookup", "shared"}

\* Mutant of Lock: no lock around merge and the spanning forest.
LockNothing(t) ==
  /\ spc[t] = "lock"
  /\ spc' = [spc EXCEPT ![t] = "merge"]
  /\ UNCHANGED <<graph, pend, sketch, sample_idx, dsu_vars, flag_vars,
                 update_locked, cur, upc, query_vars, file, updates>>

Lock(t) ==
  /\ spc[t] = "lock"
  /\ \A o \in Thread : Holds(o) => cur[o][1] # cur[t][1]
  /\ spc' = [spc EXCEPT ![t] = "merge"]
  /\ UNCHANGED <<graph, pend, sketch, sample_idx, dsu_vars, flag_vars,
                 update_locked, cur, upc, query_vars, file, updates>>

\* dsu.merge(src, dst); the update counts from here on.
Merge(t) ==
  /\ spc[t] = "merge"
  /\ DsuMerge(cur[t])
  /\ spc' = [spc EXCEPT ![t] = IF SameComp(cur[t]) THEN "lookup" ELSE "record"]
  /\ graph' = Xor(graph, {cur[t]})
  /\ UNCHANGED <<pend, sketch, sample_idx, sf, flag_vars, update_locked, cur,
                 upc, query_vars, file, updates>>

\* The edge joined two components: spanning_forest[src].insert(dst).
Record(t) ==
  /\ spc[t] = "record"
  /\ sf' = sf \cup {cur[t]}
  /\ GtsInsert(t)
  /\ UNCHANGED <<graph, sketch, sample_idx, comp, flag_vars, update_locked,
                 upc, query_vars, file, updates>>

\* It did not, and is not in the forest: nothing to do.
LookupMiss(t) ==
  /\ spc[t] = "lookup" /\ cur[t] \notin sf
  /\ GtsInsert(t)
  /\ UNCHANGED <<graph, sketch, sample_idx, dsu_vars, flag_vars, update_locked,
                 upc, query_vars, file, updates>>

\* Mutant of LookupHit: the deletion of a forest edge is overlooked.
LookupIgnored(t) ==
  /\ spc[t] = "lookup" /\ cur[t] \in sf
  /\ GtsInsert(t)
  /\ UNCHANGED <<graph, sketch, sample_idx, dsu_vars, flag_vars, update_locked,
                 upc, query_vars, file, updates>>

\* It is in the forest, so this update deletes it: invalidate the DSU ...
LookupHit(t) ==
  /\ spc[t] = "lookup" /\ cur[t] \in sf
  /\ dsu_valid' = FALSE
  /\ spc' = [spc EXCEPT ![t] = "shared"]
  /\ UNCHANGED <<graph, pend, sketch, sample_idx, dsu_vars, shared_dsu_valid,
                 update_locked, cur, upc, query_vars, file, updates>>

\* Mutant of InvalidateShared: only the private flag is cleared.
InvalidatePrivateOnly(t) ==
  /\ spc[t] = "shared"
  /\ GtsInsert(t)
  /\ UNCHANGED <<graph, sketch, sample_idx, dsu_vars, flag_vars,
                 update_locked, upc, query_vars, file, updates>>

\* ... for the threads that do not perform updates too.
InvalidateShared(t) ==
  /\ spc[t] = "shared"
  /\ shared_dsu_valid' = FALSE
  /\ GtsInsert(t)
  /\ UNCHANGED <<graph, sketch, sample_idx, dsu_vars, dsu_valid,
                 update_locked, upc, query_vars, file, updates>>

StreamStep(t) ==
  /\ upc = "stream"
  /\ \/ \E e \in Edge : PreInsertValid(t, e) \/ PreInsertInvalid(t, e)
     \/ Lock(t) \/ Merge(t) \/ Record(t)
     \/ LookupMiss(t) \/ LookupHit(t) \/ InvalidateShared(t)

-----------------------------------------------------------------------------
(* Workers *)

\* apply_update_batch: a batch B of updates of v reaches its sketch.
ApplyUpdateBatch(v, B) ==
  /\ B # {} /\ ~update_locked
  /\ upc # "terminated"
  /\ sketch' = [sketch EXCEPT ![v] = Xor(sketch[v], B)]
  /\ pend' = [pend EXCEPT ![v] = pend[v] \ B]
  /\ UNCHANGED <<graph, sample_idx, dsu_vars, flag_vars, update_locked,
                 spc, cur, upc, query_vars, file, updates>>

\* It throws UpdateLockedException, which no worker catches.
ApplyUpdateLocked(v) ==
  /\ pend[v] # {} /\ update_locked
  /\ upc # "terminated"
  /\ upc' = "terminated"
  /\ UNCHANGED <<graph, pend, sketch, sample_idx, dsu_vars, flag_vars,
                 update_locked, spc, cur, query_vars, file, updates>>

-----------------------------------------------------------------------------
(* The user thread *)

Quiet == \A t \in Thread : spc[t] = "idle"

UserGoto(from, to) == upc \in from /\ upc' = to

ProcessStreamUntil ==
  /\ UserGoto({"user", "ready"}, "stream")
  /\ UNCHANGED <<graph, pend, sketch, sample_idx, dsu_vars, flag_vars,
                 update_locked, spc, cur, query_vars, file, updates>>

\* Every stream thread has seen the breakpoint and is joined.
Breakpoint ==
  /\ Quiet
  /\ UserGoto({"stream"}, "user")
  /\ UNCHANGED <<graph, pend, sketch, sample_idx, dsu_vars, flag_vars,
                 update_locked, spc, cur, query_vars, file, updates>>

\* prep_query(CONNECTIVITY) with a cached answer skips the flush.
PrepQueryCached ==
  /\ shared_dsu_valid
  /\ UserGoto({"user"}, "ready")
  /\ UNCHANGED <<graph, pend, sketch, sample_idx, dsu_vars, flag_vars,
                 update_locked, spc, cur, query_vars, file, updates>>

\* Mutant of PrepQuery: the gutters are not flushed.
PrepQueryNoFlush ==
  /\ UserGoto({"user"}, "ready")
  /\ UNCHANGED <<graph, pend, sketch, sample_idx, dsu_vars, flag_vars,
                 update_locked, spc, cur, query_vars, file, updates>>

\* prep_query without one, or for another kind of query: force_flush and
\* flush_workers apply everything that is buffered (assumed, see above).
PrepQuery ==
  /\ update_locked => pend = Empty
  /\ UserGoto({"user"}, "ready")
  /\ sketch' = [v \in Vertex |-> Xor(sketch[v], pend[v])]
  /\ pend' = Empty
  /\ UNCHANGED <<graph, sample_idx, dsu_vars, flag_vars, update_locked,
                 spc, cur, query_vars, file, updates>>

\* update: a direct update by the user, pre_insert and both sketches.
Update(e) ==
  /\ upc = "ready" /\ pend = Empty /\ updates < MaxUpdates
  /\ IF dsu_valid
     THEN /\ DsuMerge(e)
          /\ sf' = IF SameComp(e) THEN sf ELSE sf \cup {e}
          /\ dsu_valid' = ~(SameComp(e) /\ e \in sf)
          /\ shared_dsu_valid' = (shared_dsu_valid /\ ~(SameComp(e) /\ e \in sf))
     ELSE UNCHANGED <<dsu_vars, flag_vars>>
  /\ sketch' = Toggle(sketch, e)
  /\ graph' = Xor(graph, {e})
  /\ updates' = updates + 1
  /\ UNCHANGED <<pend, sample_idx, update_locked, spc, cur, upc, query_vars, file>>

-----------------------------------------------------------------------------
(* Queries.  connected_components looks at shared_dsu_valid, point_query at *)
(* dsu_valid; when it is set they answer from the DSU and change nothing.  *)

\* Mutant of BoruvkaStart: the loop over the vertices starts at one.
BoruvkaStartAtOne ==
  /\ UserGoto({"ready"}, "boruvka")
  /\ update_locked' = TRUE
  /\ comp' = Singletons
  /\ sf' = {}
  /\ round' = 0 /\ todo' = {{v} : v \in Vertex \ {0}}
  /\ modified' = FALSE /\ split' = FALSE /\ failed' = FALSE
  /\ UNCHANGED <<graph, pend, sketch, sample_idx, flag_vars, spc, cur, file, updates>>

\* boruvka_emulation up to the first round.
BoruvkaStart ==
  /\ UserGoto({"ready"}, "boruvka")
  /\ update_locked' = TRUE
  /\ comp' = Singletons
  /\ sf' = {}
  /\ round' = 0 /\ todo' = {{v} : v \in Vertex}
  /\ modified' = FALSE /\ split' = FALSE /\ failed' = FALSE
  /\ UNCHANGED <<graph, pend, sketch, sample_idx, flag_vars, spc, cur, file, updates>>

ConnectedComponents == ~shared_dsu_valid /\ BoruvkaStart

PointQuery == ~dsu_valid /\ BoruvkaStart

\* What the merged sketch of supernode S holds: an edge inside S cancels.
Sum(S) == {e \in Edge : (e[1] \in S /\ e \in sketch[e[1]])
                           # (e[2] \in S /\ e \in sketch[e[2]])}

\* Supernode S is sampled; only round zero samples the vertex sketches
\* themselves, later rounds sample a merged copy.
Sampled(S) ==
  /\ upc = "boruvka" /\ S \in todo
  /\ todo' = todo \ {S}
  /\ sample_idx' = IF round = 0
                   THEN [v \in Vertex |-> IF v \in S THEN sample_idx[v] + 1 ELSE sample_idx[v]]
                   ELSE sample_idx
  /\ UNCHANGED <<graph, pend, sketch, flag_vars, update_locked, spc, cur, upc,
                 round, split, file, updates>>

SampleZero(S) ==
  /\ Sum(S) = {}
  /\ Sampled(S)
  /\ UNCHANGED <<dsu_vars, modified, failed>>

\* Any edge of the merged sketch may come out.
SampleGood(S) ==
  /\ \E e \in Sum(S) :
       \/ /\ ~SameComp(e)
          /\ DsuMerge(e)
          /\ sf' = sf \cup {e}
          /\ modified' = TRUE
       \/ SameComp(e) /\ UNCHANGED <<dsu_vars, modified>>
  /\ Sampled(S)
  /\ UNCHANGED failed

\* No bucket is good.  A single edge is always found in the deterministic one.
SampleFail(S) ==
  /\ Cardinality(Sum(S)) > 1
  /\ Sampled(S)
  /\ modified' = TRUE
  /\ failed' = TRUE
  /\ UNCHANGED dsu_vars

\* What the find_root calls of create_merge_instructions return.  Exactly one
\* vertex of a component is its own label; that the others get the same label
\* is not certain, because find_root calls race (DsuMT, FindReturnsRoot).
Labels ==
  {lab \in [Vertex -> Vertex] :
    \A v \in Vertex :
      /\ lab[v] \in comp[v]
      /\ \E r \in comp[v] : \A x \in comp[v] : lab[x] = x <=> x = r}

\* They did find the roots.
Exact(lab) == \A v \in Vertex : \A x \in comp[v] : lab[x] = lab[v]

\* The supernodes of the next round: vertices with the same label.
Supernodes(lab) == {{x \in Vertex : lab[x] = lab[v]} : v \in Vertex}

\* Mutant of NextRound: nothing stops the rounds.
NextRoundUnbounded ==
  /\ upc = "boruvka" /\ todo = {} /\ modified
  /\ round' = round + 1
  /\ \E lab \in Labels : /\ todo' = Supernodes(lab)
                         /\ split' = ~Exact(lab)
                         /\ failed' = (failed \/ split')
  /\ modified' = FALSE
  /\ UNCHANGED <<graph, pend, sketch, sample_idx, dsu_vars, flag_vars,
                 update_locked, spc, cur, upc, file, updates>>

\* create_merge_instructions, and round_num is incremented.
NextRound ==
  /\ upc = "boruvka" /\ todo = {} /\ modified
  /\ round + 1 < NumSamples
  /\ round' = round + 1
  /\ \E lab \in Labels : /\ todo' = Supernodes(lab)
                         /\ split' = ~Exact(lab)
                         /\ failed' = (failed \/ split')
  /\ modified' = FALSE
  /\ UNCHANGED <<graph, pend, sketch, sample_idx, dsu_vars, flag_vars,
                 update_locked, spc, cur, upc, file, updates>>

\* Mutant of ResetSampleState: the sample state is left as it is.
KeepSampleState == UNCHANGED sample_idx

\* reset_sample_state on every sketch, also after an exception.
ResetSampleState == sample_idx' = [v \in Vertex |-> 0]

\* The round changed nothing: the DSU is the answer.
BoruvkaDone ==
  /\ todo = {} /\ ~modified
  /\ UserGoto({"boruvka"}, "ready")
  /\ dsu_valid' = TRUE /\ shared_dsu_valid' = TRUE
  /\ update_locked' = FALSE
  /\ ResetSampleState
  /\ round' = 0 /\ failed' = FALSE
  /\ UNCHANGED <<graph, pend, sketch, dsu_vars, spc, cur, todo, modified, split, file, updates>>

\* Mutant of OutOfSamples: the exception is dropped and the round repeated.
OutOfSamplesRetried ==
  /\ upc = "boruvka" /\ todo = {} /\ modified
  /\ round + 1 = NumSamples
  /\ \E lab \in Labels : /\ todo' = Supernodes(lab)
                         /\ split' = ~Exact(lab)
                         /\ failed' = (failed \/ split')
  /\ modified' = FALSE
  /\ UNCHANGED <<graph, pend, sketch, sample_idx, dsu_vars, flag_vars, round,
                 update_locked, spc, cur, upc, file, updates>>

\* The round with round_num = num_samples: every sample of it throws
\* OutOfSamplesException before anything changes (MergeRound goes through it),
\* and the query rethrows it.
OutOfSamples ==
  /\ todo = {} /\ modified
  /\ round + 1 = NumSamples
  /\ UserGoto({"boruvka"}, "ready")
  /\ ResetSampleState
  /\ round' = 0 /\ modified' = FALSE /\ failed' = FALSE
  /\ UNCHANGED <<graph, pend, sketch, dsu_vars, flag_vars, update_locked,
                 spc, cur, todo, split, file, updates>>

-----------------------------------------------------------------------------
(* Serialization *)

WriteBinary ==
  /\ upc = "ready"
  /\ pend = Empty \/ WriteUnflushed
  /\ file' = [sketch |-> sketch, graph |-> graph]
  /\ UNCHANGED <<graph, pend, sketch, sample_idx, dsu_vars, flag_vars,
                 update_locked, spc, cur, upc, query_vars, updates>>

\* construct_from_serialized_data: a new algorithm object takes over.
Reheat ==
  /\ upc = "ready" /\ file # NoFile
  /\ graph' = file.graph /\ sketch' = file.sketch /\ pend' = Empty
  /\ comp' = Singletons /\ sf' = {}
  /\ dsu_valid' = FALSE /\ shared_dsu_valid' = FALSE /\ update_locked' = FALSE
  /\ UNCHANGED <<sample_idx, spc, cur, upc, query_vars, file, updates>>

-----------------------------------------------------------------------------
WorkerStep == \E v \in Vertex : \/ \E B \in SUBSET pend[v] : ApplyUpdateBatch(v, B)
                                \/ ApplyUpdateLocked(v)

SampleStep == \E S \in todo : SampleZero(S) \/ SampleGood(S) \/ SampleFail(S)

QueryStep == SampleStep \/ NextRound \/ BoruvkaDone \/ OutOfSamples

UserStep ==
  \/ ProcessStreamUntil \/ Breakpoint \/ PrepQueryCached \/ PrepQuery
  \/ ConnectedComponents \/ PointQuery \/ WriteBinary \/ Reheat
  \/ \E e \in Edge : Update(e)

Next ==
  \/ \E t \in Thread : StreamStep(t)
  \/ WorkerStep \/ UserStep \/ QueryStep

Spec == Init /\ [][Next]_vars

\* A query that has started keeps running.
FairSpec == Spec /\ WF_vars(QueryStep)

-----------------------------------------------------------------------------
(* Properties *)

\* No edge of E leaves S.
Closed(S, E) == \A e \in E : e[1] \in S <=> e[2] \in S

\* x and y are connected by edges of E: no closed set separates them.
Connected(x, y, E) == \A S \in SUBSET Vertex : x \in S /\ Closed(S, E) => y \in S

\* Whenever no stream thread is inside pre_insert and the DSU counts as valid,
\* a query answered from it is right: the components are those of the graph
\* streamed so far, whether they come from Boruvka or from eager merges of
\* several threads that raced with deletions, unless find_root calls that missed
\* a root split a component in the last round of the query.  (For complete
\* flushes, see PrepQuery.)
AnswerRight ==
  Quiet /\ shared_dsu_valid /\ ~split =>
    \A x, y \in Vertex : y \in comp[x] <=> Connected(x, y, graph)

\* While Boruvka runs, also in a query that will fail, and whatever labels the
\* racing find_root calls return: the forest is made of edges of the graph, and
\* no component holds two vertices that the graph does not connect.  (For
\* complete flushes, see PrepQuery.)
BoruvkaSound ==
  upc = "boruvka" =>
    /\ sf \subseteq graph
    /\ \A x \in Vertex : \A y \in comp[x] : Connected(x, y, graph)

\* In the same states as in AnswerRight, spanning_forest is a spanning forest:
\* edges of the graph, connecting exactly the components, and no cycle.
ForestRight ==
  Quiet /\ shared_dsu_valid /\ ~split =>
    /\ sf \subseteq graph
    /\ \A x, y \in Vertex : y \in comp[x] <=> Connected(x, y, sf)
    /\ Cardinality(sf) + Cardinality({comp[v] : v \in Vertex}) = N

\* has_cached_query and connected_components read shared_dsu_valid, point_query
\* and pre_insert read dsu_valid: outside pre_insert they agree, so a query
\* never runs Boruvka over gutters that prep_query did not flush.
FlagsAgree == Quiet => dsu_valid = shared_dsu_valid

\* Edges of the threads between dsu.merge and the guttering system.
InFlight == {cur[t] : t \in {o \in Thread : spc[o] \in {"record", "lookup", "shared"}}}

\* Sketch and gutter of a vertex together hold exactly its edges, through
\* flushes, failed queries, direct updates and reheating; so the sum over a
\* supernode is the set of edges that leave it.
SketchesTrackGraph ==
  \A v \in Vertex :
    Xor(sketch[v], pend[v]) = Incident(v, Xor(graph, InFlight))

\* While no sample fails and no round splits, every component that still has
\* edges to others has at least 2^round vertices: the reason why log2(n) samples
\* per sketch suffice.
SupernodesDouble ==
  upc = "boruvka" /\ ~failed =>
    \A v \in Vertex : Sum(comp[v]) # {} => Cardinality(comp[v]) >= 2^round

\* Every query starts with unused samples, also after one that threw.
SamplesFresh == upc # "boruvka" => \A v \in Vertex : sample_idx[v] = 0

\* A query ends, with an answer or an exception.
QueryReturns == upc = "boruvka" ~> upc = "ready"

\* "get ready for ingesting more from the stream by resetting the sketches
\* sample state", "Allows for additional updates when done": after a query,
\* failed or not, updates can be applied.
IngestsAfterQuery == upc # "terminated"

\* "Serialize the graph data to a binary file": the file holds the graph.
FileHoldsGraph ==
  file # NoFile => \A v \in Vertex : file.sketch[v] = Incident(v, file.graph)
=============================================================================
