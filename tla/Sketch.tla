------------------------------- MODULE Sketch -------------------------------
(***************************************************************************)
(* The sketches of src/sketch.cpp and include/bucket.h as the algorithm    *)
(* uses them: workers build delta sketches and merge them bucket by bucket *)
(* into the sketches of the vertices, and queries sample the sketches of   *)
(* vertices (round zero) or sums of them.                                  *)
(*                                                                         *)
(* A bucket holds the XOR of indices (alpha) and of their checksums        *)
(* (gamma); it is modelled by the set of indices that do not cancel, so    *)
(* that is_good holds exactly for one index.  Checksums that collide are   *)
(* left out, as the code does.  The hash that gives an index its depth in  *)
(* a column is drawn once, with the seed.                                  *)
(***************************************************************************)
EXTENDS Integers, FiniteSets, FiniteSetsExt

CONSTANTS
  N,               \* num_vertices
  Worker,          \* worker threads
  NumSamples,      \* num_samples
  ColsPerSample,   \* cols_per_sample
  NumBits,         \* bits of a node_id_t
  Hashes,          \* hash functions a seed may stand for
  Builds,          \* {TRUE}: built with L0_SAMPLING; {FALSE}: without
  Free,            \* value of a mutex nobody holds
  MaxUpdates       \* bound: edge updates in a behaviour

Vertex == 0 .. N - 1
Edge   == {e \in Vertex \X Vertex : e[1] < e[2]}

-----------------------------------------------------------------------------
(* Indices: concat_pairing_fn and inv_concat_pairing_fn *)

ConcatPairingFn(i, j) == Min({i, j}) * 2^NumBits + Max({i, j})

InvConcatPairingFn(idx) == <<idx \div 2^NumBits, idx % 2^NumBits>>

Index == {ConcatPairingFn(e[1], e[2]) : e \in Edge}

-----------------------------------------------------------------------------
(* Layout *)

\* calc_vector_length, and calc_bkt_per_col = ceil(log2(.)) + 1 of it.
VectorLength == (N * (N - 1)) \div 2
BktPerCol == 1 + CHOOSE c \in 0 .. N : /\ VectorLength <= 2^c
                                       /\ \A d \in 0 .. c - 1 : VectorLength > 2^d

Column == 0 .. NumSamples * ColsPerSample - 1
NumBuckets == NumSamples * ColsPerSample * BktPerCol + 1
BucketId == 0 .. NumBuckets - 1
Deterministic == NumBuckets - 1

\* Buckets of the columns that n samples from sample s on use.
SampleBuckets(s, n) ==
  s * ColsPerSample * BktPerCol .. (s + n) * ColsPerSample * BktPerCol - 1

ASSUME SizeAssumption ==
  /\ N \in Nat \ {0, 1} /\ N <= 2^NumBits /\ NumBits \in Nat
  /\ NumSamples \in Nat \ {0} /\ ColsPerSample \in Nat \ {0}
ASSUME BoundAssumption == MaxUpdates \in Nat /\ Builds \subseteq BOOLEAN /\ Free \notin Worker
ASSUME WorkerAssumption == IsFiniteSet(Worker)
\* Arithmetic: a power of two is a number, and N has at most 2^N pairs, so that
\* the logarithm exists.  No prover knows ^.
ASSUME PowerAssumption == 2^NumBits \in Nat
ASSUME LayoutAssumption == BktPerCol \in Nat \ {0}
ASSUME HashAssumption == Hashes \subseteq [Index -> [Column -> 0 .. BktPerCol]]

VARIABLES
  depth, l0,     \* the hash of the seed, and how the code was built
  graph,         \* history: edges updated an odd number of times
  pend,          \* pend[v]: neighbours of v in updates that are still buffered
  sketch,        \* sketch[v]: buckets and sample_idx of the sketch of v
  mutex,         \* mutex[v]: the worker that holds the mutex of sketch[v]
  delta,         \* delta[w]: buckets of the delta sketch (or raw buffer) of w
  pc, job,       \* where a worker is, and the vertex it works for
  bkt, reg,      \* the bucket it merges, and the value it has read
  querying,      \* is a query running?
  round,         \* its round
  acc, members,  \* a sketch that sums those of vertices, and which (history)
  result,        \* the last sample of the query
  updates        \* updates so far

hash_vars   == <<depth, l0>>
worker_vars == <<mutex, delta, pc, job, bkt, reg>>
query_vars  == <<querying, round, acc, members, result>>
vars == <<hash_vars, graph, pend, sketch, worker_vars, query_vars, updates>>

Buckets  == [BucketId -> SUBSET Index]
SketchOf == [buckets : Buckets, sample_idx : 0 .. NumSamples]
NoResult == [kind |-> "none", idxs |-> {}, of |-> {}, at |-> 0]

TypeOK ==
  /\ depth \in Hashes /\ l0 \in Builds
  /\ graph \subseteq Edge
  /\ pend \in [Vertex -> SUBSET Vertex]
  /\ sketch \in [Vertex -> SketchOf]
  /\ mutex \in [Vertex -> Worker \cup {Free}]
  /\ delta \in [Worker -> Buckets]
  /\ pc \in [Worker -> {"idle", "lock", "read", "write"}]
  /\ job \in [Worker -> Vertex]
  /\ bkt \in [Worker -> BucketId] /\ reg \in [Worker -> SUBSET Index]
  /\ querying \in BOOLEAN /\ round \in 0 .. NumSamples
  /\ acc \in SketchOf /\ members \subseteq Vertex
  /\ result \in [kind : {"none", "ZERO", "GOOD", "FAIL", "throw"}, idxs : SUBSET Nat,
                 of : SUBSET Vertex, at : 0 .. NumSamples]
  /\ updates \in 0 .. MaxUpdates

-----------------------------------------------------------------------------
(* Operations of Sketch *)

Xor(A, B) == (A \ B) \cup (B \ A)

NoBuckets == [b \in BucketId |-> {}]

\* A new sketch, and zero_contents.
Zero == [buckets |-> NoBuckets, sample_idx |-> 0]

\* Does an update of idx reach bucket b?  Depth BktPerCol is in no bucket.
Touches(idx, b) ==
  \/ b = Deterministic
  \/ \E c \in Column :
       /\ depth[idx][c] < BktPerCol
       /\ IF l0 THEN b \in c * BktPerCol .. c * BktPerCol + depth[idx][c]
                ELSE b = c * BktPerCol + depth[idx][c]

\* The buckets after an update of each index in I.
Updated(I) == [b \in BucketId |-> {idx \in I : Touches(idx, b)}]

\* Mutant of FirstSample: sample_idx stays where it is.
FirstSampleKept(s, start_sample) == s.sample_idx

\* sample_idx points at the samples merged, unless it is past them.
FirstSample(s, start_sample) == Max({s.sample_idx, start_sample})

\* range_merge(other, start_sample, 1); past the last sample the sketch fails.
RangeMerge(s, other, start_sample) ==
  IF start_sample + 1 > NumSamples THEN [s EXCEPT !.sample_idx = NumSamples]
  ELSE [sample_idx |-> FirstSample(s, start_sample),
        buckets    |-> [b \in BucketId |->
          IF b \in SampleBuckets(start_sample, 1) \cup {Deterministic}
          THEN Xor(s.buckets[b], other.buckets[b]) ELSE s.buckets[b]]]

IsGood(s, b) == Cardinality(s.buckets[b]) = 1

\* The good buckets that sample reads when the deterministic one is not good.
GoodBuckets(s) == {b \in SampleBuckets(s.sample_idx, 1) : IsGood(s, b)}

\* What sample returns (the first good bucket) and exhaustive_sample (all).
Outcome(s, exhaustive) ==
  IF s.sample_idx >= NumSamples THEN [kind |-> "throw", idxs |-> {}]
  ELSE IF s.buckets[Deterministic] = {} THEN [kind |-> "ZERO", idxs |-> {}]
  ELSE IF IsGood(s, Deterministic)
       THEN [kind |-> "GOOD", idxs |-> s.buckets[Deterministic]]
  ELSE IF GoodBuckets(s) = {} THEN [kind |-> "FAIL", idxs |-> {}]
  ELSE [kind |-> "GOOD",
        idxs |-> IF exhaustive THEN UNION {s.buckets[b] : b \in GoodBuckets(s)}
                 ELSE s.buckets[Min(GoodBuckets(s))]]

\* Mutant of NextIdx: sample_idx is incremented before it is checked.
NextIdxUnchecked(s) == s.sample_idx + 1

\* sample_idx after a sample, which throws before it counts.
NextIdx(s) == IF s.sample_idx < NumSamples THEN s.sample_idx + 1 ELSE s.sample_idx

-----------------------------------------------------------------------------
Init ==
  /\ depth \in Hashes /\ l0 \in Builds
  /\ graph = {} /\ pend = [v \in Vertex |-> {}]
  /\ sketch = [v \in Vertex |-> Zero]
  /\ mutex = [v \in Vertex |-> Free]
  /\ delta = [w \in Worker |-> NoBuckets]
  /\ pc = [w \in Worker |-> "idle"] /\ job = [w \in Worker |-> 0]
  /\ bkt = [w \in Worker |-> 0] /\ reg = [w \in Worker |-> {}]
  /\ querying = FALSE /\ round = 0 /\ acc = Zero /\ members = {} /\ result = NoResult
  /\ updates = 0

\* An update of edge e reaches the guttering system, for both end points.
Insert(e) ==
  /\ ~querying /\ updates < MaxUpdates
  /\ graph' = Xor(graph, {e})
  /\ pend' = [pend EXCEPT ![e[1]] = Xor(@, {e[2]}), ![e[2]] = Xor(@, {e[1]})]
  /\ updates' = updates + 1
  /\ UNCHANGED <<hash_vars, sketch, worker_vars, query_vars>>

-----------------------------------------------------------------------------
(* apply_update_batch and apply_raw_buckets_update *)

\* Worker w zeroes its delta sketch and fills it with updates of v to the
\* neighbours D; a raw buffer is filled outside of this code.
ApplyUpdateBatch(w, v, D) ==
  /\ ~querying /\ pc[w] = "idle" /\ D # {}
  /\ pend' = [pend EXCEPT ![v] = @ \ D]
  /\ delta' = [delta EXCEPT ![w] = Updated({ConcatPairingFn(v, d) : d \in D})]
  /\ job' = [job EXCEPT ![w] = v]
  /\ pc' = [pc EXCEPT ![w] = "lock"]
  /\ UNCHANGED <<hash_vars, graph, sketch, mutex, bkt, reg, query_vars, updates>>

\* Mutant of Lockable: the mutex is not waited for.
LockableAlways(w) == TRUE

Lockable(w) == mutex[job[w]] = Free

\* lock_guard on the mutex of the sketch.
Lock(w) ==
  /\ pc[w] = "lock" /\ Lockable(w)
  /\ mutex' = [mutex EXCEPT ![job[w]] = w]
  /\ pc' = [pc EXCEPT ![w] = "read"]
  /\ UNCHANGED <<hash_vars, graph, pend, sketch, delta, job, bkt, reg, query_vars, updates>>

\* merge: buckets[i] ^= other.buckets[i] reads ...
ReadBucket(w) ==
  /\ pc[w] = "read"
  /\ reg' = [reg EXCEPT ![w] = sketch[job[w]].buckets[bkt[w]]]
  /\ pc' = [pc EXCEPT ![w] = "write"]
  /\ UNCHANGED <<hash_vars, graph, pend, sketch, mutex, delta, job, bkt, query_vars, updates>>

\* ... and writes, for a delta sketch as for a raw buffer; after the last bucket the mutex is released.
WriteBucket(w) ==
  /\ pc[w] = "write"
  /\ sketch' = [sketch EXCEPT ![job[w]].buckets[bkt[w]] = Xor(reg[w], delta[w][bkt[w]])]
  /\ reg' = [reg EXCEPT ![w] = {}]
  /\ IF bkt[w] < Deterministic
     THEN /\ bkt' = [bkt EXCEPT ![w] = @ + 1]
          /\ pc' = [pc EXCEPT ![w] = "read"]
          /\ UNCHANGED <<mutex, delta, job>>
     ELSE /\ bkt' = [bkt EXCEPT ![w] = 0]
          /\ pc' = [pc EXCEPT ![w] = "idle"]
          /\ mutex' = [mutex EXCEPT ![job[w]] = Free]
          /\ delta' = [delta EXCEPT ![w] = NoBuckets]
          /\ job' = [job EXCEPT ![w] = 0]
  /\ UNCHANGED <<hash_vars, graph, pend, query_vars, updates>>

WorkerStep(w) ==
  \/ \E v \in Vertex : \E D \in SUBSET pend[v] : ApplyUpdateBatch(w, v, D)
  \/ Lock(w) \/ ReadBucket(w) \/ WriteBucket(w)

-----------------------------------------------------------------------------
(* Queries: the updates are flushed, and the sketches sampled. *)

Flushed == /\ \A v \in Vertex : pend[v] = {}
           /\ \A w \in Worker : pc[w] = "idle"

BeginQuery ==
  /\ ~querying /\ Flushed
  /\ querying' = TRUE
  /\ UNCHANGED <<hash_vars, graph, pend, sketch, worker_vars, round, acc, members,
                 result, updates>>

Sampled(s, of, exhaustive) ==
  LET o == Outcome(s, exhaustive)
  IN  result' = [kind |-> o.kind, idxs |-> o.idxs, of |-> of, at |-> s.sample_idx]

\* Round zero, and any number of samples by a user of the class.
SampleVertex(v, exhaustive) ==
  /\ querying /\ round = 0
  /\ Sampled(sketch[v], {v}, exhaustive)
  /\ sketch' = [sketch EXCEPT ![v].sample_idx = NextIdx(sketch[v])]
  /\ UNCHANGED <<hash_vars, graph, pend, worker_vars, querying, round, acc, members, updates>>

\* A later round sums the sketches of a supernode ...
RangeMergeVertex(v) ==
  /\ querying /\ round > 0 /\ v \notin members
  /\ acc' = RangeMerge(acc, sketch[v], round)
  /\ members' = members \cup {v}
  /\ UNCHANGED <<hash_vars, graph, pend, sketch, worker_vars, querying, round, result, updates>>

\* ... samples the sum, and zeroes it for the next supernode.
SampleSum(exhaustive) ==
  /\ querying /\ members # {}
  /\ Sampled(acc, members, exhaustive)
  /\ acc' = Zero /\ members' = {}
  /\ UNCHANGED <<hash_vars, graph, pend, sketch, worker_vars, querying, round, updates>>

NextRound ==
  /\ querying /\ members = {} /\ round < NumSamples
  /\ round' = round + 1
  /\ result' = NoResult
  /\ UNCHANGED <<hash_vars, graph, pend, sketch, worker_vars, querying, acc, members, updates>>

\* The query is over and its samples are reset.
ResetSampleState ==
  /\ querying /\ members = {}
  /\ querying' = FALSE /\ round' = 0 /\ result' = NoResult
  /\ sketch' = [v \in Vertex |-> [sketch[v] EXCEPT !.sample_idx = 0]]
  /\ UNCHANGED <<hash_vars, graph, pend, worker_vars, acc, members, updates>>

\* The sketches are serialized; new ones are constructed from the stream, with
\* the same buckets and no sample used.
Reload ==
  /\ querying /\ members = {}
  /\ querying' = FALSE /\ round' = 0 /\ result' = NoResult
  /\ sketch' = [v \in Vertex |-> [Zero EXCEPT !.buckets = sketch[v].buckets]]
  /\ UNCHANGED <<hash_vars, graph, pend, worker_vars, acc, members, updates>>

QueryStep ==
  \/ BeginQuery \/ NextRound \/ ResetSampleState \/ Reload
  \/ \E exhaustive \in BOOLEAN :
       SampleSum(exhaustive) \/ \E v \in Vertex : SampleVertex(v, exhaustive)
  \/ \E v \in Vertex : RangeMergeVertex(v)

Next ==
  \/ \E e \in Edge : Insert(e)
  \/ \E w \in Worker : WorkerStep(w)
  \/ QueryStep

Spec == Init /\ [][Next]_vars

-----------------------------------------------------------------------------
(* Properties *)

Indices(E) == {ConcatPairingFn(e[1], e[2]) : e \in E}

\* The edges of the graph with exactly one end point in S.
Cut(S) == {e \in graph : (e[1] \in S) # (e[2] \in S)}

\* Once the updates are flushed, every sketch is the one that a single thread
\* would have built from the edges of its vertex: concurrent merges of delta
\* sketches lose no bucket, and edges that were inserted and deleted cancel.
SketchesAreSums ==
  Flushed => \A v \in Vertex : sketch[v].buckets = Updated(Indices(Cut({v})))

\* A sample of a vertex or of a sum of vertices says the truth about the cut of
\* the graph around it, in every round, although later rounds sum only the
\* buckets of one sample: ZERO means that no edge leaves, GOOD returns edges
\* that leave (as the pairing function decodes them), and FAIL happens only if
\* several leave and no bucket of the columns of this round isolates one.  This is what
\* CCSketchAlg assumes of sampling.
SampleRight ==
  LET cut == Cut(result.of)
      ideal == Updated(Indices(cut))
  IN  /\ round > 0 /\ result.kind \in {"GOOD", "FAIL"} => result.at = round
      /\ result.kind = "ZERO" => cut = {}
      /\ result.kind = "GOOD" =>
           result.idxs # {} /\ \A idx \in result.idxs : InvConcatPairingFn(idx) \in cut
      /\ result.kind = "FAIL" =>
           /\ Cardinality(cut) > 1
           /\ \A b \in SampleBuckets(result.at, 1) : Cardinality(ideal[b]) # 1

=============================================================================
