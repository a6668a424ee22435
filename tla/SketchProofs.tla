---------------------------- MODULE SketchProofs ----------------------------
(***************************************************************************)
(* Theorems about Sketch, for any number of vertices, workers, samples and *)
(* updates and for any hash functions.                                     *)
(***************************************************************************)
EXTENDS Sketch, FiniteSetTheorems, NatLemmas, TLAPS

-----------------------------------------------------------------------------
(* The inductive invariant *)

Odd(S) == Cardinality(S) % 2 = 1

\* Indices of the edges from v to the vertices in D.
EdgesTo(v, D) == {ConcatPairingFn(v, d) : d \in D}

\* The workers that have still to merge idx into bucket b of the sketch of v.
Bringing(v, b, idx) ==
  {w \in Worker : pc[w] # "idle" /\ job[w] = v /\ bkt[w] <= b /\ idx \in delta[w][b]}

\* A bucket of a sketch, the delta sketches on their way to it and the buffered
\* updates together hold the edges of the vertex.
SumInv ==
  \A v \in Vertex : \A b \in BucketId : \A idx \in Index :
    ~(idx \in sketch[v].buckets[b] <=> Odd(Bringing(v, b, idx)))
      <=> Touches(idx, b) /\ ~(idx \in Indices(Cut({v})) <=> idx \in EdgesTo(v, pend[v]))

\* A worker inside merge holds the mutex, so what it has read is still there.
LockInv ==
  /\ \A w \in Worker : pc[w] \in {"read", "write"} => mutex[job[w]] = w
  /\ \A w \in Worker : pc[w] \in {"idle", "lock"} => bkt[w] = 0
  /\ \A w \in Worker : pc[w] = "write" => reg[w] = sketch[job[w]].buckets[bkt[w]]
  /\ \A v \in Vertex : v \notin pend[v]

\* The sum of a query holds, in the buckets of its round, the edges that leave
\* the vertices summed.
QueryInv ==
  /\ querying => Flushed
  /\ ~querying => round = 0 /\ members = {} /\ result = NoResult
  /\ members = {} => acc = Zero
  /\ members # {} =>
       /\ round > 0 /\ acc.sample_idx = round
       /\ round < NumSamples => \A b \in SampleBuckets(round, 1) \cup {Deterministic} :
                                  acc.buckets[b] = Updated(Indices(Cut(members)))[b]

SketchInv == TypeOK /\ SumInv /\ LockInv /\ QueryInv /\ SampleRight

-----------------------------------------------------------------------------
(* Numbers and sets *)

LEMMA VertexFacts ==
  /\ N \in Nat /\ N > 1 /\ Vertex \subseteq Nat /\ 0 \in Vertex
  /\ 2^NumBits \in Nat /\ 2^NumBits > 0 /\ \A v \in Vertex : v < 2^NumBits
<1>1. N \in Nat /\ N > 1 /\ N <= 2^NumBits /\ 2^NumBits \in Nat
  BY SizeAssumption, PowerAssumption
<1> QED BY <1>1 DEF Vertex

LEMMA EdgeFacts ==
  \A e \in Edge : e[1] \in Vertex /\ e[2] \in Vertex /\ e[1] < e[2] /\ e = <<e[1], e[2]>>
  BY DEF Edge

\* inv_concat_pairing_fn undoes concat_pairing_fn, with the end points in order.
LEMMA PairingInverse ==
  ASSUME NEW x \in Vertex, NEW y \in Vertex
  PROVE  /\ ConcatPairingFn(x, y) \in Nat
         /\ InvConcatPairingFn(ConcatPairingFn(x, y)) = IF x < y THEN <<x, y>> ELSE <<y, x>>
<1> DEFINE P == 2^NumBits
<1> HIDE DEF P
<1>1. \A i, j \in Nat : j < P => /\ i * P + j \in Nat
                                 /\ (i * P + j) \div P = i /\ (i * P + j) % P = j
  <2>1. P \in Nat /\ P > 0
    BY VertexFacts DEF P
  <2>2. \A i, j, p \in Nat : p > 0 /\ j < p => (i * p + j) \div p = i /\ (i * p + j) % p = j
    OBVIOUS
  <2> QED BY <2>1, <2>2
<1>2. x \in Nat /\ y \in Nat /\ x < P /\ y < P
  BY VertexFacts DEF P
<1>3. ConcatPairingFn(x, y) = IF x < y THEN x * P + y ELSE y * P + x
  BY <1>2, MinMaxPair DEF ConcatPairingFn, P
<1>4. \A idx : InvConcatPairingFn(idx) = <<idx \div P, idx % P>>
  BY DEF InvConcatPairingFn, P
<1> QED BY <1>1, <1>2, <1>3, <1>4

\* Two edges never share an index.
LEMMA IndexOfEdge ==
  /\ Index \subseteq Nat
  /\ \A e \in Edge : /\ ConcatPairingFn(e[1], e[2]) \in Index
                     /\ InvConcatPairingFn(ConcatPairingFn(e[1], e[2])) = e
  /\ \A d, e \in Edge : ConcatPairingFn(d[1], d[2]) = ConcatPairingFn(e[1], e[2]) => d = e
<1>1. \A e \in Edge : /\ ConcatPairingFn(e[1], e[2]) \in Nat
                      /\ InvConcatPairingFn(ConcatPairingFn(e[1], e[2])) = e
  BY PairingInverse, EdgeFacts
<1>2. Index \subseteq Nat /\ \A e \in Edge : ConcatPairingFn(e[1], e[2]) \in Index
  BY <1>1 DEF Index
<1>3. ASSUME NEW d \in Edge, NEW e \in Edge,
             ConcatPairingFn(d[1], d[2]) = ConcatPairingFn(e[1], e[2])
      PROVE  d = e
  BY <1>1, <1>3
<1> QED BY <1>1, <1>2, <1>3

\* The index of an edge, seen from one of its end points.
LEMMA NeighbourIndex ==
  ASSUME NEW v \in Vertex, NEW d \in Vertex, v # d
  PROVE  /\ ConcatPairingFn(v, d) \in Index
         /\ ConcatPairingFn(v, d) = ConcatPairingFn(d, v)
         /\ \A c \in Vertex : c # v /\ ConcatPairingFn(v, c) = ConcatPairingFn(v, d) => c = d
<1>1. v \in Nat /\ d \in Nat
  BY VertexFacts
<1>2. ConcatPairingFn(v, d) = ConcatPairingFn(d, v)
  BY <1>1, MinMaxPair DEF ConcatPairingFn
<1>3. ConcatPairingFn(v, d) \in Index
  <2>1. CASE v < d
    <3>1. <<v, d>> \in Edge
      BY <2>1 DEF Edge
    <3> QED BY <3>1, IndexOfEdge
  <2>2. CASE d < v
    <3>1. <<d, v>> \in Edge
      BY <2>2 DEF Edge
    <3> QED BY <3>1, <1>2, IndexOfEdge
  <2> QED BY <1>1, <2>1, <2>2
<1>4. ASSUME NEW c \in Vertex, c # v, ConcatPairingFn(v, c) = ConcatPairingFn(v, d)
      PROVE  c = d
  <2>1. (IF v < c THEN <<v, c>> ELSE <<c, v>>) = (IF v < d THEN <<v, d>> ELSE <<d, v>>)
    BY <1>4, PairingInverse
  <2>2. c \in Nat
    BY VertexFacts
  <2> QED BY <1>1, <1>4, <2>1, <2>2
<1> QED BY <1>2, <1>3, <1>4

LEMMA IndicesMember ==
  ASSUME NEW E \in SUBSET Edge
  PROVE  /\ Indices(E) \subseteq Index
         /\ \A e \in Edge : ConcatPairingFn(e[1], e[2]) \in Indices(E) <=> e \in E
         /\ \A idx \in Indices(E) : InvConcatPairingFn(idx) \in E
<1>1. Indices(E) \subseteq Index
  BY IndexOfEdge DEF Indices
<1>2. ASSUME NEW e \in Edge PROVE ConcatPairingFn(e[1], e[2]) \in Indices(E) <=> e \in E
  BY IndexOfEdge DEF Indices
<1>3. ASSUME NEW idx \in Indices(E) PROVE InvConcatPairingFn(idx) \in E
  BY IndexOfEdge DEF Indices
<1> QED BY <1>1, <1>2, <1>3

\* Parity of the workers that bring an index.
LEMMA OddFacts ==
  ASSUME NEW S \in SUBSET Worker, NEW w \in Worker
  PROVE  /\ ~Odd({})
         /\ w \notin S => (Odd(S \cup {w}) <=> ~Odd(S))
         /\ w \in S => (Odd(S \ {w}) <=> ~Odd(S))
<1>1. IsFiniteSet(S) /\ Cardinality(S) \in Nat
  BY WorkerAssumption, FS_Subset, FS_CardinalityType
<1>2. ASSUME w \notin S PROVE Cardinality(S \cup {w}) = Cardinality(S) + 1
  BY <1>1, <1>2, FS_AddElement
<1>3. ASSUME w \in S PROVE Cardinality(S \ {w}) = Cardinality(S) - 1
  BY <1>1, <1>3, FS_RemoveElement
<1>4. Cardinality({}) = 0
  BY FS_EmptySet
<1>5. ~Odd({})
  BY <1>4 DEF Odd
<1>6. ASSUME w \notin S PROVE Odd(S \cup {w}) <=> ~Odd(S)
  BY <1>1, <1>2, <1>6 DEF Odd
<1>7. ASSUME w \in S PROVE Odd(S \ {w}) <=> ~Odd(S)
  BY <1>1, <1>3, <1>7 DEF Odd
<1> QED BY <1>5, <1>6, <1>7

\* The layout: the buckets of every sample are buckets, the deterministic one too.
LEMMA LayoutFacts ==
  /\ NumSamples \in Nat /\ NumSamples > 0
  /\ NumBuckets \in Nat /\ NumBuckets > 0
  /\ BucketId \subseteq Nat /\ 0 \in BucketId
  /\ Deterministic \in BucketId /\ \A b \in BucketId : b <= Deterministic
  /\ \A s \in Nat : s < NumSamples => SampleBuckets(s, 1) \subseteq BucketId
<1>1. /\ NumSamples \in Nat /\ NumSamples > 0 /\ ColsPerSample \in Nat /\ BktPerCol \in Nat
  BY SizeAssumption, LayoutAssumption
<1>2. \A x, y \in Nat : x * y \in Nat
  OBVIOUS
<1>3. \A x, y, k \in Nat : x <= y => x * k <= y * k
  OBVIOUS
<1> DEFINE L == NumSamples * ColsPerSample * BktPerCol
<1>4. L \in Nat /\ NumBuckets = L + 1 /\ Deterministic = L /\ BucketId = 0 .. L
  BY <1>1, <1>2 DEF NumBuckets, Deterministic, BucketId
<1>5. ASSUME NEW s \in Nat, s < NumSamples PROVE SampleBuckets(s, 1) \subseteq BucketId
  <2>1. (s + 1) * ColsPerSample <= NumSamples * ColsPerSample
    BY <1>1, <1>3, <1>5
  <2>2. (s + 1) * ColsPerSample \in Nat /\ NumSamples * ColsPerSample \in Nat
    BY <1>1, <1>2
  <2>3. (s + 1) * ColsPerSample * BktPerCol <= L
    BY <1>1, <1>3, <2>1, <2>2
  <2>4. s * ColsPerSample * BktPerCol \in Nat /\ (s + 1) * ColsPerSample * BktPerCol \in Nat
    BY <1>1, <1>2
  <2> QED BY <1>4, <2>3, <2>4 DEF SampleBuckets
<1> QED BY <1>1, <1>4, <1>5


-----------------------------------------------------------------------------
(* Type correctness *)

LEMMA XorMember == \A A, B : \A x : x \in Xor(A, B) <=> ~(x \in A <=> x \in B)
  BY DEF Xor

LEMMA BucketTypes ==
  /\ NoBuckets \in Buckets /\ Zero \in SketchOf
  /\ \A I \in SUBSET Index : Updated(I) \in Buckets
  BY LayoutFacts DEF NoBuckets, Zero, Buckets, SketchOf, Updated

LEMMA SketchTypes ==
  ASSUME NEW s \in SketchOf
  PROVE  /\ s.buckets \in Buckets /\ s.sample_idx \in 0 .. NumSamples
         /\ \A b \in BucketId : s.buckets[b] \subseteq Index
  BY DEF SketchOf, Buckets

LEMMA RangeMergeType ==
  ASSUME NEW s \in SketchOf, NEW other \in SketchOf, NEW r \in 0 .. NumSamples
  PROVE  RangeMerge(s, other, r) \in SketchOf
<1>1. NumSamples \in Nat /\ s.sample_idx \in Nat /\ r \in Nat
  BY LayoutFacts DEF SketchOf
<1>2. CASE r + 1 > NumSamples
  BY <1>1, <1>2 DEF RangeMerge, SketchOf
<1>3. CASE ~(r + 1 > NumSamples)
  <2>1. FirstSample(s, r) \in 0 .. NumSamples
    BY <1>1, MinMaxPair DEF FirstSample, SketchOf
  <2>2. \A b \in BucketId : s.buckets[b] \subseteq Index /\ other.buckets[b] \subseteq Index
    BY SketchTypes
  <2>3. [b \in BucketId |-> IF b \in SampleBuckets(r, 1) \cup {Deterministic}
                            THEN Xor(s.buckets[b], other.buckets[b]) ELSE s.buckets[b]] \in Buckets
    BY <2>2 DEF Buckets, Xor
  <2> QED BY <1>3, <2>1, <2>3 DEF RangeMerge, SketchOf
<1> QED BY <1>2, <1>3

LEMMA GoodBucketsFacts ==
  ASSUME NEW s \in SketchOf, s.sample_idx < NumSamples
  PROVE  /\ GoodBuckets(s) \subseteq SampleBuckets(s.sample_idx, 1)
         /\ GoodBuckets(s) \subseteq BucketId
         /\ GoodBuckets(s) # {} => Min(GoodBuckets(s)) \in GoodBuckets(s)
<1>1. s.sample_idx \in Nat
  BY LayoutFacts DEF SketchOf
<1>2. GoodBuckets(s) \subseteq SampleBuckets(s.sample_idx, 1) /\ GoodBuckets(s) \subseteq BucketId
  BY <1>1, LayoutFacts DEF GoodBuckets
<1>3. GoodBuckets(s) \subseteq Nat
  BY <1>2, LayoutFacts
<1> QED BY <1>2, <1>3, MinMember

LEMMA OutcomeType ==
  ASSUME NEW s \in SketchOf, NEW exhaustive \in BOOLEAN
  PROVE  /\ Outcome(s, exhaustive).kind \in {"none", "ZERO", "GOOD", "FAIL", "throw"}
         /\ Outcome(s, exhaustive).idxs \subseteq Nat
<1>1. s.sample_idx \in Nat /\ NumSamples \in Nat
  BY LayoutFacts DEF SketchOf
<1>2. \A b \in BucketId : s.buckets[b] \subseteq Nat
  BY SketchTypes, IndexOfEdge
<1>3. CASE s.sample_idx >= NumSamples
  BY <1>3 DEF Outcome
<1>4. CASE ~(s.sample_idx >= NumSamples)
  <2>1. /\ GoodBuckets(s) \subseteq BucketId
        /\ GoodBuckets(s) # {} => Min(GoodBuckets(s)) \in BucketId
    BY <1>1, <1>4, GoodBucketsFacts
  <2>2. UNION {s.buckets[b] : b \in GoodBuckets(s)} \subseteq Nat
    BY <1>2, <2>1
  <2> QED BY <1>2, <1>4, <2>1, <2>2, LayoutFacts DEF Outcome
<1> QED BY <1>3, <1>4

Results == [kind : {"none", "ZERO", "GOOD", "FAIL", "throw"}, idxs : SUBSET Nat,
            of : SUBSET Vertex, at : 0 .. NumSamples]

LEMMA SampledType ==
  ASSUME NEW s \in SketchOf, NEW S \in SUBSET Vertex, NEW x \in BOOLEAN, Sampled(s, S, x)
  PROVE  result' \in Results
  BY OutcomeType, SketchTypes DEF Sampled, Results

LEMMA TypeWorker ==
  ASSUME TypeOK, LockInv, NEW w \in Worker, WorkerStep(w)
  PROVE  TypeOK'
<1> USE DEF TypeOK, hash_vars, query_vars
<1>1. ASSUME NEW v \in Vertex, NEW D \in SUBSET pend[v], ApplyUpdateBatch(w, v, D) PROVE TypeOK'
  <2>1. {ConcatPairingFn(v, d) : d \in D} \in SUBSET Index
    BY NeighbourIndex DEF LockInv
  <2>2. Updated({ConcatPairingFn(v, d) : d \in D}) \in Buckets
    BY <2>1, BucketTypes
  <2> QED BY <1>1, <2>2 DEF ApplyUpdateBatch
<1>2. CASE Lock(w)
  BY <1>2 DEF Lock
<1>3. CASE ReadBucket(w)
  <2>1. sketch[job[w]].buckets[bkt[w]] \subseteq Index
    BY SketchTypes
  <2> QED BY <1>3, <2>1 DEF ReadBucket
<1>4. CASE WriteBucket(w)
  <2>1. Xor(reg[w], delta[w][bkt[w]]) \subseteq Index
    BY DEF Xor, Buckets
  <2>2. sketch' \in [Vertex -> SketchOf]
    BY <1>4, <2>1 DEF WriteBucket, SketchOf, Buckets
  <2>3. bkt' \in [Worker -> BucketId]
    <3>1. bkt[w] < Deterministic => bkt[w] + 1 \in BucketId
      BY LayoutFacts DEF BucketId, Deterministic
    <3> QED BY <1>4, <3>1, LayoutFacts DEF WriteBucket
  <2>4. delta' \in [Worker -> Buckets] /\ job' \in [Worker -> Vertex]
    BY <1>4, BucketTypes, VertexFacts DEF WriteBucket
  <2>5. /\ mutex' \in [Vertex -> Worker \cup {Free}] /\ reg' \in [Worker -> SUBSET Index]
        /\ pc' \in [Worker -> {"idle", "lock", "read", "write"}]
    BY <1>4 DEF WriteBucket
  <2> QED BY <1>4, <2>2, <2>3, <2>4, <2>5 DEF WriteBucket
<1> QED BY <1>1, <1>2, <1>3, <1>4 DEF WorkerStep

LEMMA TypeQuery ==
  ASSUME TypeOK, QueryStep
  PROVE  TypeOK'
<1> USE DEF TypeOK, hash_vars, worker_vars
<1>1. NumSamples \in Nat /\ NoResult \in [kind : {"none", "ZERO", "GOOD", "FAIL", "throw"},
         idxs : SUBSET Nat, of : SUBSET Vertex, at : 0 .. NumSamples]
  BY LayoutFacts DEF NoResult
<1>3. CASE BeginQuery
  BY <1>3, Zenon DEF BeginQuery
<1>4. CASE NextRound
  BY <1>1, <1>4 DEF NextRound
<1>5. CASE ResetSampleState
  <2>1. sketch' \in [Vertex -> SketchOf]
    <3>1. \A v \in Vertex : [sketch[v] EXCEPT !.sample_idx = 0] \in SketchOf
      BY <1>1 DEF SketchOf
    <3> QED BY <1>5, <3>1 DEF ResetSampleState
  <2>2. querying' \in BOOLEAN
    BY <1>5, Zenon DEF ResetSampleState
  <2> QED BY <1>1, <1>5, <2>1, <2>2 DEF ResetSampleState
<1>6. CASE Reload
  <2>1. sketch' \in [Vertex -> SketchOf]
    BY <1>1, <1>6 DEF Reload, SketchOf, Zero
  <2>2. querying' \in BOOLEAN
    BY <1>6, Zenon DEF Reload
  <2> QED BY <1>1, <1>6, <2>1, <2>2 DEF Reload
<1>7. ASSUME NEW x \in BOOLEAN, SampleSum(x) PROVE TypeOK'
  <2>1. Sampled(acc, members, x) /\ members \in SUBSET Vertex /\ acc \in SketchOf
    BY <1>7 DEF SampleSum
  <2>2. result' \in Results
    BY <2>1, SampledType
  <2>3. acc' \in SketchOf /\ members' \subseteq Vertex
    BY <1>7, BucketTypes DEF SampleSum
  <2>4. UNCHANGED <<depth, l0, graph, pend, sketch, mutex, delta, pc, job, bkt, reg>>
        /\ UNCHANGED <<querying, round, updates>>
    BY <1>7 DEF SampleSum
  <2>5. result' \in Results => TypeOK'
    BY <2>3, <2>4 DEF Results
  <2> QED BY <2>2, <2>5
<1>8. ASSUME NEW x \in BOOLEAN, NEW v \in Vertex, SampleVertex(v, x) PROVE TypeOK'
  <2>1. sketch' \in [Vertex -> SketchOf]
    BY <1>1, <1>8 DEF SampleVertex, SketchOf, NextIdx
  <2>2. Sampled(sketch[v], {v}, x) /\ {v} \in SUBSET Vertex /\ sketch[v] \in SketchOf
    BY <1>8 DEF SampleVertex
  <2>3. result' \in Results
    BY <2>2, SampledType
  <2>4. UNCHANGED <<depth, l0, graph, pend, mutex, delta, pc, job, bkt, reg>>
        /\ UNCHANGED <<querying, round, acc, members, updates>>
    BY <1>8 DEF SampleVertex
  <2>5. result' \in Results => TypeOK'
    BY <2>1, <2>4 DEF Results
  <2> QED BY <2>3, <2>5
<1>9. ASSUME NEW v \in Vertex, RangeMergeVertex(v) PROVE TypeOK'
  BY <1>9, RangeMergeType DEF RangeMergeVertex
<1> QED BY <1>3, <1>4, <1>5, <1>6, <1>7, <1>8, <1>9 DEF QueryStep

LEMMA TypeInit == Init => TypeOK
<1> SUFFICES ASSUME Init PROVE TypeOK
  OBVIOUS
<1>1. result \in [kind : {"none", "ZERO", "GOOD", "FAIL", "throw"},
         idxs : SUBSET Nat, of : SUBSET Vertex, at : 0 .. NumSamples]
  BY LayoutFacts DEF Init, NoResult
<1>2. querying \in BOOLEAN
  BY Zenon DEF Init
<1> QED BY <1>1, <1>2, VertexFacts, LayoutFacts, BucketTypes, BoundAssumption DEF Init, TypeOK

LEMMA TypeNext == TypeOK /\ LockInv /\ [Next]_vars => TypeOK'
<1> SUFFICES ASSUME TypeOK, LockInv, [Next]_vars PROVE TypeOK'
  OBVIOUS
<1>1. ASSUME NEW e \in Edge, Insert(e) PROVE TypeOK'
  <2>1. updates' \in 0 .. MaxUpdates
    BY <1>1, BoundAssumption DEF Insert, TypeOK
  <2>2. graph' \subseteq Edge /\ pend' \in [Vertex -> SUBSET Vertex]
    BY <1>1, EdgeFacts DEF Insert, TypeOK, Xor
  <2> QED BY <1>1, <2>1, <2>2 DEF Insert, TypeOK, hash_vars, worker_vars, query_vars
<1>2. CASE UNCHANGED vars
  BY <1>2 DEF vars, TypeOK, hash_vars, worker_vars, query_vars
<1> QED BY <1>1, <1>2, TypeWorker, TypeQuery DEF Next


-----------------------------------------------------------------------------
(* Mutexes *)

\* Steps of a query leave the buckets of the sketches and the workers alone.
LEMMA QueryKeeps ==
  ASSUME TypeOK, QueryStep
  PROVE  /\ \A v \in Vertex : sketch'[v].buckets = sketch[v].buckets
         /\ UNCHANGED <<depth, l0, graph, pend, mutex, delta, pc, job, bkt, reg, updates>>
<1> USE DEF hash_vars, worker_vars
<1>1. CASE BeginQuery
  BY <1>1 DEF BeginQuery
<1>2. CASE NextRound
  BY <1>2 DEF NextRound
<1>3. CASE ResetSampleState
  <2>1. \A v \in Vertex : [sketch[v] EXCEPT !.sample_idx = 0].buckets = sketch[v].buckets
    BY DEF TypeOK, SketchOf
  <2> QED BY <1>3, <2>1 DEF ResetSampleState
<1>4. CASE Reload
  BY <1>4 DEF Reload, Zero
<1>5. ASSUME NEW x \in BOOLEAN, SampleSum(x)
      PROVE  sketch' = sketch /\ UNCHANGED <<depth, l0, graph, pend, mutex, delta, pc, job, bkt, reg, updates>>
  BY <1>5 DEF SampleSum
<1>6. ASSUME NEW x \in BOOLEAN, NEW v \in Vertex, SampleVertex(v, x)
      PROVE  /\ \A y \in Vertex : sketch'[y].buckets = sketch[y].buckets
             /\ UNCHANGED <<depth, l0, graph, pend, mutex, delta, pc, job, bkt, reg, updates>>
  BY <1>6 DEF SampleVertex, TypeOK, SketchOf
<1>7. ASSUME NEW v \in Vertex, RangeMergeVertex(v)
      PROVE  sketch' = sketch /\ UNCHANGED <<depth, l0, graph, pend, mutex, delta, pc, job, bkt, reg, updates>>
  BY <1>7 DEF RangeMergeVertex
<1> QED BY <1>1, <1>2, <1>3, <1>4, <1>5, <1>6, <1>7 DEF QueryStep

\* What the step of a worker that writes a bucket does to the sketches.
LEMMA WriteFacts ==
  ASSUME TypeOK, LockInv, NEW w \in Worker, WriteBucket(w)
  PROVE  /\ job[w] \in Vertex /\ bkt[w] \in BucketId
         /\ \A v \in Vertex : \A b \in BucketId :
              sketch'[v].buckets[b] =
                IF v = job[w] /\ b = bkt[w]
                THEN Xor(sketch[v].buckets[b], delta[w][b]) ELSE sketch[v].buckets[b]
         /\ \A o \in Worker \ {w} :
              /\ pc'[o] = pc[o] /\ job'[o] = job[o] /\ bkt'[o] = bkt[o]
              /\ delta'[o] = delta[o] /\ reg'[o] = reg[o]
         /\ pc'[w] \in {"idle", "read"}
         /\ pc'[w] = "idle" <=> bkt[w] = Deterministic
         /\ pc'[w] = "idle" => bkt'[w] = 0
         /\ pc'[w] = "read" =>
              bkt'[w] = bkt[w] + 1 /\ job'[w] = job[w] /\ delta'[w] = delta[w] /\ mutex' = mutex
         /\ \A v \in Vertex : v # job[w] => mutex'[v] = mutex[v]
         /\ UNCHANGED <<depth, l0, graph, pend>>
<1>1. job[w] \in Vertex /\ bkt[w] \in BucketId /\ reg[w] = sketch[job[w]].buckets[bkt[w]]
  BY DEF TypeOK, LockInv, WriteBucket
<1>2. \A v \in Vertex : \A b \in BucketId :
        sketch'[v].buckets[b] =
          IF v = job[w] /\ b = bkt[w]
          THEN Xor(sketch[v].buckets[b], delta[w][b]) ELSE sketch[v].buckets[b]
  BY <1>1 DEF WriteBucket, TypeOK, SketchOf, Buckets
<1>3. bkt[w] <= Deterministic /\ bkt[w] \in Nat /\ Deterministic \in Nat
  BY <1>1, LayoutFacts
<1>4. /\ \A o \in Worker \ {w} :
           /\ pc'[o] = pc[o] /\ job'[o] = job[o] /\ bkt'[o] = bkt[o]
           /\ delta'[o] = delta[o] /\ reg'[o] = reg[o]
      /\ UNCHANGED <<depth, l0, graph, pend>>
  BY DEF WriteBucket, TypeOK, hash_vars
<1>5. CASE bkt[w] < Deterministic
  BY <1>1, <1>2, <1>3, <1>4, <1>5 DEF WriteBucket, TypeOK
<1>6. CASE ~(bkt[w] < Deterministic)
  <2>1. bkt[w] = Deterministic
    BY <1>3, <1>6
  <2> QED BY <1>1, <1>2, <1>4, <1>6, <2>1 DEF WriteBucket, TypeOK
<1> QED BY <1>5, <1>6

\* The mutex keeps a second worker out of a sketch between read and write.
LEMMA LockWorker ==
  ASSUME TypeOK, LockInv, NEW w \in Worker, WorkerStep(w)
  PROVE  LockInv'
<1>1. ASSUME NEW v \in Vertex, NEW D \in SUBSET pend[v], ApplyUpdateBatch(w, v, D) PROVE LockInv'
  BY <1>1 DEF ApplyUpdateBatch, LockInv, TypeOK
<1>2. CASE Lock(w)
  <2>1. /\ pc' = [pc EXCEPT ![w] = "read"] /\ pc[w] = "lock" /\ mutex[job[w]] = Free
        /\ mutex' = [mutex EXCEPT ![job[w]] = w] /\ UNCHANGED <<job, bkt, reg, sketch, pend>>
    BY <1>2 DEF Lock, Lockable
  <2>2. \A o \in Worker : o # Free
    BY BoundAssumption
  <2> QED BY <2>1, <2>2 DEF LockInv, TypeOK
<1>3. CASE ReadBucket(w)
  BY <1>3 DEF ReadBucket, LockInv, TypeOK
<1>4. CASE WriteBucket(w)
  <2>1. \A o \in Worker : pc[o] \in {"read", "write"} /\ o # w => job[o] # job[w]
    BY <1>4 DEF LockInv, WriteBucket
  <2>2. pc[w] = "write"
    BY <1>4 DEF WriteBucket
  <2>3. ASSUME NEW o \in Worker PROVE pc'[o] \in {"read", "write"} => mutex'[job'[o]] = o
    BY <1>4, <2>1, <2>2, WriteFacts DEF LockInv, TypeOK
  <2>4. ASSUME NEW o \in Worker PROVE pc'[o] \in {"idle", "lock"} => bkt'[o] = 0
    BY <1>4, WriteFacts DEF LockInv
  <2>5. ASSUME NEW o \in Worker, pc'[o] = "write"
        PROVE  reg'[o] = sketch'[job'[o]].buckets[bkt'[o]]
    <3>1. o # w /\ pc[o] = "write" /\ job[o] \in Vertex /\ bkt[o] \in BucketId
      BY <1>4, <2>5, WriteFacts DEF TypeOK
    <3>2. sketch'[job[o]].buckets[bkt[o]] = sketch[job[o]].buckets[bkt[o]]
      BY <1>4, <2>1, <3>1, WriteFacts
    <3> QED BY <1>4, <3>1, <3>2, WriteFacts DEF LockInv
  <2> QED BY <1>4, <2>3, <2>4, <2>5, WriteFacts DEF LockInv
<1> QED BY <1>1, <1>2, <1>3, <1>4 DEF WorkerStep

LEMMA LockNext == TypeOK /\ LockInv /\ [Next]_vars => LockInv'
<1> SUFFICES ASSUME TypeOK, LockInv, [Next]_vars PROVE LockInv'
  OBVIOUS
<1>1. ASSUME NEW e \in Edge, Insert(e) PROVE LockInv'
  <2>1. \A v \in Vertex : v \notin pend'[v]
    <3>1. e[1] \in Vertex /\ e[2] \in Vertex /\ e[1] # e[2]
      BY EdgeFacts, VertexFacts
    <3> QED BY <1>1, <3>1 DEF Insert, LockInv, TypeOK, Xor
  <2> QED BY <1>1, <2>1 DEF Insert, LockInv, worker_vars
<1>2. CASE QueryStep
  <2>1. \A w \in Worker : job[w] \in Vertex
    BY DEF TypeOK
  <2> QED BY <1>2, <2>1, QueryKeeps DEF LockInv
<1>3. CASE UNCHANGED vars
  BY <1>3 DEF vars, LockInv, worker_vars
<1> QED BY <1>1, <1>2, <1>3, LockWorker DEF Next

LEMMA LockInit == Init => LockInv
  BY DEF Init, LockInv

\* Every variable keeps its type: no bucket, column or sample beyond the layout.
THEOREM TypeCorrect == Spec => []TypeOK
<1>1. Init => TypeOK /\ LockInv
  BY TypeInit, LockInit
<1>2. (TypeOK /\ LockInv) /\ [Next]_vars => (TypeOK /\ LockInv)'
  BY TypeNext, LockNext
<1> QED BY <1>1, <1>2, PTL DEF Spec


-----------------------------------------------------------------------------
(* Sketches are sums *)

LEMMA EdgesToMember ==
  ASSUME NEW v \in Vertex, NEW P \in SUBSET Vertex, v \notin P
  PROVE  /\ EdgesTo(v, P) \subseteq Index
         /\ \A d \in Vertex : d # v => (ConcatPairingFn(v, d) \in EdgesTo(v, P) <=> d \in P)
         /\ \A idx \in EdgesTo(v, P) : \E d \in Vertex : d # v /\ idx = ConcatPairingFn(v, d)
<1>1. EdgesTo(v, P) \subseteq Index
  BY NeighbourIndex DEF EdgesTo
<1>2. ASSUME NEW d \in Vertex, d # v, ConcatPairingFn(v, d) \in EdgesTo(v, P) PROVE d \in P
  <2>1. PICK c \in P : ConcatPairingFn(v, d) = ConcatPairingFn(v, c)
    BY <1>2 DEF EdgesTo
  <2>2. c \in Vertex /\ c # v
    OBVIOUS
  <2> QED BY <1>2, <2>1, <2>2, NeighbourIndex
<1>3. ASSUME NEW d \in P PROVE ConcatPairingFn(v, d) \in EdgesTo(v, P)
  BY DEF EdgesTo
<1>4. \A idx \in EdgesTo(v, P) : \E d \in Vertex : d # v /\ idx = ConcatPairingFn(v, d)
  BY DEF EdgesTo
<1> QED BY <1>1, <1>2, <1>3, <1>4

\* The terms of SumInv.
Held(v, b, idx) == idx \in sketch[v].buckets[b]
Cutting(v, idx) == idx \in Indices(Cut({v}))
Buffered(v, idx) == idx \in EdgesTo(v, pend[v])

LEMMA SumInvTerms ==
  SumInv <=> \A v \in Vertex : \A b \in BucketId : \A idx \in Index :
               ~(Held(v, b, idx) <=> Odd(Bringing(v, b, idx)))
                 <=> Touches(idx, b) /\ ~(Cutting(v, idx) <=> Buffered(v, idx))
  BY DEF SumInv, Held, Cutting, Buffered

\* An update of e toggles e at both end points, in the gutters as in the graph.
LEMMA SumInsert ==
  ASSUME TypeOK, TypeOK', LockInv, LockInv', SumInv, NEW e \in Edge, Insert(e)
  PROVE  SumInv'
<1> DEFINE i == ConcatPairingFn(e[1], e[2])
<1>0. /\ graph' = Xor(graph, {e})
      /\ UNCHANGED <<depth, l0, sketch, mutex, delta, pc, job, bkt, reg>>
  BY DEF Insert, hash_vars, worker_vars
<1>1. e[1] \in Vertex /\ e[2] \in Vertex /\ e[1] # e[2]
  BY EdgeFacts, VertexFacts
<1>2. \A v \in Vertex : pend'[v] = IF v = e[1] THEN Xor(pend[v], {e[2]})
                                   ELSE IF v = e[2] THEN Xor(pend[v], {e[1]}) ELSE pend[v]
  BY <1>1 DEF Insert, TypeOK
<1>3. ASSUME NEW v \in Vertex, NEW idx \in Index
      PROVE  Cutting(v, idx)' <=> ~(Cutting(v, idx) <=> (v \in {e[1], e[2]} /\ idx = i))
  <2>1. PICK x \in Edge : idx = ConcatPairingFn(x[1], x[2])
    BY DEF Index
  <2>2. Cut({v}) \in SUBSET Edge /\ Cut({v})' \in SUBSET Edge
    BY DEF TypeOK, Cut
  <2>3. Cutting(v, idx) <=> x \in Cut({v})
    BY <2>1, <2>2, IndicesMember DEF Cutting
  <2>4. Cutting(v, idx)' <=> x \in Cut({v})'
    <3>1. Cutting(v, idx)' <=> idx \in Indices(Cut({v})')
      BY DEF Cutting, Indices
    <3> QED BY <2>1, <2>2, <3>1, IndicesMember
  <2>5. idx = i <=> x = e
    BY <2>1, IndexOfEdge
  <2>6. x \in Cut({v}) <=> x \in graph /\ ((x[1] = v) # (x[2] = v))
    BY DEF Cut
  <2>7. x \in Cut({v})' <=> x \in graph' /\ ((x[1] = v) # (x[2] = v))
    BY DEF Cut
  <2>8. x \in graph' <=> ~(x \in graph <=> x = e)
    BY <1>0, XorMember
  <2> QED BY <1>1, <2>3, <2>4, <2>5, <2>6, <2>7, <2>8
<1>4. ASSUME NEW v \in Vertex, NEW idx \in Index
      PROVE  Buffered(v, idx)' <=> ~(Buffered(v, idx) <=> (v \in {e[1], e[2]} /\ idx = i))
  <2>0. /\ pend[v] \in SUBSET Vertex /\ v \notin pend[v]
        /\ pend'[v] \in SUBSET Vertex /\ v \notin pend'[v]
    BY DEF TypeOK, LockInv
  <2>1. Buffered(v, idx)' <=> idx \in EdgesTo(v, pend'[v])
    BY DEF Buffered, EdgesTo
  <2>2. CASE v \notin {e[1], e[2]}
    BY <1>2, <2>1, <2>2 DEF Buffered
  <2>3. CASE v \in {e[1], e[2]}
    <3> DEFINE f == IF v = e[1] THEN e[2] ELSE e[1]
    <3>1. f \in Vertex /\ f # v /\ i = ConcatPairingFn(v, f) /\ pend'[v] = Xor(pend[v], {f})
      BY <1>1, <1>2, <2>3, NeighbourIndex
    <3> HIDE DEF f, i
    <3>2. CASE \E d \in Vertex : d # v /\ idx = ConcatPairingFn(v, d)
      <4>1. PICK d \in Vertex : d # v /\ idx = ConcatPairingFn(v, d)
        BY <3>2
      <4>2. Buffered(v, idx) <=> d \in pend[v]
        BY <2>0, <4>1, EdgesToMember DEF Buffered
      <4>3. Buffered(v, idx)' <=> d \in pend'[v]
        BY <2>0, <2>1, <4>1, EdgesToMember
      <4>4. idx = i <=> d = f
        BY <3>1, <4>1, NeighbourIndex
      <4>5. d \in pend'[v] <=> ~(d \in pend[v] <=> d = f)
        BY <3>1, XorMember
      <4> QED BY <2>3, <4>2, <4>3, <4>4, <4>5
    <3>3. CASE ~\E d \in Vertex : d # v /\ idx = ConcatPairingFn(v, d)
      <4>1. ~Buffered(v, idx) /\ ~Buffered(v, idx)'
        BY <2>0, <2>1, <3>3, EdgesToMember DEF Buffered
      <4> QED BY <3>1, <3>3, <4>1
    <3> QED BY <3>2, <3>3
  <2> QED BY <2>2, <2>3
<1>5. \A v \in Vertex : \A b \in BucketId : \A idx \in Index :
        /\ Held(v, b, idx)' <=> Held(v, b, idx)
        /\ Bringing(v, b, idx)' = Bringing(v, b, idx)
        /\ Touches(idx, b)' <=> Touches(idx, b)
  BY <1>0 DEF Held, Bringing, Touches
<1>6. ASSUME NEW v \in Vertex, NEW b \in BucketId, NEW idx \in Index
      PROVE  ~(Held(v, b, idx)' <=> Odd(Bringing(v, b, idx))')
                 <=> Touches(idx, b)' /\ ~(Cutting(v, idx)' <=> Buffered(v, idx)')
  <2>1. ~(Held(v, b, idx) <=> Odd(Bringing(v, b, idx)))
           <=> Touches(idx, b) /\ ~(Cutting(v, idx) <=> Buffered(v, idx))
    BY SumInvTerms
  <2>2. Odd(Bringing(v, b, idx))' <=> Odd(Bringing(v, b, idx))
    BY <1>5 DEF Odd
  <2>3. (Cutting(v, idx)' <=> Buffered(v, idx)') <=> (Cutting(v, idx) <=> Buffered(v, idx))
    BY <1>3, <1>4
  <2> QED BY <1>5, <2>1, <2>2, <2>3
<1> QED BY <1>6 DEF SumInv, Held, Cutting, Buffered

\* The updates of a batch move from the gutter to the delta sketch.
LEMMA SumBatch ==
  ASSUME TypeOK, LockInv, SumInv,
         NEW w \in Worker, NEW v \in Vertex, NEW D \in SUBSET pend[v], ApplyUpdateBatch(w, v, D)
  PROVE  SumInv'
<1>1. /\ pend' = [pend EXCEPT ![v] = @ \ D]
      /\ delta' = [delta EXCEPT ![w] = Updated(EdgesTo(v, D))]
      /\ job' = [job EXCEPT ![w] = v] /\ pc' = [pc EXCEPT ![w] = "lock"]
      /\ UNCHANGED <<depth, l0, graph, sketch, bkt>> /\ pc[w] = "idle" /\ bkt[w] = 0
  BY DEF ApplyUpdateBatch, hash_vars, LockInv, EdgesTo
<1>2. pend[v] \in SUBSET Vertex /\ v \notin pend[v] /\ D \in SUBSET Vertex /\ v \notin D
  BY DEF TypeOK, LockInv
<1>3. \A u \in Vertex : \A b \in BucketId : \A idx \in Index :
        /\ Held(u, b, idx)' <=> Held(u, b, idx)
        /\ Touches(idx, b)' <=> Touches(idx, b)
        /\ Cutting(u, idx)' <=> Cutting(u, idx)
  BY <1>1 DEF Held, Touches, Cutting, Indices, Cut
<1>4. ASSUME NEW u \in Vertex, NEW b \in BucketId, NEW idx \in Index
      PROVE  Odd(Bringing(u, b, idx))' <=>
               ~(Odd(Bringing(u, b, idx)) <=> u = v /\ Touches(idx, b) /\ idx \in EdgesTo(v, D))
  <2>1. Bringing(u, b, idx) \in SUBSET Worker /\ w \notin Bringing(u, b, idx)
    BY <1>1 DEF Bringing
  <2>2. \A o \in Worker \ {w} : o \in Bringing(u, b, idx)' <=> o \in Bringing(u, b, idx)
    BY <1>1 DEF Bringing, TypeOK
  <2>3. 0 <= b
    BY LayoutFacts
  <2>4. w \in Bringing(u, b, idx)' <=> u = v /\ idx \in Updated(EdgesTo(v, D))[b]
    BY <1>1, <2>3 DEF Bringing, TypeOK
  <2>5. idx \in Updated(EdgesTo(v, D))[b] <=> Touches(idx, b) /\ idx \in EdgesTo(v, D)
    BY DEF Updated
  <2>6. Bringing(u, b, idx)' \in SUBSET Worker
    BY DEF Bringing
  <2>7. Odd(Bringing(u, b, idx))' <=> Odd(Bringing(u, b, idx)')
    BY DEF Odd
  <2>8. CASE w \in Bringing(u, b, idx)'
    <3>1. Bringing(u, b, idx)' = Bringing(u, b, idx) \cup {w}
      BY <2>1, <2>2, <2>6, <2>8
    <3>2. Odd(Bringing(u, b, idx) \cup {w}) <=> ~Odd(Bringing(u, b, idx))
      BY <2>1, OddFacts
    <3> QED BY <2>4, <2>5, <2>7, <2>8, <3>1, <3>2
  <2>9. CASE w \notin Bringing(u, b, idx)'
    <3>1. Bringing(u, b, idx)' = Bringing(u, b, idx)
      BY <2>1, <2>2, <2>6, <2>9
    <3> QED BY <2>4, <2>5, <2>7, <2>9, <3>1
  <2> QED BY <2>8, <2>9
<1>5. ASSUME NEW u \in Vertex, NEW idx \in Index
      PROVE  Buffered(u, idx)' <=> ~(Buffered(u, idx) <=> u = v /\ idx \in EdgesTo(v, D))
  <2>1. Buffered(u, idx)' <=> idx \in EdgesTo(u, pend'[u])
    BY DEF Buffered, EdgesTo
  <2>2. CASE u # v
    BY <1>1, <2>1, <2>2 DEF TypeOK, Buffered
  <2>3. CASE u = v
    <3>1. pend'[v] = pend[v] \ D
      BY <1>1 DEF TypeOK
    <3>2. CASE \E d \in Vertex : d # v /\ idx = ConcatPairingFn(v, d)
      <4>1. PICK d \in Vertex : d # v /\ idx = ConcatPairingFn(v, d)
        BY <3>2
      <4>2. idx \in EdgesTo(v, pend[v]) <=> d \in pend[v]
        BY <1>2, <4>1, EdgesToMember
      <4>3. idx \in EdgesTo(v, D) <=> d \in D
        BY <1>2, <4>1, EdgesToMember
      <4>4. idx \in EdgesTo(v, pend[v] \ D) <=> d \in pend[v] \ D
        BY <1>2, <4>1, EdgesToMember
      <4> QED BY <2>1, <2>3, <3>1, <4>2, <4>3, <4>4 DEF Buffered
    <3>3. CASE ~\E d \in Vertex : d # v /\ idx = ConcatPairingFn(v, d)
      <4>1. /\ idx \notin EdgesTo(v, pend[v]) /\ idx \notin EdgesTo(v, D)
            /\ idx \notin EdgesTo(v, pend[v] \ D)
        BY <1>2, <3>3, EdgesToMember
      <4> QED BY <2>1, <2>3, <3>1, <4>1 DEF Buffered
    <3> QED BY <3>2, <3>3
  <2> QED BY <2>2, <2>3
<1>6. ASSUME NEW u \in Vertex, NEW b \in BucketId, NEW idx \in Index
      PROVE  ~(Held(u, b, idx)' <=> Odd(Bringing(u, b, idx))')
                 <=> Touches(idx, b)' /\ ~(Cutting(u, idx)' <=> Buffered(u, idx)')
  <2>1. ~(Held(u, b, idx) <=> Odd(Bringing(u, b, idx)))
           <=> Touches(idx, b) /\ ~(Cutting(u, idx) <=> Buffered(u, idx))
    BY SumInvTerms
  <2> QED BY <1>3, <1>4, <1>5, <2>1
<1> QED BY <1>6 DEF SumInv, Held, Cutting, Buffered

\* A bucket of the delta sketch arrives in the sketch, and nobody else brings it.
LEMMA SumWrite ==
  ASSUME TypeOK, LockInv, SumInv, NEW w \in Worker, WriteBucket(w)
  PROVE  SumInv'
<1>1. pc[w] = "write" /\ job[w] \in Vertex /\ bkt[w] \in BucketId
  BY WriteFacts DEF WriteBucket
<1>2. UNCHANGED <<depth, l0, graph, pend>>
  BY WriteFacts
<1>3. \A u \in Vertex : \A b \in BucketId : \A idx \in Index :
        /\ Touches(idx, b)' <=> Touches(idx, b)
        /\ Cutting(u, idx)' <=> Cutting(u, idx)
        /\ Buffered(u, idx)' <=> Buffered(u, idx)
  BY <1>2 DEF Touches, Cutting, Indices, Cut, Buffered, EdgesTo
<1>4. ASSUME NEW u \in Vertex, NEW b \in BucketId, NEW idx \in Index
      PROVE  Held(u, b, idx)' <=>
               ~(Held(u, b, idx) <=> u = job[w] /\ b = bkt[w] /\ idx \in delta[w][b])
  <2>1. sketch'[u].buckets[b] = IF u = job[w] /\ b = bkt[w]
                                THEN Xor(sketch[u].buckets[b], delta[w][b]) ELSE sketch[u].buckets[b]
    BY WriteFacts
  <2>2. idx \in Xor(sketch[u].buckets[b], delta[w][b])
          <=> ~(idx \in sketch[u].buckets[b] <=> idx \in delta[w][b])
    BY XorMember
  <2> QED BY <2>1, <2>2 DEF Held
<1>5. ASSUME NEW u \in Vertex, NEW b \in BucketId, NEW idx \in Index
      PROVE  Odd(Bringing(u, b, idx))' <=>
               ~(Odd(Bringing(u, b, idx)) <=> u = job[w] /\ b = bkt[w] /\ idx \in delta[w][b])
  <2>1. \A o \in Worker \ {w} : o \in Bringing(u, b, idx)' <=> o \in Bringing(u, b, idx)
    <3>1. ASSUME NEW o \in Worker \ {w} PROVE o \in Bringing(u, b, idx)' <=> o \in Bringing(u, b, idx)
      <4>1. pc'[o] = pc[o] /\ job'[o] = job[o] /\ bkt'[o] = bkt[o] /\ delta'[o] = delta[o]
        BY WriteFacts
      <4> QED BY <4>1 DEF Bringing
    <3> QED BY <3>1
  <2>2. w \in Bringing(u, b, idx) <=> u = job[w] /\ bkt[w] <= b /\ idx \in delta[w][b]
    BY <1>1 DEF Bringing
  <2>3. w \in Bringing(u, b, idx)' <=> u = job[w] /\ bkt[w] < b /\ idx \in delta[w][b]
    <3>1. b \in Nat /\ bkt[w] \in Nat /\ b <= Deterministic
      BY <1>1, LayoutFacts
    <3>2. w \in Bringing(u, b, idx)' <=>
            pc'[w] # "idle" /\ job'[w] = u /\ bkt'[w] <= b /\ idx \in delta'[w][b]
      BY DEF Bringing
    <3>3. CASE pc'[w] = "idle"
      <4>1. bkt[w] = Deterministic
        BY <3>3, WriteFacts
      <4>2. ~(bkt[w] < b)
        BY <3>1, <4>1
      <4> QED BY <3>2, <3>3, <4>2
    <3>4. CASE pc'[w] # "idle"
      <4>1. bkt'[w] = bkt[w] + 1 /\ job'[w] = job[w] /\ delta'[w] = delta[w]
        BY <3>4, WriteFacts
      <4> QED BY <3>1, <3>2, <3>4, <4>1
    <3> QED BY <3>3, <3>4
  <2>4. b \in Nat /\ bkt[w] \in Nat
    BY <1>1, LayoutFacts
  <2>5. /\ Bringing(u, b, idx)' \in SUBSET Worker /\ Bringing(u, b, idx) \in SUBSET Worker
        /\ Odd(Bringing(u, b, idx))' <=> Odd(Bringing(u, b, idx)')
    BY DEF Bringing, Odd
  <2>6. CASE u = job[w] /\ b = bkt[w] /\ idx \in delta[w][b]
    <3>1. w \in Bringing(u, b, idx) /\ w \notin Bringing(u, b, idx)'
      BY <2>2, <2>3, <2>4, <2>6
    <3>2. Bringing(u, b, idx)' = Bringing(u, b, idx) \ {w}
      BY <2>1, <2>5, <3>1
    <3>3. Odd(Bringing(u, b, idx) \ {w}) <=> ~Odd(Bringing(u, b, idx))
      BY <2>5, <3>1, OddFacts
    <3> QED BY <2>5, <2>6, <3>2, <3>3
  <2>7. CASE ~(u = job[w] /\ b = bkt[w] /\ idx \in delta[w][b])
    <3>1. w \in Bringing(u, b, idx) <=> w \in Bringing(u, b, idx)'
      BY <2>2, <2>3, <2>4, <2>7
    <3>2. Bringing(u, b, idx)' = Bringing(u, b, idx)
      BY <2>1, <2>5, <3>1
    <3> QED BY <2>5, <2>7, <3>2
  <2> QED BY <2>6, <2>7
<1>6. ASSUME NEW u \in Vertex, NEW b \in BucketId, NEW idx \in Index
      PROVE  ~(Held(u, b, idx)' <=> Odd(Bringing(u, b, idx))')
                 <=> Touches(idx, b)' /\ ~(Cutting(u, idx)' <=> Buffered(u, idx)')
  <2>1. ~(Held(u, b, idx) <=> Odd(Bringing(u, b, idx)))
           <=> Touches(idx, b) /\ ~(Cutting(u, idx) <=> Buffered(u, idx))
    BY SumInvTerms
  <2> QED BY <1>3, <1>4, <1>5, <2>1
<1> QED BY <1>6 DEF SumInv, Held, Cutting, Buffered

\* A step that moves no index from one place to another.
LEMMA SumKept ==
  ASSUME SumInv,
         \A v \in Vertex : sketch'[v].buckets = sketch[v].buckets,
         \A w \in Worker : pc'[w] = "idle" <=> pc[w] = "idle",
         UNCHANGED <<depth, l0, graph, pend, delta, job, bkt>>
  PROVE  SumInv'
<1>1. \A v \in Vertex : \A b \in BucketId : \A idx \in Index :
        /\ Held(v, b, idx)' <=> Held(v, b, idx)
        /\ Bringing(v, b, idx)' = Bringing(v, b, idx)
        /\ Touches(idx, b)' <=> Touches(idx, b)
        /\ Cutting(v, idx)' <=> Cutting(v, idx)
        /\ Buffered(v, idx)' <=> Buffered(v, idx)
  BY DEF Held, Bringing, Touches, Cutting, Indices, Cut, Buffered, EdgesTo
<1>2. ASSUME NEW v \in Vertex, NEW b \in BucketId, NEW idx \in Index
      PROVE  ~(Held(v, b, idx)' <=> Odd(Bringing(v, b, idx))')
                 <=> Touches(idx, b)' /\ ~(Cutting(v, idx)' <=> Buffered(v, idx)')
  <2>1. ~(Held(v, b, idx) <=> Odd(Bringing(v, b, idx)))
           <=> Touches(idx, b) /\ ~(Cutting(v, idx) <=> Buffered(v, idx))
    BY SumInvTerms
  <2>2. Odd(Bringing(v, b, idx))' <=> Odd(Bringing(v, b, idx))
    BY <1>1 DEF Odd
  <2> QED BY <1>1, <2>1, <2>2
<1> QED BY <1>2 DEF SumInv, Held, Cutting, Buffered

LEMMA SumNext == TypeOK /\ LockInv /\ SumInv /\ [Next]_vars => SumInv'
<1> SUFFICES ASSUME TypeOK, LockInv, SumInv, [Next]_vars PROVE SumInv'
  OBVIOUS
<1>1. TypeOK' /\ LockInv'
  BY TypeNext, LockNext
<1>2. ASSUME NEW e \in Edge, Insert(e) PROVE SumInv'
  BY <1>1, <1>2, SumInsert
<1>3. ASSUME NEW w \in Worker, WorkerStep(w) PROVE SumInv'
  <2>1. CASE Lock(w)
    BY <2>1, SumKept DEF Lock, TypeOK, hash_vars
  <2>2. CASE ReadBucket(w)
    BY <2>2, SumKept DEF ReadBucket, TypeOK, hash_vars
  <2> QED BY <1>3, <2>1, <2>2, SumBatch, SumWrite DEF WorkerStep
<1>4. CASE QueryStep
  BY <1>4, QueryKeeps, SumKept
<1>5. CASE UNCHANGED vars
  BY <1>5, SumKept DEF vars, hash_vars, worker_vars
<1> QED BY <1>2, <1>3, <1>4, <1>5 DEF Next

LEMMA SumInit == Init => SumInv
<1> SUFFICES ASSUME Init, NEW v \in Vertex, NEW b \in BucketId, NEW idx \in Index
             PROVE  /\ ~Held(v, b, idx) /\ ~Odd(Bringing(v, b, idx))
                    /\ ~Cutting(v, idx) /\ ~Buffered(v, idx)
  BY DEF SumInv, Held, Cutting, Buffered
<1>1. Bringing(v, b, idx) = {}
  BY DEF Init, Bringing
<1>2. Cardinality({}) = 0
  BY FS_EmptySet
<1>3. ~Odd(Bringing(v, b, idx))
  BY <1>1, <1>2 DEF Odd
<1>4. ~Held(v, b, idx)
  BY DEF Init, Held, Zero, NoBuckets
<1>5. ~Cutting(v, idx) /\ ~Buffered(v, idx)
  BY DEF Init, Cutting, Cut, Indices, Buffered, EdgesTo
<1> QED BY <1>3, <1>4, <1>5

\* When nothing is buffered and no worker runs, only the sketch holds the edges.
LEMMA FlushedSums == TypeOK /\ SumInv => SketchesAreSums
<1> SUFFICES ASSUME TypeOK, SumInv, Flushed, NEW v \in Vertex
             PROVE  sketch[v].buckets = Updated(Indices(Cut({v})))
  BY DEF SketchesAreSums
<1>1. sketch[v].buckets \in Buckets /\ Updated(Indices(Cut({v}))) \in Buckets
  <2>1. Indices(Cut({v})) \in SUBSET Index
    BY IndexOfEdge DEF Indices, Cut, TypeOK
  <2>2. sketch[v] \in SketchOf
    BY DEF TypeOK
  <2> QED BY <2>1, <2>2, BucketTypes, SketchTypes
<1>2. ASSUME NEW b \in BucketId, NEW idx \in Index
      PROVE  idx \in sketch[v].buckets[b] <=> idx \in Updated(Indices(Cut({v})))[b]
  <2>1. Bringing(v, b, idx) = {}
    BY DEF Bringing, Flushed
  <2>2. Cardinality({}) = 0
    BY FS_EmptySet
  <2>3. ~Odd(Bringing(v, b, idx))
    BY <2>1, <2>2 DEF Odd
  <2>4. ~Buffered(v, idx)
    BY DEF Flushed, Buffered, EdgesTo
  <2>5. Held(v, b, idx) <=> Touches(idx, b) /\ Cutting(v, idx)
    BY <2>3, <2>4, SumInvTerms
  <2> QED BY <2>5 DEF Held, Cutting, Updated
<1>3. ASSUME NEW b \in BucketId PROVE sketch[v].buckets[b] = Updated(Indices(Cut({v})))[b]
  <2>1. sketch[v].buckets[b] \subseteq Index /\ Updated(Indices(Cut({v})))[b] \subseteq Index
    BY <1>1 DEF Buckets
  <2> QED BY <1>2, <2>1
<1> QED BY <1>1, <1>3 DEF Buckets

\* Once the updates are flushed, every sketch is the sum of the edges of its
\* vertex, however the workers of apply_update_batch interleaved their merges.
THEOREM SketchesAlwaysSums == Spec => []SketchesAreSums
<1>1. Init => TypeOK /\ LockInv /\ SumInv
  BY TypeInit, LockInit, SumInit
<1>2. (TypeOK /\ LockInv /\ SumInv) /\ [Next]_vars => (TypeOK /\ LockInv /\ SumInv)'
  BY TypeNext, LockNext, SumNext
<1>3. TypeOK /\ LockInv /\ SumInv => SketchesAreSums
  BY FlushedSums
<1> QED BY <1>1, <1>2, <1>3, PTL DEF Spec


-----------------------------------------------------------------------------
(* Samples *)

\* The edges that leave a larger set: an edge inside it cancels.
LEMMA CutSum ==
  ASSUME TypeOK, NEW M \in SUBSET Vertex, NEW v \in Vertex, v \notin M
  PROVE  /\ Cut(M) \in SUBSET Edge /\ Cut({v}) \in SUBSET Edge
         /\ Cut(M \cup {v}) = Xor(Cut(M), Cut({v}))
<1>1. \A S : Cut(S) \in SUBSET Edge
  BY DEF Cut, TypeOK
<1>2. ASSUME NEW e \in Edge
      PROVE  e \in Cut(M \cup {v}) <=> ~(e \in Cut(M) <=> e \in Cut({v}))
  <2>1. e[1] # e[2]
    BY EdgeFacts, VertexFacts
  <2>2. \A S : e \in Cut(S) <=> e \in graph /\ ~(e[1] \in S <=> e[2] \in S)
    BY DEF Cut
  <2>3. \A x : x \in M \cup {v} <=> x \in M \/ x = v
    OBVIOUS
  <2>4. ~(e[1] = v /\ e[2] = v) /\ (e[1] = v => e[1] \notin M) /\ (e[2] = v => e[2] \notin M)
    BY <2>1
  <2>5. e[1] \in {v} <=> e[1] = v
    OBVIOUS
  <2>6. e[2] \in {v} <=> e[2] = v
    OBVIOUS
  <2> QED BY <2>2, <2>3, <2>4, <2>5, <2>6
<1>3. \A e \in Edge : e \in Xor(Cut(M), Cut({v})) <=> ~(e \in Cut(M) <=> e \in Cut({v}))
  BY XorMember
<1>4. Xor(Cut(M), Cut({v})) \in SUBSET Edge
  BY <1>1 DEF Xor
<1> QED BY <1>1, <1>2, <1>3, <1>4

\* Sketches are linear: the sketch of a sum is the sum of the sketches.
LEMMA UpdatedSum ==
  ASSUME NEW E \in SUBSET Edge, NEW F \in SUBSET Edge, NEW b \in BucketId
  PROVE  Updated(Indices(Xor(E, F)))[b] = Xor(Updated(Indices(E))[b], Updated(Indices(F))[b])
<1>1. Xor(E, F) \in SUBSET Edge
  BY DEF Xor
<1>2. \A I : Updated(I)[b] = {idx \in I : Touches(idx, b)}
  BY DEF Updated
<1>3. ASSUME NEW idx \in Index
      PROVE  idx \in Indices(Xor(E, F)) <=> ~(idx \in Indices(E) <=> idx \in Indices(F))
  <2>1. PICK e \in Edge : idx = ConcatPairingFn(e[1], e[2])
    BY DEF Index
  <2>2. idx \in Indices(E) <=> e \in E
    BY <2>1, IndicesMember
  <2>3. idx \in Indices(F) <=> e \in F
    BY <2>1, IndicesMember
  <2>4. idx \in Indices(Xor(E, F)) <=> e \in Xor(E, F)
    BY <1>1, <2>1, IndicesMember
  <2> QED BY <2>2, <2>3, <2>4, XorMember
<1>4. Indices(E) \subseteq Index /\ Indices(F) \subseteq Index /\ Indices(Xor(E, F)) \subseteq Index
  BY <1>1, IndicesMember
<1>5. ASSUME NEW idx
      PROVE  idx \in Updated(Indices(Xor(E, F)))[b]
               <=> idx \in Xor(Updated(Indices(E))[b], Updated(Indices(F))[b])
  <2>1. idx \in Xor(Updated(Indices(E))[b], Updated(Indices(F))[b])
          <=> ~(idx \in Updated(Indices(E))[b] <=> idx \in Updated(Indices(F))[b])
    BY XorMember
  <2>2. CASE idx \in Index
    BY <1>2, <1>3, <2>1, <2>2
  <2>3. CASE idx \notin Index
    BY <1>2, <1>4, <2>1, <2>3
  <2> QED BY <2>2, <2>3
<1> QED BY <1>5

\* The deterministic bucket holds every index.
LEMMA UpdatedFacts ==
  /\ \A I : Updated(I)[Deterministic] = I
  /\ \A I : \A b \in BucketId : Updated(I)[b] \subseteq I
  /\ \A b \in BucketId : Updated(Indices({}))[b] = {}
  BY LayoutFacts DEF Updated, Touches, Indices

LEMMA CutCardinality ==
  ASSUME TypeOK, NEW S, Indices(Cut(S)) # {}, Cardinality(Indices(Cut(S))) # 1
  PROVE  Cardinality(Cut(S)) > 1
<1>1. Cut(S) \in SUBSET Edge
  BY DEF Cut, TypeOK
<1>2. IsFiniteSet(Cut(S))
  <2>1. IsFiniteSet(Vertex)
    BY VertexFacts, FS_Interval DEF Vertex
  <2>2. IsFiniteSet(Vertex \X Vertex)
    BY <2>1, FS_Product
  <2>3. Cut(S) \subseteq Vertex \X Vertex
    BY <1>1 DEF Edge
  <2> QED BY <2>2, <2>3, FS_Subset
<1>3. Cardinality(Cut(S)) \in Nat
  BY <1>2, FS_CardinalityType
<1>4. Cut(S) # {}
  BY DEF Indices
<1>5. Cardinality(Cut(S)) # 0
  BY <1>2, <1>4, FS_EmptySet
<1>6. ASSUME Cardinality(Cut(S)) = 1 PROVE FALSE
  <2>1. PICK e : Cut(S) = {e}
    BY <1>2, <1>6, FS_Singleton
  <2>2. Indices(Cut(S)) = {ConcatPairingFn(e[1], e[2])}
    BY <2>1 DEF Indices
  <2> QED BY <2>2, FS_Singleton
<1> QED BY <1>3, <1>5, <1>6

\* A sketch that holds the cut of S in the buckets it reads samples that cut.
LEMMA OutcomeRight ==
  ASSUME TypeOK, NEW s \in SketchOf, NEW S \in SUBSET Vertex, NEW x \in BOOLEAN,
         s.sample_idx < NumSamples =>
           \A b \in SampleBuckets(s.sample_idx, 1) \cup {Deterministic} :
             s.buckets[b] = Updated(Indices(Cut(S)))[b]
  PROVE  LET o == Outcome(s, x)
         IN  /\ o.kind = "ZERO" => Cut(S) = {}
             /\ o.kind = "GOOD" =>
                  o.idxs # {} /\ \A idx \in o.idxs : InvConcatPairingFn(idx) \in Cut(S)
             /\ o.kind = "FAIL" =>
                  /\ Cardinality(Cut(S)) > 1
                  /\ \A b \in SampleBuckets(s.sample_idx, 1) :
                       Cardinality(Updated(Indices(Cut(S)))[b]) # 1
<1> DEFINE o == Outcome(s, x)
           I == Indices(Cut(S))
<1>1. s.sample_idx \in Nat /\ NumSamples \in Nat
  BY LayoutFacts DEF SketchOf
<1>2. CASE s.sample_idx >= NumSamples
  <2>1. o.kind = "throw"
    BY <1>2 DEF Outcome
  <2> QED BY <2>1
<1>3. CASE ~(s.sample_idx >= NumSamples)
  <2>1. \A b \in SampleBuckets(s.sample_idx, 1) \cup {Deterministic} : s.buckets[b] = Updated(I)[b]
    BY <1>1, <1>3
  <2>2. /\ SampleBuckets(s.sample_idx, 1) \subseteq BucketId
        /\ GoodBuckets(s) \subseteq SampleBuckets(s.sample_idx, 1)
        /\ GoodBuckets(s) # {} => Min(GoodBuckets(s)) \in GoodBuckets(s)
    BY <1>1, <1>3, LayoutFacts, GoodBucketsFacts
  <2>3. s.buckets[Deterministic] = I
    BY <2>1, UpdatedFacts
  <2>4. Cut(S) \in SUBSET Edge
    BY DEF Cut, TypeOK
  <2>5. \A idx \in I : InvConcatPairingFn(idx) \in Cut(S)
    BY <2>4, IndicesMember
  <2>6. \A b \in GoodBuckets(s) : s.buckets[b] # {} /\ s.buckets[b] \subseteq I
    <3>1. ASSUME NEW b \in GoodBuckets(s) PROVE s.buckets[b] # {} /\ s.buckets[b] \subseteq I
      <4>1. Cardinality(s.buckets[b]) = 1
        BY DEF GoodBuckets, IsGood
      <4>2. s.buckets[b] # {}
        BY <4>1, FS_EmptySet
      <4>3. s.buckets[b] = Updated(I)[b] /\ b \in BucketId
        BY <2>1, <2>2
      <4> QED BY <4>2, <4>3, UpdatedFacts
    <3> QED BY <3>1
  <2>7. CASE s.buckets[Deterministic] = {}
    <3>1. o.kind = "ZERO"
      BY <1>3, <2>7 DEF Outcome
    <3>2. Cut(S) = {}
      BY <2>3, <2>7 DEF Indices
    <3> QED BY <3>1, <3>2
  <2>8. CASE s.buckets[Deterministic] # {} /\ IsGood(s, Deterministic)
    <3>1. o.kind = "GOOD" /\ o.idxs = I
      BY <1>3, <2>3, <2>8 DEF Outcome
    <3> QED BY <2>3, <2>5, <2>8, <3>1
  <2>9. CASE s.buckets[Deterministic] # {} /\ ~IsGood(s, Deterministic) /\ GoodBuckets(s) = {}
    <3>1. o.kind = "FAIL"
      BY <1>3, <2>9 DEF Outcome
    <3>2. Cardinality(Cut(S)) > 1
      BY <2>3, <2>9, CutCardinality DEF IsGood
    <3>3. ASSUME NEW b \in SampleBuckets(s.sample_idx, 1) PROVE Cardinality(Updated(I)[b]) # 1
      <4>1. Cardinality(s.buckets[b]) # 1
        BY <2>9 DEF GoodBuckets, IsGood
      <4> QED BY <2>1, <4>1
    <3> QED BY <3>1, <3>2, <3>3
  <2>10. CASE s.buckets[Deterministic] # {} /\ ~IsGood(s, Deterministic) /\ GoodBuckets(s) # {}
    <3>1. /\ o.kind = "GOOD"
          /\ o.idxs = IF x THEN UNION {s.buckets[b] : b \in GoodBuckets(s)}
                      ELSE s.buckets[Min(GoodBuckets(s))]
      BY <1>3, <2>10 DEF Outcome
    <3>2. CASE x
      <4>1. o.idxs = UNION {s.buckets[b] : b \in GoodBuckets(s)}
        BY <3>1, <3>2
      <4>2. o.idxs # {} /\ o.idxs \subseteq I
        BY <2>6, <2>10, <4>1
      <4> QED BY <2>5, <3>1, <4>2
    <3>3. CASE ~x
      <4>1. o.idxs = s.buckets[Min(GoodBuckets(s))]
        BY <3>1, <3>3
      <4>2. o.idxs # {} /\ o.idxs \subseteq I
        BY <2>2, <2>6, <2>10, <4>1
      <4> QED BY <2>5, <3>1, <4>2
    <3> QED BY <3>2, <3>3
  <2> QED BY <2>7, <2>8, <2>9, <2>10
<1> QED BY <1>2, <1>3

\* range_merge adds the cut of v to the sum, in the buckets of the round.
LEMMA MergeRight ==
  ASSUME TypeOK, SumInv, QueryInv, NEW v \in Vertex, querying, round > 0, v \notin members
  PROVE  LET sum == RangeMerge(acc, sketch[v], round)
         IN  /\ sum.sample_idx = round
             /\ round < NumSamples => \A b \in SampleBuckets(round, 1) \cup {Deterministic} :
                  sum.buckets[b] = Updated(Indices(Cut(members \cup {v})))[b]
<1> DEFINE sum == RangeMerge(acc, sketch[v], round)
<1>1. round \in Nat /\ round <= NumSamples /\ NumSamples \in Nat /\ acc \in SketchOf
  BY LayoutFacts DEF TypeOK
<1>2. sketch[v].buckets = Updated(Indices(Cut({v})))
  BY FlushedSums DEF QueryInv, SketchesAreSums
<1>3. acc.sample_idx \in Nat /\ acc.sample_idx <= round
  <2>1. CASE members = {}
    BY <1>1, <2>1 DEF QueryInv, Zero
  <2>2. CASE members # {}
    BY <1>1, <2>2 DEF QueryInv
  <2> QED BY <2>1, <2>2
<1>4. CASE ~(round < NumSamples)
  <2>1. round = NumSamples /\ round + 1 > NumSamples
    BY <1>1, <1>4
  <2>2. sum.sample_idx = NumSamples
    BY <1>1, <2>1 DEF RangeMerge, SketchOf
  <2> QED BY <1>4, <2>1, <2>2
<1>5. CASE round < NumSamples
  <2>1. ~(round + 1 > NumSamples)
    BY <1>1, <1>5
  <2>2. sum.sample_idx = round
    <3>1. FirstSample(acc, round) = round
      <4>1. FirstSample(acc, round) = IF acc.sample_idx < round THEN round ELSE acc.sample_idx
        BY <1>1, <1>3, MinMaxPair DEF FirstSample
      <4> QED BY <1>1, <1>3, <4>1
    <3> QED BY <2>1, <3>1 DEF RangeMerge
  <2>3. SampleBuckets(round, 1) \cup {Deterministic} \subseteq BucketId
    BY <1>1, <1>5, LayoutFacts
  <2>4. ASSUME NEW b \in SampleBuckets(round, 1) \cup {Deterministic}
        PROVE  acc.buckets[b] = Updated(Indices(Cut(members)))[b]
    <3>1. CASE members = {}
      <4>1. Cut(members) = {}
        BY <3>1 DEF Cut
      <4>2. acc.buckets[b] = {}
        BY <2>3, <3>1 DEF QueryInv, Zero, NoBuckets
      <4> QED BY <2>3, <4>1, <4>2, UpdatedFacts
    <3>2. CASE members # {}
      BY <1>5, <3>2 DEF QueryInv
    <3> QED BY <3>1, <3>2
  <2>5. ASSUME NEW b \in SampleBuckets(round, 1) \cup {Deterministic}
        PROVE  sum.buckets[b] = Updated(Indices(Cut(members \cup {v})))[b]
    <3>1. b \in BucketId
      BY <2>3
    <3>2. sum.buckets[b] = Xor(acc.buckets[b], sketch[v].buckets[b])
      BY <2>1, <3>1 DEF RangeMerge
    <3>3. /\ members \in SUBSET Vertex /\ Cut(members) \in SUBSET Edge /\ Cut({v}) \in SUBSET Edge
          /\ Cut(members \cup {v}) = Xor(Cut(members), Cut({v}))
      BY CutSum DEF TypeOK
    <3>4. Updated(Indices(Xor(Cut(members), Cut({v}))))[b]
            = Xor(Updated(Indices(Cut(members)))[b], Updated(Indices(Cut({v})))[b])
      BY <3>1, <3>3, UpdatedSum
    <3> QED BY <1>2, <2>4, <3>2, <3>3, <3>4
  <2> QED BY <2>2, <2>5
<1> QED BY <1>4, <1>5

\* A query sees the graph it flushed: nothing but its own steps happens meanwhile.
LEMMA NothingElse ==
  ASSUME TypeOK, QueryInv, Next, ~QueryStep
  PROVE  ~querying /\ ~querying' /\ UNCHANGED query_vars
<1>1. ASSUME NEW e \in Edge, Insert(e) PROVE ~querying /\ UNCHANGED query_vars
  BY <1>1 DEF Insert
<1>2. ASSUME NEW w \in Worker, WorkerStep(w) PROVE ~querying /\ UNCHANGED query_vars
  <2>1. ASSUME NEW v \in Vertex, NEW D \in SUBSET pend[v], ApplyUpdateBatch(w, v, D)
        PROVE  ~querying /\ UNCHANGED query_vars
    BY <2>1 DEF ApplyUpdateBatch
  <2>2. CASE Lock(w) \/ ReadBucket(w) \/ WriteBucket(w)
    <3>1. pc[w] # "idle" /\ UNCHANGED query_vars
      BY <2>2 DEF Lock, ReadBucket, WriteBucket
    <3> QED BY <3>1 DEF QueryInv, Flushed
  <2> QED BY <1>2, <2>1, <2>2 DEF WorkerStep
<1>3. ~querying /\ UNCHANGED query_vars
  BY <1>1, <1>2 DEF Next
<1> QED BY <1>3 DEF query_vars

LEMMA QueryInit == Init => QueryInv /\ SampleRight
<1> SUFFICES ASSUME Init PROVE QueryInv /\ SampleRight
  OBVIOUS
<1>1. ~querying /\ round = 0 /\ acc = Zero /\ members = {} /\ result = NoResult
  BY DEF Init
<1>2. QueryInv
  BY <1>1 DEF QueryInv
<1>3. result.kind = "none"
  BY <1>1 DEF NoResult
<1>4. SampleRight
  BY <1>3 DEF SampleRight
<1> QED BY <1>2, <1>4

LEMMA QueryNext ==
  ASSUME TypeOK, LockInv, SumInv, QueryInv, [Next]_vars
  PROVE  QueryInv'
<1>1. CASE UNCHANGED vars
  <2>1. UNCHANGED <<depth, l0, graph, pend, pc, querying, round, acc, members, result>>
    BY <1>1 DEF vars, hash_vars, worker_vars, query_vars
  <2>2. Updated(Indices(Cut(members)))' = Updated(Indices(Cut(members)))
    BY <2>1 DEF Updated, Touches, Indices, Cut
  <2>3. Flushed' <=> Flushed
    BY <2>1 DEF Flushed
  <2> QED BY <2>1, <2>2, <2>3 DEF QueryInv
<1>2. CASE Next /\ ~QueryStep
  <2>1. ~querying' /\ round' = 0 /\ members' = {} /\ result' = NoResult /\ acc' = Zero
    BY <1>2, NothingElse DEF QueryInv, query_vars
  <2> QED BY <2>1 DEF QueryInv
<1>3. CASE QueryStep
  <2>1. UNCHANGED <<pend, pc, graph, depth, l0>>
    BY <1>3, QueryKeeps
  <2>2. Flushed' <=> Flushed
    BY <2>1 DEF Flushed
  <2>3. CASE BeginQuery
    BY <2>2, <2>3 DEF BeginQuery, QueryInv
  <2>4. CASE NextRound
    BY <2>2, <2>4 DEF NextRound, QueryInv
  <2>5. CASE ResetSampleState
    BY <2>5 DEF ResetSampleState, QueryInv
  <2>6. CASE Reload
    BY <2>6 DEF Reload, QueryInv
  <2>7. ASSUME NEW x \in BOOLEAN, SampleSum(x) PROVE QueryInv'
    BY <2>2, <2>7 DEF SampleSum, QueryInv
  <2>8. ASSUME NEW x \in BOOLEAN, NEW v \in Vertex, SampleVertex(v, x) PROVE QueryInv'
    <3>1. members = {}
      BY <2>8 DEF SampleVertex, QueryInv
    <3> QED BY <2>2, <2>8, <3>1 DEF SampleVertex, QueryInv
  <2>9. ASSUME NEW v \in Vertex, RangeMergeVertex(v) PROVE QueryInv'
    <3>1. /\ querying /\ round > 0 /\ v \notin members
          /\ acc' = RangeMerge(acc, sketch[v], round) /\ members' = members \cup {v}
          /\ UNCHANGED <<querying, round, result>>
      BY <2>9 DEF RangeMergeVertex
    <3>2. Updated(Indices(Cut(members)))' = Updated(Indices(Cut(members')))
      BY <2>1 DEF Updated, Touches, Indices, Cut
    <3>3. /\ acc'.sample_idx = round
          /\ round < NumSamples => \A b \in SampleBuckets(round, 1) \cup {Deterministic} :
               acc'.buckets[b] = Updated(Indices(Cut(members')))[b]
      BY <3>1, MergeRight
    <3>4. querying' /\ Flushed' /\ members' # {} /\ round' = round
      BY <2>2, <3>1 DEF QueryInv
    <3> QED BY <3>1, <3>2, <3>3, <3>4 DEF QueryInv
  <2> QED BY <1>3, <2>3, <2>4, <2>5, <2>6, <2>7, <2>8, <2>9 DEF QueryStep
<1> QED BY <1>1, <1>2, <1>3

\* The result of a sample is that of a sketch that holds the cut.
LEMMA SampledRight ==
  ASSUME TypeOK, NEW s \in SketchOf, NEW S \in SUBSET Vertex, NEW x \in BOOLEAN, Sampled(s, S, x),
         UNCHANGED <<depth, l0, graph, round>>,
         s.sample_idx < NumSamples =>
           \A b \in SampleBuckets(s.sample_idx, 1) \cup {Deterministic} :
             s.buckets[b] = Updated(Indices(Cut(S)))[b],
         round > 0 => s.sample_idx = round
  PROVE  SampleRight'
<1> DEFINE o == Outcome(s, x)
<1>1. result' = [kind |-> o.kind, idxs |-> o.idxs, of |-> S, at |-> s.sample_idx]
  BY DEF Sampled
<1>2. Cut(result.of)' = Cut(S)
  BY <1>1 DEF Cut
<1>3. Updated(Indices(Cut(result.of)))' = Updated(Indices(Cut(S)))
  BY <1>2 DEF Updated, Touches, Indices
<1>4. result'.kind = o.kind /\ result'.idxs = o.idxs /\ result'.at = s.sample_idx
  BY <1>1
<1>5. /\ o.kind = "ZERO" => Cut(S) = {}
      /\ o.kind = "GOOD" => o.idxs # {} /\ \A idx \in o.idxs : InvConcatPairingFn(idx) \in Cut(S)
      /\ o.kind = "FAIL" => /\ Cardinality(Cut(S)) > 1
                            /\ \A b \in SampleBuckets(s.sample_idx, 1) :
                                 Cardinality(Updated(Indices(Cut(S)))[b]) # 1
  BY OutcomeRight
<1> HIDE DEF o
<1> QED BY <1>2, <1>3, <1>4, <1>5 DEF SampleRight

LEMMA SampleNext ==
  ASSUME TypeOK, LockInv, SumInv, QueryInv, SampleRight, [Next]_vars
  PROVE  SampleRight'
<1>1. ASSUME UNCHANGED <<depth, l0, graph, round, result>> PROVE SampleRight'
  BY <1>1 DEF SampleRight, Updated, Touches, Indices, Cut
<1>2. ASSUME result' = NoResult PROVE SampleRight'
  <2>1. result'.kind = "none"
    BY <1>2 DEF NoResult
  <2> QED BY <2>1 DEF SampleRight
<1>3. CASE UNCHANGED vars
  BY <1>1, <1>3 DEF vars, hash_vars, query_vars
<1>4. CASE Next /\ ~QueryStep
  <2>1. result' = NoResult
    BY <1>4, NothingElse DEF QueryInv, query_vars
  <2> QED BY <1>2, <2>1
<1>5. CASE QueryStep
  <2>1. CASE BeginQuery
    BY <1>1, <2>1 DEF BeginQuery, hash_vars
  <2>2. CASE NextRound \/ ResetSampleState \/ Reload
    BY <1>2, <2>2 DEF NextRound, ResetSampleState, Reload
  <2>3. ASSUME NEW v \in Vertex, RangeMergeVertex(v) PROVE SampleRight'
    BY <1>1, <2>3 DEF RangeMergeVertex, hash_vars
  <2>4. ASSUME NEW x \in BOOLEAN, SampleSum(x) PROVE SampleRight'
    <3>1. /\ Sampled(acc, members, x) /\ members # {}
          /\ UNCHANGED <<depth, l0, graph, round>>
      BY <2>4 DEF SampleSum, hash_vars
    <3>2. acc \in SketchOf /\ members \in SUBSET Vertex
      BY DEF TypeOK
    <3>3. /\ acc.sample_idx = round
          /\ round < NumSamples => \A b \in SampleBuckets(round, 1) \cup {Deterministic} :
               acc.buckets[b] = Updated(Indices(Cut(members)))[b]
      BY <3>1 DEF QueryInv
    <3> QED BY <3>1, <3>2, <3>3, SampledRight
  <2>5. ASSUME NEW x \in BOOLEAN, NEW v \in Vertex, SampleVertex(v, x) PROVE SampleRight'
    <3>1. /\ Sampled(sketch[v], {v}, x) /\ querying /\ round = 0
          /\ UNCHANGED <<depth, l0, graph, round>>
      BY <2>5 DEF SampleVertex, hash_vars
    <3>2. sketch[v] \in SketchOf /\ {v} \in SUBSET Vertex /\ ~(round > 0)
      BY <3>1 DEF TypeOK
    <3>3. sketch[v].buckets = Updated(Indices(Cut({v})))
      BY <3>1, FlushedSums DEF QueryInv, SketchesAreSums
    <3> QED BY <3>1, <3>2, <3>3, SampledRight
  <2> QED BY <1>5, <2>1, <2>2, <2>3, <2>4, <2>5 DEF QueryStep
<1> QED BY <1>3, <1>4, <1>5

\* Buckets, delta sketches, gutters and the sum of a running query account for
\* the graph in every state, whichever bucket a worker is about to write.
THEOREM Invariance == Spec => []SketchInv
<1>1. Init => SketchInv
  BY TypeInit, LockInit, SumInit, QueryInit DEF SketchInv
<1>2. SketchInv /\ [Next]_vars => SketchInv'
  BY TypeNext, LockNext, SumNext, QueryNext, SampleNext DEF SketchInv
<1> QED BY <1>1, <1>2, PTL DEF Spec

\* In every round of a query, sample and exhaustive_sample say the truth about
\* the edges that leave a vertex or a sum of vertices: ZERO means none, GOOD
\* returns such edges, and FAIL means that no bucket of the round isolates one.
THEOREM SamplesAlwaysRight == Spec => []SampleRight
<1>1. SketchInv => SampleRight
  BY DEF SketchInv
<1> QED BY <1>1, Invariance, PTL

=============================================================================
