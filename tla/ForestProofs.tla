---------------------------- MODULE ForestProofs ----------------------------
(***************************************************************************)
(* More theorems about CCSketchAlg, which count: every query starts with   *)
(* unused samples, the spanning forest has no cycle, and supernodes double *)
(* from round to round.                                                    *)
(***************************************************************************)
EXTENDS CCSketchAlgProofs, FiniteSetTheorems

-----------------------------------------------------------------------------
(* Samples *)

LEMMA FreshStep ==
  ASSUME TypeOK, ControlInv, SamplesFresh, [Next]_vars
  PROVE  SamplesFresh'
<1> USE DEF SamplesFresh, dsu_vars, flag_vars, query_vars
<1>1. CASE UNCHANGED sample_idx /\ (upc' # "boruvka" => upc # "boruvka")
  BY <1>1
<1>2. ASSUME NEW t \in Thread, StreamStep(t) PROVE SamplesFresh'
  <2>1. UNCHANGED <<sample_idx, upc>>
    BY <1>2 DEF StreamStep, PreInsertValid, PreInsertInvalid, Lock, Merge, Record,
       LookupMiss, LookupHit, InvalidateShared
  <2> QED BY <2>1, <1>1
<1>3. CASE WorkerStep
  <2>1. UNCHANGED sample_idx /\ (upc' # upc => upc # "boruvka")
    <3>1. ASSUME NEW v \in Vertex, ApplyUpdateLocked(v) PROVE pend # Empty
      BY <3>1 DEF ApplyUpdateLocked, Empty
    <3> QED BY <1>3, <3>1 DEF WorkerStep, ApplyUpdateBatch, ApplyUpdateLocked, ControlInv
  <2> QED BY <2>1
<1>4. CASE UserStep
  <2>1. UNCHANGED sample_idx /\ upc # "boruvka"
    BY <1>4 DEF UserStep, ProcessStreamUntil, Breakpoint, PrepQueryCached, PrepQuery,
       ConnectedComponents, PointQuery, BoruvkaStart, WriteBinary, Reheat, Update, UserGoto
  <2> QED BY <2>1, <1>1
<1>5. CASE QueryStep
  <2>1. CASE SampleStep \/ NextRound
    BY <2>1 DEF SampleStep, SampleZero, SampleGood, SampleFail, Sampled, NextRound
  <2>2. CASE BoruvkaDone \/ OutOfSamples
    BY <2>2 DEF BoruvkaDone, OutOfSamples, ResetSampleState
  <2> QED BY <1>5, <2>1, <2>2 DEF QueryStep
<1>6. CASE UNCHANGED vars
  BY <1>1, <1>6 DEF vars
<1> QED BY <1>2, <1>3, <1>4, <1>5, <1>6 DEF Next

\* A query starts with unused samples, also after one that threw.
THEOREM SamplesAlwaysFresh == Spec => []SamplesFresh
<1>1. Init => SamplesFresh
  BY DEF Init, SamplesFresh
<1>2. TypeOK /\ ControlInv /\ SamplesFresh /\ [Next]_vars => SamplesFresh'
  BY FreshStep
<1> QED BY <1>1, <1>2, TypeInvariant, ControlInvariant, PTL DEF Spec

-----------------------------------------------------------------------------
(* The spanning forest *)

Comps == {comp[v] : v \in Vertex}

\* The forest, recorded or about to be, connects the components of the DSU, and
\* has as many edges as a forest: at every moment, whether the DSU is valid.
ForestInv ==
  /\ Inside(comp, Forest)
  /\ Spans(comp, Forest)
  /\ Cardinality(Forest) + Cardinality(Comps) = N

LEMMA VertexFinite == IsFiniteSet(Vertex) /\ Cardinality(Vertex) = N
<1>1. 0 \in Int /\ N - 1 \in Int /\ (0 > N - 1 <=> FALSE) /\ N - 1 - 0 + 1 = N
  BY NAssumption
<1>2. IsFiniteSet(0 .. N - 1) /\ Cardinality(0 .. N - 1) = N - 1 - 0 + 1
  BY <1>1, FS_Interval
<1> QED BY <1>1, <1>2 DEF Vertex

LEMMA EdgeFinite == IsFiniteSet(Edge)
<1>1. IsFiniteSet(Vertex \X Vertex)
  BY VertexFinite, FS_Product
<1>2. Edge \subseteq Vertex \X Vertex
  BY DEF Edge
<1> QED BY <1>1, <1>2, FS_Subset

LEMMA ForestFinite ==
  ASSUME TypeOK, ThreadInv
  PROVE  Forest \subseteq Edge /\ IsFiniteSet(Forest) /\ Cardinality(Forest) \in Nat
<1>1. Forest \subseteq Edge
  BY DEF Forest, Recorded, TypeOK, ThreadInv
<1> QED BY <1>1, EdgeFinite, FS_Subset, FS_CardinalityType

LEMMA CompsFinite ==
  ASSUME TypeOK
  PROVE  IsFiniteSet(Comps) /\ Cardinality(Comps) \in Nat
<1>1. IsFiniteSet(SUBSET Vertex)
  BY VertexFinite, FS_SUBSET
<1>2. Comps \subseteq SUBSET Vertex
  BY DEF Comps, TypeOK
<1> QED BY <1>1, <1>2, FS_Subset, FS_CardinalityType

\* As many components as vertices when every vertex is alone.
LEMMA SingletonComps == Cardinality({Singletons[v] : v \in Vertex}) = N
<1> DEFINE C == {Singletons[v] : v \in Vertex}
<1>1. Singletons \in Bijection(Vertex, C)
  BY DEF Singletons, Bijection, Injection, Surjection, IsInjective
<1>2. Cardinality(C) = Cardinality(Vertex)
  BY <1>1, VertexFinite, FS_Bijection DEF ExistsBijection
<1> QED BY <1>2, VertexFinite

\* dsu.merge of an edge between two components makes one of them.
LEMMA MergeCounts ==
  ASSUME TypeOK, PartitionInv, NEW e \in Edge, DsuMerge(e), ~SameComp(e)
  PROVE  Cardinality(Comps') = Cardinality(Comps) - 1
<1> DEFINE A == comp[e[1]]
           B == comp[e[2]]
           Rest == (Comps \ {A}) \ {B}
<1>1. comp' = [v \in Vertex |-> IF v \in A \cup B THEN A \cup B ELSE comp[v]]
  BY DEF DsuMerge
<1>2. e[1] \in Vertex /\ e[2] \in Vertex /\ A # B
  BY EdgeFacts DEF SameComp
<1>3. \A v \in Vertex : v \in A <=> comp[v] = A
  BY <1>2 DEF PartitionInv
<1>4. \A v \in Vertex : v \in B <=> comp[v] = B
  BY <1>2 DEF PartitionInv
<1>5. Comps' = Rest \cup {A \cup B}
  <2>1. ASSUME NEW v \in Vertex PROVE comp'[v] \in Rest \cup {A \cup B}
    BY <1>1, <1>3, <1>4 DEF Comps
  <2>2. ASSUME NEW v \in Vertex, comp[v] # A, comp[v] # B PROVE comp[v] \in Comps'
    BY <1>1, <1>3, <1>4, <2>2 DEF Comps
  <2>3. A \cup B \in Comps'
    BY <1>1, <1>2, <1>3 DEF Comps
  <2> QED BY <2>1, <2>2, <2>3 DEF Comps
<1>6. A \cup B \notin Rest
  <2> SUFFICES ASSUME NEW z \in Vertex, comp[z] = A \cup B, comp[z] # A PROVE FALSE
    BY DEF Comps
  <2>1. e[1] \in comp[z]
    BY <1>2 DEF PartitionInv
  <2> QED BY <2>1, <1>2 DEF PartitionInv
<1>7. A \in Comps /\ B \in Comps \ {A}
  BY <1>2 DEF Comps
<1>8. IsFiniteSet(Comps) /\ Cardinality(Comps) \in Nat
  BY CompsFinite
<1>9. IsFiniteSet(Comps \ {A}) /\ Cardinality(Comps \ {A}) = Cardinality(Comps) - 1
  BY <1>7, <1>8, FS_RemoveElement
<1>10. IsFiniteSet(Rest) /\ Cardinality(Rest) = Cardinality(Comps) - 1 - 1
  BY <1>7, <1>9, FS_RemoveElement
<1>11. Cardinality(Comps') = Cardinality(Rest) + 1
  <2> HIDE DEF Rest, A, B
  <2> QED BY <1>5, <1>6, <1>10, FS_AddElement
<1> QED BY <1>8, <1>10, <1>11

LEMMA MergeForest ==
  ASSUME TypeOK, ThreadInv, PartitionInv, ForestInv, NEW e \in Edge, DsuMerge(e),
         ~SameComp(e), Forest' = Forest \cup {e}
  PROVE  ForestInv'
<1>1. Inside(comp', Forest') /\ Spans(comp', Forest')
  BY ForestFinite, MergeInside, MergeSpans DEF ForestInv
<1>2. e \notin Forest
  BY DEF ForestInv, Inside, SameComp
<1>3. Cardinality(Forest') = Cardinality(Forest) + 1 /\ Cardinality(Forest) \in Nat
  BY <1>2, ForestFinite, FS_AddElement
<1>4. Cardinality(Comps') = Cardinality(Comps) - 1 /\ Cardinality(Comps) \in Nat
  BY MergeCounts, CompsFinite
<1>5. Cardinality(Forest') + Cardinality(Comps') = N
  BY <1>3, <1>4, NAssumption DEF ForestInv
<1> QED BY <1>1, <1>5 DEF ForestInv

LEMMA ForestUnchanged ==
  ASSUME ForestInv, comp' = comp, Forest' = Forest
  PROVE  ForestInv'
  BY DEF ForestInv, Comps

LEMMA FreshForest ==
  ASSUME comp' = Singletons, Forest' = {}
  PROVE  ForestInv'
<1>1. Inside(comp', Forest') /\ Spans(comp', Forest')
  BY DEF Inside, Spans, Singletons
<1>2. Cardinality(Comps') = N
  BY SingletonComps DEF Comps
<1>3. Cardinality(Forest') = 0
  BY FS_EmptySet
<1> QED BY <1>1, <1>2, <1>3, NAssumption DEF ForestInv

\* merge and the recording of its edge are two steps of a stream thread, and
\* other threads run between them.
LEMMA ForestStream ==
  ASSUME TypeOK, ThreadInv, PartitionInv, ForestInv, NEW t \in Thread, StreamStep(t)
  PROVE  ForestInv'
<1> USE DEF dsu_vars, flag_vars, query_vars
<1>1. CASE Merge(t)
  <2> DEFINE e == cur[t]
  <2>1. e \in Edge /\ DsuMerge(e) /\ sf' = sf
    BY <1>1 DEF Merge, ThreadInv
  <2>2. /\ spc[t] = "merge" /\ cur' = cur
        /\ spc'[t] = IF SameComp(e) THEN "lookup" ELSE "record"
        /\ \A o \in Thread : o # t => spc'[o] = spc[o]
    BY <1>1 DEF Merge, TypeOK
  <2>3. CASE SameComp(e)
    <3>1. Recorded' = Recorded
      BY <2>2, <2>3 DEF Recorded
    <3> QED BY <2>1, <2>3, <3>1, MergeSame, ForestUnchanged DEF Forest
  <2>4. CASE ~SameComp(e)
    <3>1. Recorded' = Recorded \cup {e}
      BY <2>2, <2>4 DEF Recorded
    <3>2. Forest' = Forest \cup {e}
      BY <2>1, <3>1 DEF Forest
    <3> QED BY <2>1, <2>4, <3>2, MergeForest
  <2> QED BY <2>3, <2>4
<1>2. CASE Record(t)
  <2>1. /\ spc[t] = "record" /\ spc'[t] = "idle" /\ sf' = sf \cup {cur[t]} /\ comp' = comp
        /\ \A o \in Thread : o # t => spc'[o] = spc[o] /\ cur'[o] = cur[o]
    BY <1>2 DEF Record, GtsInsert, TypeOK
  <2>2. cur[t] \in Recorded /\ Recorded' \subseteq Recorded
    BY <2>1 DEF Recorded
  <2>3. \A d \in Recorded : d = cur[t] \/ d \in Recorded'
    BY <2>1 DEF Recorded
  <2>4. Forest' = Forest
    BY <2>1, <2>2, <2>3 DEF Forest
  <2> QED BY <2>1, <2>4, ForestUnchanged
<1>3. CASE ~Merge(t) /\ ~Record(t)
  <2>1. /\ spc[t] # "record" /\ spc'[t] # "record" /\ UNCHANGED <<comp, sf>>
        /\ \A o \in Thread : o # t => spc'[o] = spc[o] /\ cur'[o] = cur[o]
    BY <1>3 DEF StreamStep, PreInsertValid, PreInsertInvalid, Lock, LookupMiss, LookupHit,
       InvalidateShared, GtsInsert, TypeOK
  <2>2. Recorded' = Recorded
    BY <2>1 DEF Recorded
  <2> QED BY <2>1, <2>2, ForestUnchanged DEF Forest
<1> QED BY <1>1, <1>2, <1>3

LEMMA ForestUser ==
  ASSUME TypeOK, ThreadInv, PartitionInv, ForestInv, UserStep \/ QueryStep
  PROVE  ForestInv'
<1> USE DEF dsu_vars, flag_vars, query_vars
<1>1. UNCHANGED <<spc, cur>>
  BY DEF UserStep, ProcessStreamUntil, Breakpoint, PrepQueryCached, PrepQuery,
     ConnectedComponents, PointQuery, BoruvkaStart, WriteBinary, Reheat, Update,
     QueryStep, SampleStep, SampleZero, SampleGood, SampleFail, Sampled, NextRound,
     BoruvkaDone, OutOfSamples
<1>2. Recorded' = Recorded
  BY <1>1 DEF Recorded
<1>3. CASE UNCHANGED <<comp, sf>>
  BY <1>2, <1>3, ForestUnchanged DEF Forest
<1>4. ASSUME NEW e \in Edge, DsuMerge(e), ~SameComp(e), sf' = sf \cup {e} PROVE ForestInv'
  <2>1. Forest' = Forest \cup {e}
    BY <1>2, <1>4 DEF Forest
  <2> QED BY <1>4, <2>1, MergeForest
<1>5. ASSUME upc = "ready", comp' = Singletons, sf' = {} PROVE ForestInv'
  <2>1. Recorded = {}
    BY <1>5 DEF Recorded, ThreadInv
  <2> QED BY <1>2, <1>5, <2>1, FreshForest DEF Forest
<1>6. ASSUME NEW e \in Edge, Update(e) PROVE ForestInv'
  <2>1. CASE ~dsu_valid
    BY <1>3, <1>6, <2>1 DEF Update
  <2>2. CASE dsu_valid /\ SameComp(e)
    BY <1>3, <1>6, <2>2, MergeSame DEF Update
  <2>3. CASE dsu_valid /\ ~SameComp(e)
    BY <1>4, <1>6, <2>3 DEF Update
  <2> QED BY <2>1, <2>2, <2>3
<1>7. CASE UserStep
  <2>1. CASE ConnectedComponents \/ PointQuery \/ Reheat
    BY <1>5, <2>1 DEF ConnectedComponents, PointQuery, BoruvkaStart, UserGoto, Reheat
  <2>2. CASE ProcessStreamUntil \/ Breakpoint \/ PrepQueryCached \/ PrepQuery \/ WriteBinary
    BY <1>3, <2>2 DEF ProcessStreamUntil, Breakpoint, PrepQueryCached, PrepQuery, WriteBinary
  <2> QED BY <1>6, <1>7, <2>1, <2>2 DEF UserStep
<1>8. CASE QueryStep
  <2>1. ASSUME NEW S \in todo, SampleGood(S) PROVE ForestInv'
    <3>1. PICK e \in Sum(S) : \/ ~SameComp(e) /\ DsuMerge(e) /\ sf' = sf \cup {e}
                              \/ UNCHANGED <<comp, sf>>
      BY <2>1 DEF SampleGood
    <3>2. e \in Edge
      BY DEF Sum
    <3> QED BY <1>3, <1>4, <3>1, <3>2
  <2>2. CASE NextRound \/ BoruvkaDone \/ OutOfSamples
    BY <1>3, <2>2 DEF NextRound, BoruvkaDone, OutOfSamples
  <2>3. ASSUME NEW S \in todo, SampleZero(S) \/ SampleFail(S) PROVE ForestInv'
    BY <1>3, <2>3 DEF SampleZero, SampleFail
  <2> QED BY <1>8, <2>1, <2>2, <2>3 DEF QueryStep, SampleStep
<1> QED BY <1>7, <1>8

LEMMA ForestInvariant == Spec => []ForestInv
<1>1. Init => ForestInv
  <2> SUFFICES ASSUME Init PROVE ForestInv
    OBVIOUS
  <2>1. comp = Singletons /\ Forest = {}
    BY DEF Init, Forest, Recorded
  <2>2. Inside(comp, Forest) /\ Spans(comp, Forest)
    BY <2>1 DEF Inside, Spans, Singletons
  <2>3. Cardinality(Comps) = N /\ Cardinality(Forest) = 0
    BY <2>1, SingletonComps, FS_EmptySet DEF Comps
  <2> QED BY <2>2, <2>3, NAssumption DEF ForestInv
<1>2. TypeOK /\ ThreadInv /\ PartitionInv /\ ForestInv /\ [Next]_vars => ForestInv'
  <2> SUFFICES ASSUME TypeOK, ThreadInv, PartitionInv, ForestInv, [Next]_vars PROVE ForestInv'
    OBVIOUS
  <2>1. CASE WorkerStep \/ UNCHANGED vars
    <3>1. UNCHANGED <<comp, sf, spc, cur>>
      BY <2>1 DEF WorkerStep, ApplyUpdateBatch, ApplyUpdateLocked, vars, dsu_vars
    <3> QED BY <3>1, ForestUnchanged DEF Forest, Recorded
  <2> QED BY <2>1, ForestStream, ForestUser DEF Next
<1> QED BY <1>1, <1>2, TypeInvariant, PartitionInvariant, PTL DEF Spec

\* While the DSU counts as valid and no thread is inside pre_insert,
\* spanning_forest is a spanning forest of the graph: edges of the graph that
\* connect exactly the components, without a cycle.
THEOREM ForestAlwaysRight ==
  ASSUME ~WriteUnflushed
  PROVE  Spec => []ForestRight
<1>1. TypeOK /\ PartitionInv /\ ControlInv /\ ValidInv /\ ForestInv => ForestRight
  <2> SUFFICES ASSUME TypeOK, PartitionInv, ControlInv, ValidInv, ForestInv,
                      Quiet, shared_dsu_valid, ~split
               PROVE  /\ sf \subseteq graph
                      /\ \A x, y \in Vertex : y \in comp[x] <=> Connected(x, y, sf)
                      /\ Cardinality(sf) + Cardinality({comp[v] : v \in Vertex}) = N
    BY DEF ForestRight
  <2>1. dsu_valid
    BY DEF ControlInv, Quiet
  <2>2. sf \subseteq graph /\ Inside(comp, sf) /\ Spans(comp, sf)
    BY <2>1, QuietFacts DEF ValidInv, ForestInv
  <2>3. Cardinality(sf) + Cardinality({comp[v] : v \in Vertex}) = N
    BY QuietFacts DEF ForestInv, Comps
  <2>4. ASSUME NEW x \in Vertex, NEW y \in Vertex, y \in comp[x] PROVE Connected(x, y, sf)
    BY <2>2, <2>4 DEF Spans, Connected
  <2>5. ASSUME NEW x \in Vertex, NEW y \in Vertex, Connected(x, y, sf) PROVE y \in comp[x]
    <3>1. comp[x] \in SUBSET Vertex /\ x \in comp[x]
      BY DEF TypeOK, PartitionInv
    <3>2. Closed(comp[x], sf)
      <4> SUFFICES ASSUME NEW e \in sf PROVE e[1] \in comp[x] <=> e[2] \in comp[x]
        BY DEF Closed
      <4>1. e[1] \in Vertex /\ e[2] \in Vertex
        BY EdgeFacts DEF TypeOK
      <4>2. comp[e[1]] = comp[e[2]]
        BY <2>2 DEF Inside
      <4> QED BY <4>1, <4>2 DEF PartitionInv
    <3> QED BY <2>5, <3>1, <3>2 DEF Connected
  <2> QED BY <2>2, <2>3, <2>4, <2>5
<1> QED BY <1>1, TypeInvariant, PartitionInvariant, ControlInvariant, AnswerInvariant,
           ForestInvariant, PTL

-----------------------------------------------------------------------------
(* Rounds of Boruvka *)

\* While no sample has failed and no round has split a component: one that has
\* edges to others has doubled in this round, or is still to be sampled.
DoubleInv ==
  upc = "boruvka" /\ ~failed =>
    \A v \in Vertex : Sum(comp[v]) # {} =>
      \/ Cardinality(comp[v]) >= 2 * 2^round
      \/ comp[v] \in todo /\ Cardinality(comp[v]) >= 2^round

LEMMA CompFinite ==
  ASSUME TypeOK, NEW v \in Vertex
  PROVE  IsFiniteSet(comp[v]) /\ Cardinality(comp[v]) \in Nat
<1>1. comp[v] \subseteq Vertex
  BY DEF TypeOK
<1> QED BY <1>1, VertexFinite, FS_Subset, FS_CardinalityType

\* Two components together are as large as both.
LEMMA UnionCounts ==
  ASSUME TypeOK, PartitionInv, NEW x \in Vertex, NEW y \in Vertex, comp[x] # comp[y]
  PROVE  Cardinality(comp[x] \cup comp[y]) = Cardinality(comp[x]) + Cardinality(comp[y])
<1>1. comp[x] \cap comp[y] = {}
  BY DEF PartitionInv, TypeOK
<1>2. /\ IsFiniteSet(comp[x]) /\ Cardinality(comp[x]) \in Nat
      /\ IsFiniteSet(comp[y]) /\ Cardinality(comp[y]) \in Nat
  BY CompFinite
<1>3. Cardinality(comp[x] \cup comp[y])
        = Cardinality(comp[x]) + Cardinality(comp[y]) - Cardinality(comp[x] \cap comp[y])
  BY <1>2, FS_Union
<1>4. Cardinality(comp[x] \cap comp[y]) = 0
  BY <1>1, FS_EmptySet
<1> QED BY <1>2, <1>3, <1>4

LEMMA RoundPower ==
  ASSUME TypeOK
  PROVE  /\ round \in Nat /\ 2^round \in Nat
         /\ round + 1 < NumSamples => 2^(round + 1) = 2 * 2^round
<1>1. round \in 0 .. NumSamples - 1 /\ NumSamples \in Nat
  BY BoundAssumption DEF TypeOK
<1>2. 2^round \in Nat
  BY <1>1, PowerAssumption
<1>3. ASSUME round + 1 < NumSamples PROVE 2^(round + 1) = 2 * 2^round
  <2>1. round + 1 \in 0 .. NumSamples - 1 /\ round + 1 > 0 /\ (round + 1) - 1 = round
    BY <1>1, <1>3
  <2>2. 2^(round + 1) = 2 * 2^((round + 1) - 1)
    BY <2>1, PowerAssumption
  <2> QED BY <2>1, <2>2
<1> QED BY <1>1, <1>2, <1>3

\* An edge that a sample returned joins two components of at least the size of
\* this round; one inside a component shows that it has grown already.
LEMMA DoubleSample ==
  ASSUME TypeOK, ThreadInv, PartitionInv, ControlInv, TrackInv, DoubleInv,
         NEW S \in todo, SampleZero(S) \/ SampleGood(S) \/ SampleFail(S)
  PROVE  DoubleInv'
<1> USE DEF dsu_vars
<1> SUFFICES ASSUME ~failed', NEW v \in Vertex, Sum(comp[v])' # {}
             PROVE  \/ Cardinality(comp'[v]) >= 2 * 2^round
                    \/ comp'[v] \in todo \ {S} /\ Cardinality(comp'[v]) >= 2^round
  BY DEF DoubleInv, SampleZero, SampleGood, SampleFail, Sampled
<1>1. upc = "boruvka" /\ todo' = todo \ {S} /\ UNCHANGED <<sketch, round>> /\ S \in SUBSET Vertex
  BY DEF SampleZero, SampleGood, SampleFail, Sampled, TypeOK
<1>2. /\ ~failed
      /\ \A w \in Vertex : Sum(comp[w]) # {} =>
           \/ Cardinality(comp[w]) >= 2 * 2^round
           \/ comp[w] \in todo /\ Cardinality(comp[w]) >= 2^round
  BY <1>1 DEF DoubleInv, SampleZero, SampleGood, SampleFail
<1>3. \A C : Sum(C)' = Sum(C)
  BY <1>1 DEF Sum
<1>4. Sum(comp'[v]) # {}
  BY <1>1 DEF Sum
<1>5. CASE SampleZero(S)
  <2>1. comp' = comp /\ Sum(S) = {}
    BY <1>5 DEF SampleZero
  <2> QED BY <1>2, <1>4, <2>1
<1>6. CASE SampleGood(S)
  <2>1. PICK e \in Sum(S) : \/ ~SameComp(e) /\ DsuMerge(e)
                            \/ SameComp(e) /\ UNCHANGED comp
    BY <1>6 DEF SampleGood
  <2>2. e \in Edge /\ e[1] \in Vertex /\ e[2] \in Vertex
    BY EdgeFacts DEF Sum
  <2>3. e \in graph /\ ((e[1] \in S) # (e[2] \in S))
    BY <1>1, <2>2, SumIsCut
  <2>4. CASE SameComp(e) /\ UNCHANGED comp
    <3>1. comp[v] # S
      BY <2>2, <2>3, <2>4 DEF PartitionInv, SameComp
    <3> QED BY <1>2, <1>4, <2>4, <3>1
  <2>5. CASE ~SameComp(e) /\ DsuMerge(e)
    <3> DEFINE A == comp[e[1]]
               B == comp[e[2]]
    <3>1. comp'[v] = IF v \in A \cup B THEN A \cup B ELSE comp[v]
      BY <2>5 DEF DsuMerge
    <3>2. A # B /\ e[1] \in A /\ e[2] \in B /\ e[2] \notin A /\ e[1] \notin B
      BY <2>2, <2>5 DEF SameComp, PartitionInv
    <3>3. CASE v \notin A \cup B
      <4>1. comp[v] # S
        BY <2>2, <2>3, <3>3 DEF PartitionInv
      <4> QED BY <1>2, <1>4, <3>1, <3>3, <4>1
    <3>4. CASE v \in A \cup B
      <4>1. A \in SUBSET Vertex /\ B \in SUBSET Vertex
        BY <2>2 DEF TypeOK
      <4>2. e \in Sum(A) /\ e \in Sum(B)
        BY <1>1, <2>2, <2>3, <3>2, <4>1, SumIsCut
      <4>3. /\ Cardinality(A) >= 2 * 2^round \/ Cardinality(A) >= 2^round
            /\ Cardinality(B) >= 2 * 2^round \/ Cardinality(B) >= 2^round
        BY <1>2, <2>2, <4>2
      <4>4. Cardinality(A) \in Nat /\ Cardinality(B) \in Nat
        BY <2>2, CompFinite
      <4>5. Cardinality(A \cup B) = Cardinality(A) + Cardinality(B)
        BY <2>2, <3>2, UnionCounts
      <4>6. Cardinality(A \cup B) >= 2 * 2^round
        <5> HIDE DEF A, B
        <5> QED BY <4>3, <4>4, <4>5, RoundPower
      <4> QED BY <3>1, <3>4, <4>6
    <3> QED BY <3>3, <3>4
  <2> QED BY <2>1, <2>4, <2>5
<1>7. CASE SampleFail(S)
  BY <1>7 DEF SampleFail
<1> QED BY <1>5, <1>6, <1>7

LEMMA DoubleStep ==
  ASSUME TypeOK, ThreadInv, PartitionInv, ControlInv, TrackInv, DoubleInv, [Next]_vars
  PROVE  DoubleInv'
<1> USE DEF dsu_vars, flag_vars, query_vars
<1>1. CASE UNCHANGED <<upc, sketch, comp, todo, round, failed>>
  BY <1>1 DEF DoubleInv, Sum
<1>2. CASE upc' # "boruvka"
  BY <1>2 DEF DoubleInv
<1>3. ASSUME NEW t \in Thread, StreamStep(t) PROVE DoubleInv'
  BY <1>2, <1>3 DEF StreamStep, PreInsertValid, PreInsertInvalid, Lock, Merge, Record,
     LookupMiss, LookupHit, InvalidateShared
<1>4. CASE WorkerStep
  <2>1. ASSUME NEW v \in Vertex, NEW B \in SUBSET pend[v], ApplyUpdateBatch(v, B)
        PROVE  upc' # "boruvka"
    <3>1. upc' = upc /\ pend # Empty
      BY <2>1 DEF ApplyUpdateBatch, Empty
    <3> QED BY <3>1 DEF ControlInv
  <2> QED BY <1>2, <1>4, <2>1 DEF WorkerStep, ApplyUpdateLocked
<1>5. CASE UserStep
  <2>1. CASE BoruvkaStart
    <3> SUFFICES ASSUME NEW v \in Vertex
                 PROVE  comp'[v] \in todo' /\ Cardinality(comp'[v]) >= 2^(round')
      BY DEF DoubleInv
    <3>1. comp'[v] = {v} /\ comp'[v] \in todo' /\ round' = 0
      BY <2>1 DEF BoruvkaStart, Singletons
    <3>2. Cardinality({v}) = 1
      BY FS_Singleton
    <3>3. 2^0 = 1
      OBVIOUS
    <3> QED BY <3>1, <3>2, <3>3
  <2>2. CASE ~BoruvkaStart
    BY <1>2, <1>5, <2>2 DEF UserStep, ProcessStreamUntil, Breakpoint, PrepQueryCached, PrepQuery,
       ConnectedComponents, PointQuery, WriteBinary, Reheat, Update, UserGoto
  <2> QED BY <2>1, <2>2
<1>6. CASE QueryStep
  <2>1. CASE NextRound
    <3> SUFFICES ASSUME ~failed', NEW v \in Vertex, Sum(comp[v])' # {}
                 PROVE  comp[v] \in todo' /\ Cardinality(comp[v]) >= 2^(round + 1)
      BY <2>1 DEF DoubleInv, NextRound
    <3>1. PICK lab \in Labels : /\ todo' = Supernodes(lab) /\ split' = ~Exact(lab)
                                /\ failed' = (failed \/ split')
      BY <2>1 DEF NextRound
    <3>2. ~failed /\ Exact(lab)
      BY <3>1
    <3>3. {x \in Vertex : lab[x] = lab[v]} = comp[v]
      <4>1. \A x \in Vertex : lab[x] \in comp[x] /\ lab[x] \in Vertex
        BY <3>1 DEF Labels
      <4>2. \A x \in comp[v] : lab[x] = lab[v]
        BY <3>2 DEF Exact
      <4>3. ASSUME NEW x \in Vertex, lab[x] = lab[v] PROVE x \in comp[v]
        BY <4>1, <4>3 DEF PartitionInv
      <4> QED BY <4>2, <4>3 DEF TypeOK
    <3>4. comp[v] \in todo'
      BY <3>1, <3>3 DEF Supernodes
    <3>5. Sum(comp[v]) # {}
      BY <2>1 DEF NextRound, Sum
    <3>6. Cardinality(comp[v]) >= 2 * 2^round
      BY <2>1, <3>2, <3>5 DEF DoubleInv, NextRound
    <3>7. 2^(round + 1) = 2 * 2^round
      BY <2>1, RoundPower DEF NextRound
    <3> QED BY <3>4, <3>6, <3>7
  <2>2. CASE BoruvkaDone \/ OutOfSamples
    BY <1>2, <2>2 DEF BoruvkaDone, OutOfSamples, UserGoto
  <2> QED BY <1>6, <2>1, <2>2, DoubleSample DEF QueryStep, SampleStep
<1>7. CASE UNCHANGED vars
  BY <1>1, <1>7 DEF vars
<1> QED BY <1>3, <1>4, <1>5, <1>6, <1>7 DEF Next

\* While no sample fails and no round splits a component, a component with
\* edges to others has at least 2^round vertices: num_samples = log2 of the
\* number of vertices rounds suffice.
THEOREM SupernodesAlwaysDouble ==
  ASSUME ~WriteUnflushed
  PROVE  Spec => []SupernodesDouble
<1>1. Init => DoubleInv
  BY DEF Init, DoubleInv
<1>2. TypeOK /\ ThreadInv /\ PartitionInv /\ ControlInv /\ TrackInv /\ DoubleInv
        /\ [Next]_vars => DoubleInv'
  BY DoubleStep
<1>3. TypeOK /\ DoubleInv => SupernodesDouble
  <2> SUFFICES ASSUME TypeOK, DoubleInv, upc = "boruvka", ~failed,
                      NEW v \in Vertex, Sum(comp[v]) # {}
               PROVE  Cardinality(comp[v]) >= 2^round
    BY DEF SupernodesDouble
  <2>1. Cardinality(comp[v]) >= 2 * 2^round \/ Cardinality(comp[v]) >= 2^round
    BY DEF DoubleInv
  <2> QED BY <2>1, RoundPower, CompFinite
<1> QED BY <1>1, <1>2, <1>3, TypeInvariant, PartitionInvariant, ControlInvariant,
           TrackInvariant, PTL DEF Spec

=============================================================================
