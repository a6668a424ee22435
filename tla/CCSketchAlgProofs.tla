------------------------- MODULE CCSketchAlgProofs -------------------------
(***************************************************************************)
(* Theorems about CCSketchAlg, for any number of vertices, stream threads, *)
(* samples and updates, where every flush is complete (PrepQuery).         *)
(***************************************************************************)
EXTENDS CCSketchAlg, TLAPS

\* Xor, one element at a time.
LEMMA XorMember == \A A, B : \A x : x \in Xor(A, B) <=> ((x \in A) # (x \in B))
  BY DEF Xor

LEMMA EdgeFacts ==
  /\ \A e \in Edge : e[1] \in Vertex /\ e[2] \in Vertex /\ e[1] # e[2]
  /\ NoEdge \notin Edge
  BY DEF Edge, NoEdge, Vertex

LEMMA ToggleType ==
  ASSUME NEW f \in [Vertex -> SUBSET Edge], NEW e \in Edge
  PROVE  Toggle(f, e) \in [Vertex -> SUBSET Edge]
  BY DEF Toggle, Xor

-----------------------------------------------------------------------------
(* Type correctness, with the program points that go with the edge a       *)
(* stream thread holds.                                                    *)

ThreadInv ==
  \A t \in Thread : spc[t] # "idle" => cur[t] \in Edge /\ upc \in {"stream", "terminated"}

LEMMA TypeStream ==
  ASSUME TypeOK, ThreadInv, NEW t \in Thread, StreamStep(t)
  PROVE  TypeOK' /\ ThreadInv'
<1> USE DEF TypeOK, ThreadInv, StreamPC, UserPC, dsu_vars, flag_vars, query_vars
<1>0. upc = "stream"
  BY DEF StreamStep
<1>1. ASSUME NEW e \in Edge, PreInsertValid(t, e) PROVE TypeOK' /\ ThreadInv'
  BY <1>0, <1>1 DEF PreInsertValid
<1>2. ASSUME NEW e \in Edge, PreInsertInvalid(t, e) PROVE TypeOK' /\ ThreadInv'
  BY <1>0, <1>2, ToggleType DEF PreInsertInvalid, Xor
<1>3. CASE Lock(t)
  BY <1>0, <1>3 DEF Lock
<1>4. CASE Merge(t)
  BY <1>0, <1>4, EdgeFacts DEF Merge, DsuMerge, Xor
<1>5. CASE Record(t)
  BY <1>0, <1>5, ToggleType DEF Record, GtsInsert
<1>6. CASE LookupMiss(t)
  BY <1>0, <1>6, ToggleType DEF LookupMiss, GtsInsert
<1>7. CASE LookupHit(t)
  BY <1>0, <1>7 DEF LookupHit
<1>8. CASE InvalidateShared(t)
  BY <1>0, <1>8, ToggleType DEF InvalidateShared, GtsInsert
<1> QED BY <1>1, <1>2, <1>3, <1>4, <1>5, <1>6, <1>7, <1>8 DEF StreamStep

LEMMA TypeWorker ==
  ASSUME TypeOK, ThreadInv, WorkerStep
  PROVE  TypeOK' /\ ThreadInv'
<1> USE DEF TypeOK, ThreadInv, UserPC, dsu_vars, flag_vars, query_vars
<1>1. ASSUME NEW v \in Vertex, NEW B \in SUBSET pend[v], ApplyUpdateBatch(v, B)
      PROVE  TypeOK' /\ ThreadInv'
  BY <1>1 DEF ApplyUpdateBatch, Xor
<1>2. ASSUME NEW v \in Vertex, ApplyUpdateLocked(v)
      PROVE  TypeOK' /\ ThreadInv'
  BY <1>2 DEF ApplyUpdateLocked
<1> QED BY <1>1, <1>2 DEF WorkerStep

LEMMA TypeUser ==
  ASSUME TypeOK, ThreadInv, UserStep
  PROVE  TypeOK' /\ ThreadInv'
<1> USE DEF TypeOK, ThreadInv, UserPC, UserGoto, dsu_vars, flag_vars, query_vars
<1>1. CASE ProcessStreamUntil
  BY <1>1 DEF ProcessStreamUntil
<1>2. CASE Breakpoint
  BY <1>2 DEF Breakpoint, Quiet
<1>3. CASE PrepQueryCached
  BY <1>3 DEF PrepQueryCached
<1>4. CASE PrepQuery
  BY <1>4 DEF PrepQuery, Empty, Xor
<1>5. CASE ConnectedComponents \/ PointQuery
  <2>1. BoruvkaStart
    BY <1>5 DEF ConnectedComponents, PointQuery
  <2>2. round' \in 0 .. NumSamples - 1
    BY <2>1, BoundAssumption DEF BoruvkaStart
  <2>3. /\ update_locked' \in BOOLEAN /\ modified' \in BOOLEAN
        /\ split' \in BOOLEAN /\ failed' \in BOOLEAN
    BY <2>1, Zenon DEF BoruvkaStart
  <2>4. comp' \in [Vertex -> SUBSET Vertex] /\ sf' \subseteq Edge /\ todo' \subseteq SUBSET Vertex
    BY <2>1 DEF BoruvkaStart, Singletons
  <2> QED BY <2>1, <2>2, <2>3, <2>4 DEF BoruvkaStart
<1>6. CASE WriteBinary
  BY <1>6 DEF WriteBinary
<1>7. CASE Reheat
  BY <1>7 DEF Reheat, Empty, Singletons
<1>8. ASSUME NEW e \in Edge, Update(e) PROVE TypeOK' /\ ThreadInv'
  <2>1. comp' \in [Vertex -> SUBSET Vertex] /\ sf' \subseteq Edge
    BY <1>8, EdgeFacts DEF Update, DsuMerge
  <2>2. dsu_valid' \in BOOLEAN /\ shared_dsu_valid' \in BOOLEAN
    BY <1>8, Zenon DEF Update
  <2>3. sketch' \in [Vertex -> SUBSET Edge] /\ graph' \subseteq Edge
    BY <1>8, ToggleType DEF Update, Xor
  <2>4. /\ UNCHANGED <<pend, sample_idx, update_locked, spc, cur, upc, query_vars, file>>
        /\ updates' = updates + 1
    BY <1>8 DEF Update
  <2> QED BY <2>1, <2>2, <2>3, <2>4
<1> QED BY <1>1, <1>2, <1>3, <1>4, <1>5, <1>6, <1>7, <1>8 DEF UserStep

LEMMA TypeQuery ==
  ASSUME TypeOK, ThreadInv, QueryStep
  PROVE  TypeOK' /\ ThreadInv'
<1> USE DEF TypeOK, ThreadInv, UserPC, UserGoto, dsu_vars, flag_vars, query_vars
<1>1. ASSUME NEW S \in todo, SampleZero(S) PROVE TypeOK' /\ ThreadInv'
  BY <1>1 DEF SampleZero, Sampled
<1>2. ASSUME NEW S \in todo, SampleGood(S) PROVE TypeOK' /\ ThreadInv'
  <2>1. comp' \in [Vertex -> SUBSET Vertex] /\ sf' \subseteq Edge /\ modified' \in BOOLEAN
    <3>1. PICK e \in Edge : \/ DsuMerge(e) /\ sf' = sf \cup {e} /\ modified' = TRUE
                            \/ UNCHANGED <<dsu_vars, modified>>
      BY <1>2 DEF SampleGood, Sum
    <3>2. CASE DsuMerge(e) /\ sf' = sf \cup {e} /\ modified' = TRUE
      BY <3>2, EdgeFacts DEF DsuMerge
    <3>3. CASE UNCHANGED <<dsu_vars, modified>>
      BY <3>3
    <3> QED BY <3>1, <3>2, <3>3
  <2> QED BY <1>2, <2>1 DEF SampleGood, Sampled
<1>3. ASSUME NEW S \in todo, SampleFail(S) PROVE TypeOK' /\ ThreadInv'
  BY <1>3 DEF SampleFail, Sampled
<1>4. CASE NextRound
  <2>1. round' \in 0 .. NumSamples - 1
    BY <1>4, BoundAssumption DEF NextRound
  <2>2. modified' \in BOOLEAN /\ split' \in BOOLEAN /\ failed' \in BOOLEAN
    BY <1>4, Zenon DEF NextRound
  <2>3. todo' \subseteq SUBSET Vertex
    BY <1>4 DEF NextRound, Supernodes
  <2> QED BY <1>4, <2>1, <2>2, <2>3 DEF NextRound
<1>5. CASE BoruvkaDone
  <2>1. round' \in 0 .. NumSamples - 1
    BY <1>5, BoundAssumption DEF BoruvkaDone
  <2>2. /\ dsu_valid' \in BOOLEAN /\ shared_dsu_valid' \in BOOLEAN /\ update_locked' \in BOOLEAN
        /\ failed' \in BOOLEAN
    BY <1>5, Zenon DEF BoruvkaDone
  <2>3. sample_idx' \in [Vertex -> Nat]
    BY <1>5 DEF BoruvkaDone, ResetSampleState
  <2> QED BY <1>5, <2>1, <2>2, <2>3 DEF BoruvkaDone
<1>6. CASE OutOfSamples
  <2>1. round' \in 0 .. NumSamples - 1
    BY <1>6, BoundAssumption DEF OutOfSamples
  <2>2. /\ modified' \in BOOLEAN /\ failed' \in BOOLEAN
    BY <1>6, Zenon DEF OutOfSamples
  <2>3. sample_idx' \in [Vertex -> Nat]
    BY <1>6 DEF OutOfSamples, ResetSampleState
  <2> QED BY <1>6, <2>1, <2>2, <2>3 DEF OutOfSamples
<1> QED BY <1>1, <1>2, <1>3, <1>4, <1>5, <1>6 DEF QueryStep, SampleStep

LEMMA TypeInvariant == Spec => [](TypeOK /\ ThreadInv)
<1>1. Init => TypeOK /\ ThreadInv
  <2> SUFFICES ASSUME Init PROVE TypeOK /\ ThreadInv
    OBVIOUS
  <2>1. /\ dsu_valid \in BOOLEAN /\ shared_dsu_valid \in BOOLEAN
        /\ update_locked \in BOOLEAN /\ modified \in BOOLEAN
        /\ split \in BOOLEAN /\ failed \in BOOLEAN
    BY Zenon DEF Init
  <2>2. round \in 0 .. NumSamples - 1
    BY BoundAssumption DEF Init
  <2> QED BY <2>1, <2>2 DEF Init, TypeOK, ThreadInv, Empty, Singletons, StreamPC, UserPC
<1>2. (TypeOK /\ ThreadInv) /\ [Next]_vars => (TypeOK /\ ThreadInv)'
  <2> SUFFICES ASSUME TypeOK, ThreadInv, [Next]_vars PROVE TypeOK' /\ ThreadInv'
    OBVIOUS
  <2>1. CASE Next
    BY <2>1, TypeStream, TypeWorker, TypeUser, TypeQuery DEF Next
  <2>2. CASE UNCHANGED vars
    BY <2>2 DEF vars, TypeOK, ThreadInv, dsu_vars, flag_vars, query_vars
  <2> QED BY <2>1, <2>2
<1> QED BY <1>1, <1>2, PTL DEF Spec

\* Every variable keeps its type; in particular the rounds that change anything
\* are fewer than the samples (the code begins one more, which only throws).
THEOREM TypeCorrect == Spec => []TypeOK
  BY TypeInvariant, PTL
-----------------------------------------------------------------------------
(* The DSU represents a partition.                                         *)

PartitionInv ==
  /\ \A x \in Vertex : x \in comp[x]
  /\ \A x, y \in Vertex : y \in comp[x] => comp[y] = comp[x]

LEMMA MergePartition ==
  ASSUME TypeOK, PartitionInv, NEW e \in Edge, DsuMerge(e)
  PROVE  PartitionInv'
<1> DEFINE c == comp[e[1]] \cup comp[e[2]]
<1>1. comp' = [v \in Vertex |-> IF v \in c THEN c ELSE comp[v]]
  BY DEF DsuMerge
<1>2. e[1] \in Vertex /\ e[2] \in Vertex
  BY EdgeFacts
<1>3. ASSUME NEW x \in Vertex, NEW y \in Vertex, y \in comp[x], y \in c
      PROVE  x \in c
  BY <1>2, <1>3 DEF PartitionInv
<1>4. ASSUME NEW x \in Vertex, NEW y \in Vertex, y \in comp'[x]
      PROVE  comp'[y] = comp'[x]
  <2>1. CASE x \in c
    BY <1>1, <1>4, <2>1
  <2>2. CASE x \notin c
    BY <1>1, <1>3, <1>4, <2>2 DEF PartitionInv
  <2> QED BY <2>1, <2>2
<1>5. \A x \in Vertex : x \in comp'[x]
  BY <1>1 DEF PartitionInv
<1> QED BY <1>4, <1>5 DEF PartitionInv

LEMMA PartitionStep ==
  ASSUME TypeOK, ThreadInv, PartitionInv, [Next]_vars
  PROVE  PartitionInv'
<1> USE DEF dsu_vars
<1>1. CASE comp' = comp
  BY <1>1 DEF PartitionInv
<1>2. CASE comp' = Singletons
  BY <1>2 DEF PartitionInv, Singletons
<1>3. CASE \E e \in Edge : DsuMerge(e)
  BY <1>3, MergePartition
<1>4. ASSUME NEW t \in Thread, StreamStep(t)
      PROVE  comp' = comp \/ \E e \in Edge : DsuMerge(e)
  BY <1>4 DEF StreamStep, PreInsertValid, PreInsertInvalid, Lock, Merge, Record,
              LookupMiss, LookupHit, InvalidateShared, ThreadInv
<1>5. CASE WorkerStep
  BY <1>1, <1>5 DEF WorkerStep, ApplyUpdateBatch, ApplyUpdateLocked
<1>6. CASE UserStep
  <2>1. ASSUME NEW e \in Edge, Update(e) PROVE comp' = comp \/ DsuMerge(e)
    BY <2>1 DEF Update
  <2>2. comp' = comp \/ comp' = Singletons \/ \E e \in Edge : DsuMerge(e)
    BY <1>6, <2>1 DEF UserStep, ProcessStreamUntil, Breakpoint, PrepQueryCached,
         PrepQuery, ConnectedComponents, PointQuery, BoruvkaStart, WriteBinary, Reheat
  <2> QED BY <2>2, <1>1, <1>2, <1>3
<1>7. CASE QueryStep
  <2>1. comp' = comp \/ \E e \in Edge : DsuMerge(e)
    BY <1>7 DEF QueryStep, SampleStep, SampleZero, SampleGood, SampleFail, Sum,
         NextRound, BoruvkaDone, OutOfSamples
  <2> QED BY <2>1, <1>1, <1>3
<1> QED BY <1>1, <1>3, <1>4, <1>5, <1>6, <1>7 DEF Next, vars

LEMMA PartitionInvariant == Spec => []PartitionInv
<1>1. Init => PartitionInv
  BY DEF Init, PartitionInv, Singletons
<1> QED BY <1>1, PartitionStep, TypeInvariant, PTL DEF Spec

-----------------------------------------------------------------------------
(* Control: the per-source locks exclude, the two flags are cleared in one  *)
(* order, and Boruvka only runs over flushed gutters.                      *)

ControlInv ==
  /\ \A t, o \in Thread :
       Holds(t) /\ Holds(o) /\ cur[t][1] = cur[o][1] => t = o
  /\ dsu_valid => shared_dsu_valid
  /\ shared_dsu_valid /\ ~dsu_valid => \E t \in Thread : spc[t] = "shared"
  /\ \A t \in Thread : spc[t] = "shared" => ~dsu_valid
  /\ upc = "boruvka" => ~dsu_valid /\ ~shared_dsu_valid
  /\ upc \in {"ready", "boruvka"} /\ ~dsu_valid => pend = Empty

LEMMA ControlStream ==
  ASSUME TypeOK, ThreadInv, ControlInv, NEW t \in Thread, StreamStep(t)
  PROVE  ControlInv'
<1> USE DEF TypeOK, ControlInv, Holds, StreamPC, dsu_vars, flag_vars, query_vars
<1>0. upc = "stream"
  BY DEF StreamStep
<1>1. ASSUME NEW e \in Edge, PreInsertValid(t, e) PROVE ControlInv'
  BY <1>0, <1>1 DEF PreInsertValid
<1>2. ASSUME NEW e \in Edge, PreInsertInvalid(t, e) PROVE ControlInv'
  BY <1>0, <1>2 DEF PreInsertInvalid
<1>3. CASE Lock(t)
  BY <1>0, <1>3 DEF Lock
<1>4. CASE Merge(t)
  BY <1>0, <1>4 DEF Merge
<1>5. CASE Record(t)
  BY <1>0, <1>5 DEF Record, GtsInsert
<1>6. CASE LookupMiss(t)
  BY <1>0, <1>6 DEF LookupMiss, GtsInsert
<1>7. CASE LookupHit(t)
  BY <1>0, <1>7 DEF LookupHit
<1>8. CASE InvalidateShared(t)
  BY <1>0, <1>8 DEF InvalidateShared, GtsInsert
<1> QED BY <1>1, <1>2, <1>3, <1>4, <1>5, <1>6, <1>7, <1>8 DEF StreamStep

LEMMA ControlWorker ==
  ASSUME TypeOK, ThreadInv, ControlInv, WorkerStep
  PROVE  ControlInv'
<1> USE DEF TypeOK, ControlInv, Holds, Empty, dsu_vars, flag_vars, query_vars
<1>1. ASSUME NEW v \in Vertex, NEW B \in SUBSET pend[v], ApplyUpdateBatch(v, B)
      PROVE  ControlInv'
  <2>1. pend = Empty => pend' = Empty
    BY <1>1 DEF ApplyUpdateBatch
  <2> QED BY <1>1, <2>1 DEF ApplyUpdateBatch
<1>2. ASSUME NEW v \in Vertex, ApplyUpdateLocked(v)
      PROVE  ControlInv'
  BY <1>2 DEF ApplyUpdateLocked
<1> QED BY <1>1, <1>2 DEF WorkerStep

LEMMA ControlUser ==
  ASSUME TypeOK, ThreadInv, ControlInv, UserStep
  PROVE  ControlInv'
<1> USE DEF TypeOK, ThreadInv, ControlInv, Holds, UserGoto, dsu_vars, flag_vars, query_vars
<1>1. CASE ProcessStreamUntil
  BY <1>1 DEF ProcessStreamUntil
<1>2. CASE Breakpoint
  BY <1>2 DEF Breakpoint
<1>3. CASE PrepQueryCached
  BY <1>3 DEF PrepQueryCached
<1>4. CASE PrepQuery
  BY <1>4 DEF PrepQuery
<1>5. CASE ConnectedComponents \/ PointQuery
  BY <1>5 DEF ConnectedComponents, PointQuery, BoruvkaStart
<1>6. CASE WriteBinary
  BY <1>6 DEF WriteBinary
<1>7. CASE Reheat
  BY <1>7 DEF Reheat
<1>8. ASSUME NEW e \in Edge, Update(e) PROVE ControlInv'
  BY <1>8 DEF Update
<1> QED BY <1>1, <1>2, <1>3, <1>4, <1>5, <1>6, <1>7, <1>8 DEF UserStep

LEMMA ControlQuery ==
  ASSUME TypeOK, ThreadInv, ControlInv, QueryStep
  PROVE  ControlInv'
<1> USE DEF TypeOK, ThreadInv, ControlInv, Holds, UserGoto, dsu_vars, flag_vars, query_vars
<1>1. ASSUME NEW S \in todo, SampleZero(S) \/ SampleGood(S) \/ SampleFail(S)
      PROVE  ControlInv'
  <2>1. Sampled(S)
    BY <1>1 DEF SampleZero, SampleGood, SampleFail
  <2> QED BY <2>1 DEF Sampled
<1>2. CASE NextRound
  BY <1>2 DEF NextRound
<1>3. CASE BoruvkaDone
  BY <1>3 DEF BoruvkaDone
<1>4. CASE OutOfSamples
  BY <1>4 DEF OutOfSamples
<1> QED BY <1>1, <1>2, <1>3, <1>4 DEF QueryStep, SampleStep

LEMMA ControlInvariant == Spec => []ControlInv
<1>1. Init => ControlInv
  BY DEF Init, ControlInv, Holds
<1>2. TypeOK /\ ThreadInv /\ ControlInv /\ [Next]_vars => ControlInv'
  <2> SUFFICES ASSUME TypeOK, ThreadInv, ControlInv, [Next]_vars PROVE ControlInv'
    OBVIOUS
  <2>1. CASE Next
    BY <2>1, ControlStream, ControlWorker, ControlUser, ControlQuery DEF Next
  <2>2. CASE UNCHANGED vars
    BY <2>2 DEF vars, ControlInv, Holds, dsu_vars, flag_vars, query_vars
  <2> QED BY <2>1, <2>2
<1> QED BY <1>1, <1>2, TypeInvariant, PTL DEF Spec

\* Outside pre_insert the private flag, which point_query and pre_insert read,
\* and the shared one, which has_cached_query and connected_components read,
\* agree.
THEOREM FlagsAlwaysAgree == Spec => []FlagsAgree
<1>1. TypeOK /\ ControlInv => FlagsAgree
  BY DEF TypeOK, ControlInv, FlagsAgree, Quiet
<1> QED BY <1>1, TypeInvariant, ControlInvariant, PTL
-----------------------------------------------------------------------------
(* Sketches and gutters together hold the graph.  Only updates between      *)
(* dsu.merge and the guttering system are missing, and the lock on the     *)
(* source vertex keeps two of the same edge from being there at once.      *)

TrackInv ==
  /\ \A v \in Vertex : \A e \in Edge :
       ((e \in sketch[v]) # (e \in pend[v]))
          <=> (EndPoint(v, e) /\ ((e \in graph) # (e \in InFlight)))
  /\ FileHoldsGraph

LEMMA InFlightEnter ==
  ASSUME TypeOK, ControlInv, NEW t \in Thread, Merge(t)
  PROVE  cur[t] \notin InFlight /\ InFlight' = InFlight \cup {cur[t]}
<1>1. /\ spc[t] = "merge" /\ cur' = cur
      /\ spc'[t] \in {"record", "lookup"}
      /\ \A o \in Thread : o # t => spc'[o] = spc[o]
  BY DEF Merge, TypeOK
<1>2. cur[t] \notin InFlight
  BY <1>1 DEF InFlight, ControlInv, Holds
<1> QED BY <1>1, <1>2 DEF InFlight

LEMMA InFlightLeave ==
  ASSUME TypeOK, ControlInv, NEW t \in Thread, GtsInsert(t),
         spc[t] \in {"record", "lookup", "shared"}
  PROVE  cur[t] \in InFlight /\ InFlight' = InFlight \ {cur[t]}
<1>1. /\ spc'[t] = "idle"
      /\ \A o \in Thread : o # t => spc'[o] = spc[o] /\ cur'[o] = cur[o]
  BY DEF GtsInsert, TypeOK
<1>2. \A o \in Thread : o # t /\ spc[o] \in {"record", "lookup", "shared"} => cur[o] # cur[t]
  BY DEF ControlInv, Holds
<1> QED BY <1>1, <1>2 DEF InFlight

LEMMA InFlightStays ==
  ASSUME TypeOK, NEW t \in Thread,
         \/ \E e \in Edge : PreInsertValid(t, e) \/ PreInsertInvalid(t, e)
         \/ Lock(t) \/ LookupHit(t)
  PROVE  InFlight' = InFlight
<1>1. CASE \E e \in Edge : PreInsertValid(t, e)
  BY <1>1 DEF PreInsertValid, InFlight, TypeOK
<1>2. CASE \E e \in Edge : PreInsertInvalid(t, e)
  BY <1>2 DEF PreInsertInvalid, InFlight
<1>3. CASE Lock(t)
  BY <1>3 DEF Lock, InFlight, TypeOK
<1>4. CASE LookupHit(t)
  BY <1>4 DEF LookupHit, InFlight, TypeOK
<1> QED BY <1>1, <1>2, <1>3, <1>4

LEMMA QuietInFlight ==
  ASSUME \A t \in Thread : spc[t] = "idle"
  PROVE  InFlight = {}
  BY DEF InFlight

LEMMA ToggleMember ==
  ASSUME NEW f \in [Vertex -> SUBSET Edge], NEW e \in Edge, NEW v \in Vertex, NEW d \in Edge
  PROVE  d \in Toggle(f, e)[v] <=> ((d \in f[v]) # (d = e /\ EndPoint(v, e)))
  BY DEF Toggle, Xor

LEMMA TrackStream ==
  ASSUME TypeOK, ThreadInv, ControlInv, TrackInv, NEW t \in Thread, StreamStep(t)
  PROVE  TrackInv'
<1> USE DEF TypeOK, dsu_vars, flag_vars, query_vars
<1>1. ASSUME UNCHANGED <<graph, pend, sketch, file>>, InFlight' = InFlight
      PROVE  TrackInv'
  BY <1>1 DEF TrackInv, FileHoldsGraph
<1>2. CASE (\E e \in Edge : PreInsertValid(t, e)) \/ Lock(t) \/ LookupHit(t)
  BY <1>1, <1>2, InFlightStays DEF PreInsertValid, Lock, LookupHit
<1>3. ASSUME NEW e \in Edge, PreInsertInvalid(t, e) PROVE TrackInv'
  <2>1. /\ InFlight' = InFlight /\ UNCHANGED <<sketch, file>>
        /\ pend' = Toggle(pend, e)
        /\ \A d \in Edge : d \in graph' <=> ((d \in graph) # (d = e))
    <3>1. InFlight' = InFlight
      BY <1>3, InFlightStays
    <3>2. graph' = Xor(graph, {e}) /\ pend' = Toggle(pend, e) /\ UNCHANGED <<sketch, file>>
      BY <1>3 DEF PreInsertInvalid
    <3>3. \A d \in Edge : d \in graph' <=> ((d \in graph) # (d = e))
      BY <3>2, XorMember
    <3> QED BY <3>1, <3>2, <3>3
  <2>2. FileHoldsGraph'
    BY <2>1 DEF TrackInv, FileHoldsGraph
  <2> QED BY <2>1, <2>2, ToggleMember DEF TrackInv
<1>4. CASE Merge(t)
  <2>1. cur[t] \in Edge
    BY <1>4 DEF Merge, ThreadInv
  <2>2. /\ UNCHANGED <<pend, sketch, file>>
        /\ \A d \in Edge : d \in graph' <=> ((d \in graph) # (d = cur[t]))
    BY <1>4, XorMember DEF Merge
  <2>3. cur[t] \notin InFlight /\ InFlight' = InFlight \cup {cur[t]}
    BY <1>4, InFlightEnter
  <2>4. FileHoldsGraph'
    BY <2>2 DEF TrackInv, FileHoldsGraph
  <2> QED BY <2>1, <2>2, <2>3, <2>4 DEF TrackInv
<1>5. CASE Record(t) \/ LookupMiss(t) \/ InvalidateShared(t)
  <2>1. /\ GtsInsert(t) /\ UNCHANGED <<graph, sketch, file>>
        /\ spc[t] \in {"record", "lookup", "shared"}
    BY <1>5 DEF Record, LookupMiss, InvalidateShared
  <2>2. cur[t] \in InFlight /\ InFlight' = InFlight \ {cur[t]}
    BY <2>1, InFlightLeave
  <2>3. cur[t] \in Edge /\ pend' = Toggle(pend, cur[t])
    BY <2>1 DEF GtsInsert, ThreadInv
  <2>4. FileHoldsGraph'
    BY <2>1 DEF TrackInv, FileHoldsGraph
  <2> QED BY <2>1, <2>2, <2>3, <2>4, ToggleMember DEF TrackInv
<1> QED BY <1>2, <1>3, <1>4, <1>5 DEF StreamStep

LEMMA TrackWorker ==
  ASSUME TypeOK, TrackInv, WorkerStep
  PROVE  TrackInv'
<1> USE DEF TypeOK, dsu_vars, flag_vars, query_vars
<1>1. ASSUME NEW v \in Vertex, NEW B \in SUBSET pend[v], ApplyUpdateBatch(v, B)
      PROVE  TrackInv'
  <2>1. UNCHANGED <<graph, file>> /\ InFlight' = InFlight
    BY <1>1 DEF ApplyUpdateBatch, InFlight
  <2>2. ASSUME NEW x \in Vertex, NEW e \in Edge
        PROVE  ((e \in sketch'[x]) # (e \in pend'[x])) <=> ((e \in sketch[x]) # (e \in pend[x]))
    BY <1>1, XorMember DEF ApplyUpdateBatch
  <2>3. FileHoldsGraph'
    BY <2>1 DEF TrackInv, FileHoldsGraph
  <2> QED BY <2>1, <2>2, <2>3 DEF TrackInv
<1>2. ASSUME NEW v \in Vertex, ApplyUpdateLocked(v) PROVE TrackInv'
  BY <1>2 DEF ApplyUpdateLocked, TrackInv, FileHoldsGraph, InFlight
<1> QED BY <1>1, <1>2 DEF WorkerStep

LEMMA TrackUser ==
  ASSUME ~WriteUnflushed, TypeOK, ThreadInv, ControlInv, TrackInv, UserStep
  PROVE  TrackInv'
<1> USE DEF TypeOK, dsu_vars, flag_vars, query_vars
<1>0. InFlight' = InFlight
  BY DEF UserStep, ProcessStreamUntil, Breakpoint, PrepQueryCached, PrepQuery,
     ConnectedComponents, PointQuery, BoruvkaStart, WriteBinary, Reheat, Update, InFlight
<1>1. CASE UNCHANGED <<graph, pend, sketch, file>>
  BY <1>0, <1>1 DEF TrackInv, FileHoldsGraph
<1>2. CASE PrepQuery
  <2>1. UNCHANGED <<graph, file>>
    BY <1>2 DEF PrepQuery
  <2>2. ASSUME NEW x \in Vertex, NEW e \in Edge
        PROVE  ((e \in sketch'[x]) # (e \in pend'[x])) <=> ((e \in sketch[x]) # (e \in pend[x]))
    BY <1>2, XorMember DEF PrepQuery, Empty
  <2>3. FileHoldsGraph'
    BY <2>1 DEF TrackInv, FileHoldsGraph
  <2> QED BY <1>0, <2>1, <2>2, <2>3 DEF TrackInv
<1>3. CASE WriteBinary
  <2>1. /\ pend = Empty /\ InFlight = {}
        /\ file' = [sketch |-> sketch, graph |-> graph]
        /\ UNCHANGED <<graph, pend, sketch>>
    BY <1>3, QuietInFlight DEF WriteBinary, ThreadInv
  <2>2. \A v \in Vertex : sketch[v] = Incident(v, graph)
    BY <2>1 DEF TrackInv, Empty, Incident
  <2> QED BY <1>0, <2>1, <2>2 DEF TrackInv, FileHoldsGraph
<1>4. CASE Reheat
  <2>1. /\ graph' = file.graph /\ sketch' = file.sketch /\ pend' = Empty
        /\ file # NoFile /\ UNCHANGED file /\ InFlight = {}
    BY <1>4, QuietInFlight DEF Reheat, ThreadInv
  <2>2. \A v \in Vertex : sketch'[v] = Incident(v, graph')
    BY <2>1 DEF TrackInv, FileHoldsGraph
  <2>3. FileHoldsGraph'
    BY <2>1 DEF TrackInv, FileHoldsGraph
  <2>4. graph' \subseteq Edge
    BY <2>1, TypeUser
  <2> QED BY <1>0, <2>1, <2>2, <2>3, <2>4 DEF TrackInv, Incident, Empty
<1>5. ASSUME NEW e \in Edge, Update(e) PROVE TrackInv'
  <2>1. /\ UNCHANGED <<pend, file>>
        /\ sketch' = Toggle(sketch, e)
        /\ \A d \in Edge : d \in graph' <=> ((d \in graph) # (d = e))
    BY <1>5, XorMember DEF Update
  <2>2. FileHoldsGraph'
    BY <2>1 DEF TrackInv, FileHoldsGraph
  <2> QED BY <1>0, <2>1, <2>2, ToggleMember DEF TrackInv
<1> QED BY <1>1, <1>2, <1>3, <1>4, <1>5 DEF UserStep, ProcessStreamUntil, Breakpoint,
     PrepQueryCached, ConnectedComponents, PointQuery, BoruvkaStart

LEMMA TrackQuery ==
  ASSUME TrackInv, QueryStep
  PROVE  TrackInv'
<1>1. UNCHANGED <<graph, pend, sketch, file, spc, cur>>
  BY DEF QueryStep, SampleStep, SampleZero, SampleGood, SampleFail, Sampled,
     NextRound, BoruvkaDone, OutOfSamples
<1> QED BY <1>1 DEF TrackInv, FileHoldsGraph, InFlight

LEMMA TrackInvariant ==
  ASSUME ~WriteUnflushed
  PROVE  Spec => []TrackInv
<1>1. Init => TrackInv
  BY DEF Init, TrackInv, FileHoldsGraph, InFlight, Empty
<1>2. TypeOK /\ ThreadInv /\ ControlInv /\ TrackInv /\ [Next]_vars => TrackInv'
  <2> SUFFICES ASSUME TypeOK, ThreadInv, ControlInv, TrackInv, [Next]_vars PROVE TrackInv'
    OBVIOUS
  <2>1. CASE Next
    BY <2>1, TrackStream, TrackWorker, TrackUser, TrackQuery DEF Next
  <2>2. CASE UNCHANGED vars
    BY <2>2 DEF vars, TrackInv, FileHoldsGraph, InFlight
  <2> QED BY <2>1, <2>2
<1> QED BY <1>1, <1>2, TypeInvariant, ControlInvariant, PTL DEF Spec

\* Sketch and gutter of every vertex together hold exactly its edges, through
\* flushes, failed queries, direct updates and reheating, provided write_binary
\* is only called with empty gutters.
THEOREM SketchesAlwaysTrackGraph ==
  ASSUME ~WriteUnflushed
  PROVE  Spec => []SketchesTrackGraph
<1>1. TypeOK /\ ThreadInv /\ TrackInv => SketchesTrackGraph
  <2> SUFFICES ASSUME TypeOK, ThreadInv, TrackInv, NEW v \in Vertex
               PROVE  Xor(sketch[v], pend[v]) = Incident(v, Xor(graph, InFlight))
    BY DEF SketchesTrackGraph
  <2>1. InFlight \subseteq Edge
    BY DEF InFlight, ThreadInv
  <2>2. \A e : e \in Xor(sketch[v], pend[v]) => e \in Edge
    BY DEF TypeOK, Xor
  <2>3. \A e : e \in Xor(graph, InFlight) => e \in Edge
    BY <2>1 DEF TypeOK, Xor
  <2>4. \A e \in Edge : e \in Xor(sketch[v], pend[v]) <=> e \in Incident(v, Xor(graph, InFlight))
    BY XorMember DEF TrackInv, Incident
  <2> QED BY <2>2, <2>3, <2>4 DEF Incident
<1> QED BY <1>1, TypeInvariant, TrackInvariant, PTL
-----------------------------------------------------------------------------
(* The answer.  While the DSU is valid and no thread is about to find out   *)
(* that it has deleted a forest edge, every edge of the graph lies inside a *)
(* component, and the forest edges (recorded or about to be) hold every    *)
(* component together.  While Boruvka runs, an unmodified round whose      *)
(* labels split no component has found no edge leaving the components      *)
(* sampled so far.                                                         *)

Inside(c, G) == \A e \in G : c[e[1]] = c[e[2]]

Spans(c, F) == \A S \in SUBSET Vertex : Closed(S, F) => \A x \in S : c[x] \subseteq S

Recorded == {cur[t] : t \in {o \in Thread : spc[o] = "record"}}

Forest == sf \cup Recorded

Doomed == \E t \in Thread : spc[t] = "lookup" /\ cur[t] \in sf

ValidInv ==
  dsu_valid /\ ~split /\ ~Doomed =>
    Forest \subseteq graph /\ Inside(comp, graph) /\ Spans(comp, Forest)

BoruvkaInv ==
  upc = "boruvka" =>
    /\ sf \subseteq graph
    /\ Spans(comp, sf)
    /\ ~split /\ ~modified =>
         /\ \A S \in todo : \A v \in S : comp[v] = S
         /\ \A v \in Vertex : comp[v] \in todo \/ Closed(comp[v], graph)

\* Merging the end points of e preserves both halves of the answer.
LEMMA MergeInside ==
  ASSUME TypeOK, PartitionInv, NEW e \in Edge, DsuMerge(e),
         NEW G \in SUBSET Edge, Inside(comp, G)
  PROVE  Inside(comp', G \cup {e})
<1> DEFINE c == comp[e[1]] \cup comp[e[2]]
<1>1. comp' = [v \in Vertex |-> IF v \in c THEN c ELSE comp[v]]
  BY DEF DsuMerge
<1>2. ASSUME NEW d \in G PROVE comp'[d[1]] = comp'[d[2]]
  <2>1. d[1] \in Vertex /\ d[2] \in Vertex /\ comp[d[1]] = comp[d[2]]
    BY EdgeFacts DEF Inside
  <2>2. e[1] \in Vertex /\ e[2] \in Vertex
    BY EdgeFacts
  <2>3. d[1] \in c <=> d[2] \in c
    BY <2>1, <2>2 DEF PartitionInv
  <2> QED BY <1>1, <2>1, <2>3
<1>3. comp'[e[1]] = comp'[e[2]]
  BY <1>1, EdgeFacts DEF PartitionInv
<1> QED BY <1>2, <1>3 DEF Inside

LEMMA MergeSpans ==
  ASSUME TypeOK, PartitionInv, NEW e \in Edge, DsuMerge(e),
         NEW F \in SUBSET Edge, Spans(comp, F)
  PROVE  Spans(comp', F \cup {e})
<1> SUFFICES ASSUME NEW S \in SUBSET Vertex, Closed(S, F \cup {e}), NEW x \in S
             PROVE  comp'[x] \subseteq S
  BY DEF Spans
<1> DEFINE c == comp[e[1]] \cup comp[e[2]]
<1>1. comp' = [v \in Vertex |-> IF v \in c THEN c ELSE comp[v]]
  BY DEF DsuMerge
<1>2. /\ e[1] \in S <=> e[2] \in S
      /\ \A y \in S : comp[y] \subseteq S
  BY DEF Closed, Spans
<1>3. e[1] \in Vertex /\ e[2] \in Vertex
  BY EdgeFacts
<1>4. CASE x \in c
  <2>1. e[1] \in S /\ e[2] \in S
    BY <1>2, <1>3, <1>4 DEF PartitionInv
  <2> QED BY <1>1, <1>2, <1>4, <2>1
<1>5. CASE x \notin c
  BY <1>1, <1>2, <1>5
<1> QED BY <1>4, <1>5

LEMMA MergeSame ==
  ASSUME TypeOK, PartitionInv, NEW e \in Edge, DsuMerge(e), SameComp(e)
  PROVE  comp' = comp
  BY EdgeFacts DEF TypeOK, PartitionInv, DsuMerge, SameComp

\* The merged sketch of a supernode holds the edges that leave it.
LEMMA SumIsCut ==
  ASSUME TypeOK, ThreadInv, ControlInv, TrackInv, upc = "boruvka",
         NEW S \in SUBSET Vertex, NEW e \in Edge
  PROVE  e \in Sum(S) <=> e \in graph /\ ((e[1] \in S) # (e[2] \in S))
<1>1. InFlight = {} /\ pend = Empty
  BY QuietInFlight DEF ThreadInv, ControlInv
<1>2. e[1] \in Vertex /\ e[2] \in Vertex
  BY EdgeFacts
<1>3. \A v \in {e[1], e[2]} : e \in sketch[v] <=> e \in graph
  BY <1>1, <1>2 DEF TrackInv, Empty, EndPoint
<1> QED BY <1>3 DEF Sum

LEMMA ValidUnchanged ==
  ASSUME ValidInv, UNCHANGED <<comp, graph, split>>, dsu_valid' => dsu_valid,
         Forest' = Forest, Doomed => Doomed'
  PROVE  ValidInv'
  BY DEF ValidInv

LEMMA ValidMerge ==
  ASSUME TypeOK, ThreadInv, PartitionInv, ControlInv, ValidInv, NEW t \in Thread, Merge(t)
  PROVE  ValidInv'
<1> DEFINE e == cur[t]
<1>1. e \in Edge /\ DsuMerge(e) /\ graph' = Xor(graph, {e}) /\ UNCHANGED <<sf, dsu_valid, split>>
  BY DEF Merge, ThreadInv, flag_vars, query_vars
<1>2. /\ spc[t] = "merge" /\ cur' = cur
      /\ spc'[t] = IF SameComp(e) THEN "lookup" ELSE "record"
      /\ \A o \in Thread : o # t => spc'[o] = spc[o]
  BY DEF Merge, TypeOK
<1>3. e \notin Recorded
  BY <1>2 DEF Recorded, ControlInv, Holds
<1> SUFFICES ASSUME dsu_valid', ~split', ~Doomed'
             PROVE  Forest' \subseteq graph' /\ Inside(comp', graph') /\ Spans(comp', Forest')
  BY DEF ValidInv
<1>4. ~Doomed
  BY <1>1, <1>2 DEF Doomed
<1>5. Forest \subseteq graph /\ Inside(comp, graph) /\ Spans(comp, Forest)
  BY <1>1, <1>4 DEF ValidInv
<1>6. graph \subseteq Edge /\ Forest \subseteq Edge
  BY <1>5 DEF TypeOK
<1>7. CASE SameComp(e)
  <2>1. comp' = comp
    BY <1>1, <1>7, MergeSame
  <2>2. Recorded' = Recorded
    BY <1>2, <1>7 DEF Recorded
  <2>3. e \notin sf
    BY <1>1, <1>2, <1>7 DEF Doomed
  <2>4. Forest' = Forest /\ e \notin Forest
    BY <1>1, <1>3, <2>2, <2>3 DEF Forest
  <2>5. Forest' \subseteq graph'
    BY <1>1, <1>5, <2>4 DEF Xor
  <2>6. Inside(comp', graph')
    BY <1>1, <1>5, <1>7, <2>1 DEF Inside, Xor, SameComp
  <2> QED BY <1>5, <2>1, <2>4, <2>5, <2>6
<1>8. CASE ~SameComp(e)
  <2>1. e \notin graph
    BY <1>5, <1>8 DEF Inside, SameComp
  <2>2. graph' = graph \cup {e}
    BY <1>1, <2>1 DEF Xor
  <2>3. Recorded' = Recorded \cup {e}
    BY <1>2, <1>8 DEF Recorded
  <2>4. Forest' = Forest \cup {e}
    BY <1>1, <2>3 DEF Forest
  <2>5. Inside(comp', graph \cup {e})
    BY <1>1, <1>5, <1>6, MergeInside
  <2>6. Spans(comp', Forest \cup {e})
    BY <1>1, <1>5, <1>6, MergeSpans
  <2> QED BY <1>5, <2>2, <2>4, <2>5, <2>6
<1> QED BY <1>7, <1>8

LEMMA ValidStream ==
  ASSUME TypeOK, ThreadInv, PartitionInv, ControlInv, ValidInv,
         NEW t \in Thread, StreamStep(t)
  PROVE  ValidInv'
<1> USE DEF dsu_vars, flag_vars, query_vars
<1>1. ASSUME NEW e \in Edge, PreInsertValid(t, e) PROVE ValidInv'
  <2>1. Recorded' = Recorded /\ (Doomed => Doomed')
    BY <1>1 DEF PreInsertValid, Recorded, Doomed, TypeOK
  <2> QED BY <1>1, <2>1, ValidUnchanged DEF PreInsertValid, Forest
<1>2. ASSUME NEW e \in Edge, PreInsertInvalid(t, e) PROVE ValidInv'
  BY <1>2 DEF PreInsertInvalid, ValidInv
<1>3. CASE Lock(t)
  <2>1. Recorded' = Recorded /\ (Doomed => Doomed')
    BY <1>3 DEF Lock, Recorded, Doomed, TypeOK
  <2> QED BY <1>3, <2>1, ValidUnchanged DEF Lock, Forest
<1>4. CASE Merge(t)
  BY <1>4, ValidMerge
<1>5. CASE Record(t)
  <2>1. /\ spc[t] = "record" /\ spc'[t] = "idle" /\ sf' = sf \cup {cur[t]}
        /\ \A o \in Thread : o # t => spc'[o] = spc[o] /\ cur'[o] = cur[o]
    BY <1>5 DEF Record, GtsInsert, TypeOK
  <2>2. cur[t] \in Recorded /\ Recorded' \subseteq Recorded
    BY <2>1 DEF Recorded
  <2>3. \A d \in Recorded : d = cur[t] \/ d \in Recorded'
    BY <2>1 DEF Recorded
  <2>4. Forest' = Forest
    BY <2>1, <2>2, <2>3 DEF Forest
  <2>5. Doomed => Doomed'
    BY <2>1 DEF Doomed
  <2> QED BY <1>5, <2>4, <2>5, ValidUnchanged DEF Record
<1>6. CASE LookupMiss(t)
  <2>1. /\ spc[t] = "lookup" /\ spc'[t] = "idle" /\ sf' = sf /\ cur[t] \notin sf
        /\ \A o \in Thread : o # t => spc'[o] = spc[o] /\ cur'[o] = cur[o]
    BY <1>6 DEF LookupMiss, GtsInsert, TypeOK
  <2>2. Recorded' = Recorded
    BY <2>1 DEF Recorded
  <2>3. Doomed => Doomed'
    BY <2>1 DEF Doomed
  <2> QED BY <1>6, <2>1, <2>2, <2>3, ValidUnchanged DEF LookupMiss, Forest
<1>7. CASE LookupHit(t)
  BY <1>7 DEF LookupHit, ValidInv
<1>8. CASE InvalidateShared(t)
  BY <1>8 DEF InvalidateShared, ValidInv, ControlInv
<1> QED BY <1>1, <1>2, <1>3, <1>4, <1>5, <1>6, <1>7, <1>8 DEF StreamStep

LEMMA QuietFacts ==
  ASSUME Quiet
  PROVE  Forest = sf /\ ~Doomed
  BY DEF Quiet, Forest, Recorded, Doomed

LEMMA ValidUpdate ==
  ASSUME TypeOK, ThreadInv, PartitionInv, ValidInv, NEW e \in Edge, Update(e)
  PROVE  ValidInv'
<1>1. /\ upc = "ready" /\ UNCHANGED <<spc, cur, split>> /\ graph' = Xor(graph, {e})
  BY DEF Update, query_vars
<1>2. Quiet /\ Quiet'
  BY <1>1 DEF ThreadInv, Quiet
<1>3. Forest = sf /\ ~Doomed /\ Forest' = sf' /\ ~Doomed'
  BY <1>2 DEF Quiet, Forest, Recorded, Doomed
<1> SUFFICES ASSUME dsu_valid', ~split'
             PROVE  sf' \subseteq graph' /\ Inside(comp', graph') /\ Spans(comp', sf')
  BY <1>3 DEF ValidInv
<1>4. /\ dsu_valid /\ DsuMerge(e)
      /\ sf' = IF SameComp(e) THEN sf ELSE sf \cup {e}
      /\ ~(SameComp(e) /\ e \in sf)
  BY DEF Update, flag_vars
<1>5. sf \subseteq graph /\ Inside(comp, graph) /\ Spans(comp, sf)
  BY <1>1, <1>3, <1>4 DEF ValidInv
<1>6. graph \subseteq Edge /\ sf \subseteq Edge
  BY DEF TypeOK
<1>7. CASE SameComp(e)
  <2>1. comp' = comp
    BY <1>4, <1>7, MergeSame
  <2>2. sf' = sf /\ e \notin sf
    BY <1>4, <1>7
  <2>3. Inside(comp', graph')
    BY <1>1, <1>5, <1>7, <2>1 DEF Inside, Xor, SameComp
  <2> QED BY <1>1, <1>5, <2>1, <2>2, <2>3 DEF Xor
<1>8. CASE ~SameComp(e)
  <2>1. graph' = graph \cup {e}
    BY <1>1, <1>5, <1>8 DEF Inside, SameComp, Xor
  <2>2. sf' = sf \cup {e}
    BY <1>4, <1>8
  <2>3. Inside(comp', graph \cup {e})
    BY <1>4, <1>5, <1>6, MergeInside
  <2>4. Spans(comp', sf \cup {e})
    BY <1>4, <1>5, <1>6, MergeSpans
  <2> QED BY <1>5, <2>1, <2>2, <2>3, <2>4
<1> QED BY <1>7, <1>8

LEMMA ValidUser ==
  ASSUME TypeOK, ThreadInv, PartitionInv, ControlInv, ValidInv, UserStep
  PROVE  ValidInv'
<1> USE DEF dsu_vars, flag_vars, query_vars
<1>1. CASE UNCHANGED <<comp, sf, graph, dsu_valid, split, spc, cur>>
  BY <1>1, ValidUnchanged DEF Forest, Recorded, Doomed
<1>2. CASE ~dsu_valid'
  BY <1>2 DEF ValidInv
<1>3. ASSUME NEW e \in Edge, Update(e) PROVE ValidInv'
  BY <1>3, ValidUpdate
<1>4. CASE ConnectedComponents \/ PointQuery
  BY <1>2, <1>4 DEF ConnectedComponents, PointQuery, BoruvkaStart, ControlInv
<1>5. CASE Reheat
  BY <1>2, <1>5 DEF Reheat
<1>6. CASE \/ ProcessStreamUntil \/ Breakpoint \/ PrepQueryCached \/ PrepQuery \/ WriteBinary
  BY <1>1, <1>6 DEF ProcessStreamUntil, Breakpoint, PrepQueryCached, PrepQuery, WriteBinary
<1> QED BY <1>3, <1>4, <1>5, <1>6 DEF UserStep

\* The round that changed nothing has seen every component closed.
LEMMA ValidQuery ==
  ASSUME TypeOK, ThreadInv, PartitionInv, ControlInv, ValidInv, BoruvkaInv, QueryStep
  PROVE  ValidInv'
<1> USE DEF dsu_vars, flag_vars, query_vars
<1>1. CASE BoruvkaDone
  <2>1. /\ upc = "boruvka" /\ todo = {} /\ ~modified
        /\ UNCHANGED <<graph, comp, sf, split, spc, cur>>
    BY <1>1 DEF BoruvkaDone, UserGoto
  <2> SUFFICES ASSUME ~split PROVE ValidInv'
    BY <2>1 DEF ValidInv
  <2>2. sf \subseteq graph /\ Spans(comp, sf) /\ \A v \in Vertex : Closed(comp[v], graph)
    BY <2>1 DEF BoruvkaInv
  <2>3. Forest' = sf
    BY <2>1 DEF ThreadInv, Forest, Recorded
  <2>4. Inside(comp, graph)
    <3> SUFFICES ASSUME NEW e \in graph PROVE comp[e[1]] = comp[e[2]]
      BY DEF Inside
    <3>1. e[1] \in Vertex /\ e[2] \in Vertex
      BY EdgeFacts DEF TypeOK
    <3>2. e[2] \in comp[e[1]]
      BY <2>2, <3>1 DEF Closed, PartitionInv
    <3> QED BY <3>1, <3>2 DEF PartitionInv
  <2> QED BY <2>1, <2>2, <2>3, <2>4 DEF ValidInv
<1>2. CASE ~BoruvkaDone
  <2>1. upc = "boruvka" /\ UNCHANGED dsu_valid
    BY <1>2 DEF QueryStep, SampleStep, SampleZero, SampleGood, SampleFail, Sampled,
       NextRound, OutOfSamples, UserGoto
  <2> QED BY <2>1 DEF ControlInv, ValidInv
<1> QED BY <1>1, <1>2

LEMMA ValidStep ==
  ASSUME TypeOK, ThreadInv, PartitionInv, ControlInv, ValidInv, BoruvkaInv, [Next]_vars
  PROVE  ValidInv'
<1> USE DEF dsu_vars, flag_vars, query_vars
<1>1. CASE UNCHANGED <<comp, sf, graph, dsu_valid, split, spc, cur>>
  BY <1>1, ValidUnchanged DEF Forest, Recorded, Doomed
<1>2. CASE WorkerStep
  BY <1>1, <1>2 DEF WorkerStep, ApplyUpdateBatch, ApplyUpdateLocked
<1>3. CASE UNCHANGED vars
  BY <1>1, <1>3 DEF vars
<1> QED BY <1>2, <1>3, ValidStream, ValidUser, ValidQuery DEF Next

LEMMA BoruvkaUser ==
  ASSUME ThreadInv, BoruvkaInv, UserStep
  PROVE  BoruvkaInv'
<1>1. CASE BoruvkaStart
  <2>1. comp' = Singletons /\ sf' = {} /\ todo' = {{v} : v \in Vertex}
    BY <1>1 DEF BoruvkaStart
  <2>2. Spans(Singletons, {})
    BY DEF Spans, Singletons
  <2>3. \A S \in todo' : \A v \in S : comp'[v] = S
    BY <2>1 DEF Singletons
  <2>4. \A v \in Vertex : comp'[v] \in todo'
    BY <2>1 DEF Singletons
  <2> QED BY <2>1, <2>2, <2>3, <2>4 DEF BoruvkaInv
<1>2. CASE ~BoruvkaStart
  <2>1. upc' # "boruvka"
    BY <1>2 DEF UserStep, ProcessStreamUntil, Breakpoint, PrepQueryCached, PrepQuery,
       ConnectedComponents, PointQuery, WriteBinary, Reheat, Update, UserGoto
  <2> QED BY <2>1 DEF BoruvkaInv
<1> QED BY <1>1, <1>2

LEMMA BoruvkaSample ==
  ASSUME TypeOK, ThreadInv, PartitionInv, ControlInv, TrackInv, BoruvkaInv,
         NEW S \in todo, SampleZero(S) \/ SampleGood(S) \/ SampleFail(S)
  PROVE  BoruvkaInv'
<1> USE DEF dsu_vars
<1>1. upc = "boruvka" /\ todo' = todo \ {S} /\ UNCHANGED <<graph, split>> /\ S \in SUBSET Vertex
  BY DEF SampleZero, SampleGood, SampleFail, Sampled, TypeOK
<1>2. sf \subseteq graph /\ Spans(comp, sf) /\ sf \subseteq Edge
  BY <1>1 DEF BoruvkaInv, TypeOK
<1>3. CASE SampleZero(S)
  <2>1. Sum(S) = {} /\ UNCHANGED <<comp, sf, modified>>
    BY <1>3 DEF SampleZero
  <2>2. Closed(S, graph)
    BY <1>1, <2>1, SumIsCut DEF Closed, TypeOK
  <2> QED BY <1>1, <1>2, <2>1, <2>2 DEF BoruvkaInv
<1>4. CASE SampleFail(S)
  <2>1. modified' /\ UNCHANGED <<comp, sf>>
    BY <1>4 DEF SampleFail
  <2> QED BY <1>1, <1>2, <2>1 DEF BoruvkaInv
<1>5. CASE SampleGood(S)
  <2>1. PICK e \in Sum(S) :
          \/ DsuMerge(e) /\ sf' = sf \cup {e} /\ modified'
          \/ SameComp(e) /\ UNCHANGED <<comp, sf, modified>>
    BY <1>5 DEF SampleGood
  <2>2. e \in Edge
    BY DEF Sum
  <2>3. e \in graph /\ ((e[1] \in S) # (e[2] \in S))
    BY <1>1, <2>2, SumIsCut
  <2>4. CASE DsuMerge(e) /\ sf' = sf \cup {e} /\ modified'
    <3>1. Spans(comp', sf \cup {e})
      BY <1>2, <2>2, <2>4, MergeSpans
    <3> QED BY <1>1, <1>2, <2>3, <2>4, <3>1 DEF BoruvkaInv
  <2>5. CASE SameComp(e) /\ UNCHANGED <<comp, sf, modified>>
    <3>1. ~(~split /\ ~modified)
      <4> SUFFICES ASSUME ~split, ~modified PROVE FALSE
        OBVIOUS
      <4>1. \A v \in S : comp[v] = S
        BY <1>1 DEF BoruvkaInv
      <4>2. e[1] \in comp[e[1]] /\ e[2] \in comp[e[2]]
        BY <2>2, EdgeFacts DEF PartitionInv
      <4> QED BY <2>3, <2>5, <4>1, <4>2 DEF SameComp
    <3> QED BY <1>1, <1>2, <2>5, <3>1 DEF BoruvkaInv
  <2> QED BY <2>1, <2>4, <2>5
<1> QED BY <1>3, <1>4, <1>5

LEMMA BoruvkaStep ==
  ASSUME TypeOK, ThreadInv, PartitionInv, ControlInv, TrackInv, BoruvkaInv, [Next]_vars
  PROVE  BoruvkaInv'
<1> USE DEF dsu_vars, flag_vars, query_vars
<1>1. ASSUME NEW t \in Thread, StreamStep(t) PROVE BoruvkaInv'
  <2>1. upc' = "stream"
    BY <1>1 DEF StreamStep, PreInsertValid, PreInsertInvalid, Lock, Merge, Record,
       LookupMiss, LookupHit, InvalidateShared
  <2> QED BY <2>1 DEF BoruvkaInv
<1>2. CASE UNCHANGED <<upc, sf, graph, comp, modified, split, todo>>
  BY <1>2 DEF BoruvkaInv
<1>3. CASE WorkerStep
  BY <1>2, <1>3 DEF WorkerStep, ApplyUpdateBatch, ApplyUpdateLocked, BoruvkaInv
<1>4. CASE QueryStep
  <2>1. CASE NextRound
    <3>1. /\ upc = "boruvka" /\ UNCHANGED <<sf, graph, comp>>
      BY <2>1 DEF NextRound
    <3>2. PICK lab \in Labels : todo' = Supernodes(lab) /\ split' = ~Exact(lab)
      BY <2>1 DEF NextRound
    <3>3. ASSUME ~split', NEW v \in Vertex
          PROVE  {x \in Vertex : lab[x] = lab[v]} = comp[v]
      <4>1. \A x \in Vertex : lab[x] \in comp[x] /\ lab[x] \in Vertex
        BY <3>2 DEF Labels
      <4>2. \A x \in comp[v] : lab[x] = lab[v]
        BY <3>2, <3>3 DEF Exact
      <4>3. ASSUME NEW x \in Vertex, lab[x] = lab[v] PROVE x \in comp[v]
        BY <4>1, <4>3 DEF PartitionInv
      <4> QED BY <4>2, <4>3 DEF TypeOK
    <3>4. ~split' => /\ \A S \in todo' : \A v \in S : comp[v] = S
                     /\ \A v \in Vertex : comp[v] \in todo'
      <4> SUFFICES ASSUME ~split' PROVE /\ \A S \in todo' : \A v \in S : comp[v] = S
                                        /\ \A v \in Vertex : comp[v] \in todo'
        OBVIOUS
      <4>1. \A v \in Vertex : {x \in Vertex : lab[x] = lab[v]} = comp[v]
        BY <3>3
      <4>2. \A v \in Vertex : comp[v] \in todo'
        BY <3>2, <4>1 DEF Supernodes
      <4>3. \A S \in todo' : \E v \in Vertex : S = comp[v]
        BY <3>2, <4>1 DEF Supernodes
      <4> QED BY <4>2, <4>3 DEF PartitionInv, TypeOK
    <3> QED BY <3>1, <3>4 DEF BoruvkaInv
  <2>2. CASE BoruvkaDone \/ OutOfSamples
    BY <2>2 DEF BoruvkaDone, OutOfSamples, UserGoto, BoruvkaInv
  <2>3. CASE SampleStep
    BY <2>3, BoruvkaSample DEF SampleStep
  <2> QED BY <1>4, <2>1, <2>2, <2>3 DEF QueryStep
<1>5. CASE UNCHANGED vars
  BY <1>2, <1>5 DEF vars
<1> QED BY <1>1, <1>3, <1>4, <1>5, BoruvkaUser DEF Next

LEMMA BoruvkaInvariant ==
  ASSUME ~WriteUnflushed
  PROVE  Spec => []BoruvkaInv
<1>1. Init => BoruvkaInv
  BY DEF Init, BoruvkaInv
<1>2. TypeOK /\ ThreadInv /\ PartitionInv /\ ControlInv /\ TrackInv
        /\ BoruvkaInv /\ [Next]_vars => BoruvkaInv'
  BY BoruvkaStep
<1> QED BY <1>1, <1>2, TypeInvariant, PartitionInvariant, ControlInvariant,
           TrackInvariant, PTL DEF Spec

\* Boruvka never joins two vertices that the graph does not connect, and the
\* forest it builds is made of edges of the graph: in every state of every
\* query, whichever samples fail and whatever labels find_root returns.
THEOREM BoruvkaAlwaysSound ==
  ASSUME ~WriteUnflushed
  PROVE  Spec => []BoruvkaSound
<1>1. TypeOK /\ BoruvkaInv => BoruvkaSound
  <2> SUFFICES ASSUME TypeOK, BoruvkaInv, upc = "boruvka",
                      NEW x \in Vertex, NEW y \in comp[x],
                      NEW S \in SUBSET Vertex, x \in S, Closed(S, graph)
               PROVE  y \in S
    BY DEF BoruvkaSound, Connected, BoruvkaInv
  <2>1. sf \subseteq graph /\ Spans(comp, sf)
    BY DEF BoruvkaInv
  <2>2. Closed(S, sf)
    BY <2>1 DEF Closed
  <2> QED BY <2>1, <2>2 DEF Spans
<1> QED BY <1>1, TypeInvariant, BoruvkaInvariant, PTL

LEMMA AnswerInvariant ==
  ASSUME ~WriteUnflushed
  PROVE  Spec => []ValidInv
<1>1. Init => ValidInv
  <2> SUFFICES ASSUME Init PROVE ValidInv
    OBVIOUS
  <2>1. Forest = {} /\ graph = {} /\ comp = Singletons
    BY DEF Init, Forest, Recorded
  <2>2. Spans(Singletons, {})
    BY DEF Spans, Singletons
  <2> QED BY <2>1, <2>2 DEF ValidInv, Inside
<1>2. TypeOK /\ ThreadInv /\ PartitionInv /\ ControlInv /\ BoruvkaInv
        /\ ValidInv /\ [Next]_vars => ValidInv'
  BY ValidStep
<1> QED BY <1>1, <1>2, TypeInvariant, PartitionInvariant, ControlInvariant,
           BoruvkaInvariant, PTL DEF Spec

\* A query answered from the DSU is right for every number of vertices, stream
\* threads and updates: while the DSU counts as valid and no thread is inside
\* pre_insert, its components are the connected components of the graph,
\* unless labels that are not roots split one in the last round of the query.
THEOREM AnswerAlwaysRight ==
  ASSUME ~WriteUnflushed
  PROVE  Spec => []AnswerRight
<1>1. TypeOK /\ PartitionInv /\ ControlInv /\ ValidInv => AnswerRight
  <2> SUFFICES ASSUME TypeOK, PartitionInv, ControlInv, ValidInv,
                      Quiet, shared_dsu_valid, ~split,
                      NEW x \in Vertex, NEW y \in Vertex
               PROVE  y \in comp[x] <=> Connected(x, y, graph)
    BY DEF AnswerRight
  <2>1. dsu_valid
    BY DEF ControlInv, Quiet
  <2>2. sf \subseteq graph /\ Inside(comp, graph) /\ Spans(comp, sf)
    BY <2>1, QuietFacts DEF ValidInv
  <2>3. ASSUME y \in comp[x], NEW S \in SUBSET Vertex, x \in S, Closed(S, graph)
        PROVE  y \in S
    <3>1. Closed(S, sf)
      BY <2>2, <2>3 DEF Closed
    <3> QED BY <2>2, <2>3, <3>1 DEF Spans
  <2>4. ASSUME Connected(x, y, graph) PROVE y \in comp[x]
    <3>1. comp[x] \in SUBSET Vertex /\ x \in comp[x]
      BY DEF TypeOK, PartitionInv
    <3>2. Closed(comp[x], graph)
      <4> SUFFICES ASSUME NEW e \in graph PROVE e[1] \in comp[x] <=> e[2] \in comp[x]
        BY DEF Closed
      <4>1. e[1] \in Vertex /\ e[2] \in Vertex
        BY EdgeFacts DEF TypeOK
      <4>2. comp[e[1]] = comp[e[2]]
        BY <2>2 DEF Inside
      <4> QED BY <4>1, <4>2 DEF PartitionInv
    <3> QED BY <2>4, <3>1, <3>2 DEF Connected
  <2> QED BY <2>3, <2>4 DEF Connected
<1> QED BY <1>1, TypeInvariant, PartitionInvariant, ControlInvariant, AnswerInvariant, PTL
=============================================================================
