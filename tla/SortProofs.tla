----------------------------- MODULE SortProofs -----------------------------
(***************************************************************************)
(* Theorems about create_merge_instructions in MergeRound, for any number  *)
(* of vertices, any labels and any team whose shares are in order: the     *)
(* concurrent counting sort is right, and no access is out of bounds.      *)
(***************************************************************************)
EXTENDS MergeRound, FiniteSetTheorems, NatLemmas, TLAPS

\* get_ith_partition cuts the positions into nonempty shares, one per thread.
\* The double arithmetic does so for most numbers of vertices and threads, but
\* not for 29 and 7, nor with more threads than vertices; NoWildAccess then
\* fails (round_overrun, round_crowded).
SharesRight ==
  \A T \in ThreadCounts :
    /\ Bound(N, 0, T) = 0 /\ Bound(N, T, T) = N
    /\ \A t \in 0 .. T : Bound(N, t, T) \in Nat
    /\ \A s, t \in 0 .. T : s < t => Bound(N, s, T) < Bound(N, t, T)

-----------------------------------------------------------------------------
(* The inductive invariant *)

\* Positions whose vertices have their labels in S.
Labelled(S) == {p \in Vertex : Label(p) \in S}

\* Positions with this label in shares whose threads have captured their place.
Placed(root) == {p \in Vertex : Label(p) = root /\ local_cc_idx[Owner(p)][root] # None}

SortType ==
  /\ num_threads \in ThreadCounts
  /\ cur_round \in 0 .. NumSamples
  /\ phase \in Phases
  /\ lab \in [Vertex -> Vertex]
  /\ merge_instr \in [Vertex -> MergeInstr]
  /\ cc_prefix \in [Vertex -> Nat]
  /\ range_sums \in [Tid -> Nat]
  /\ local_cc_idx \in [Tid -> [Vertex -> Nat \cup {None}]]

\* merge_instr is a permutation of the vertices.
Permutation ==
  /\ \A v \in Vertex : \E p \in Vertex : merge_instr[p].child = v
  /\ \A p, q \in Vertex : merge_instr[p].child = merge_instr[q].child => p = q

Sorting == {"capture", "sum", "range", "finish", "write"}

\* The captured values keep places for the shares, and the places of different
\* shares with one label apart.
PlacesApart ==
  \A root \in Vertex : \A t \in Team : local_cc_idx[t][root] # None =>
    /\ LocalCc(t, root) # {}
    /\ local_cc_idx[t][root] + Cardinality(LocalCc(t, root)) <= Cardinality(Placed(root))
    /\ \A o \in Team \ {t} : local_cc_idx[o][root] # None =>
         \/ local_cc_idx[t][root] + Cardinality(LocalCc(t, root)) <= local_cc_idx[o][root]
         \/ local_cc_idx[o][root] + Cardinality(LocalCc(o, root)) <= local_cc_idx[t][root]

\* What cc_prefix counts, barrier by barrier.
Counts ==
  /\ phase = "capture" => \A root \in Vertex : cc_prefix[root] = Cardinality(Placed(root))
  /\ phase = "sum" => \A root \in Vertex : cc_prefix[root] = Cardinality(Labelled({root}))
  /\ phase \in {"range", "finish"} =>
       \A i \in Vertex : cc_prefix[i] = Cardinality(Labelled(Start(Owner(i)) .. i))
  /\ phase = "finish" =>
       \A t \in Team : range_sums[t] = Cardinality(Labelled(0 .. Start(t) - 1))
  /\ phase = "write" => \A i \in Vertex : cc_prefix[i] = Cardinality(Labelled(0 .. i))

SortInv ==
  /\ SortType
  /\ Permutation
  /\ phase \notin Sorting =>
       cc_prefix = Zeros(Vertex) /\ range_sums = Zeros(Tid) /\ local_cc_idx = NoCapture
  /\ phase \in Sorting => PlacesApart
  /\ phase \in Sorting \ {"capture"} => AllCaptured
  /\ Counts
  /\ InstructionsRight
  /\ NoWildAccess

-----------------------------------------------------------------------------
(* Shares and counting *)

LEMMA VertexFacts == N \in Nat /\ N > 0 /\ Vertex \subseteq Nat /\ 0 \in Vertex /\ N - 1 \in Vertex
  BY NAssumption DEF Vertex

LEMMA TeamFacts ==
  ASSUME num_threads \in ThreadCounts
  PROVE  /\ num_threads \in Nat /\ num_threads > 0
         /\ Team \subseteq Nat /\ Team \subseteq Tid /\ 0 \in Team
<1>1. num_threads \in Nat /\ num_threads > 0
  BY ThreadAssumption
<1>2. MaxThreads \in ThreadCounts /\ \A T \in ThreadCounts : T <= MaxThreads
  <2>1. PICK most \in ThreadCounts : \A T \in ThreadCounts : T <= most
    BY ThreadAssumption
  <2> DEFINE P(x) == x \in ThreadCounts /\ \A T \in ThreadCounts : x >= T
  <2>2. P(most)
    BY <2>1, ThreadAssumption
  <2>3. MaxThreads = CHOOSE x \in ThreadCounts : \A T \in ThreadCounts : x >= T
    BY DEF MaxThreads, Max
  <2>4. P(MaxThreads)
    BY <2>2, <2>3, Zenon
  <2> QED BY <2>4, ThreadAssumption
<1>3. num_threads <= MaxThreads /\ MaxThreads \in Nat
  BY <1>2, ThreadAssumption
<1> QED BY <1>1, <1>3 DEF Team, Tid

LEMMA ShareFacts ==
  ASSUME SharesRight, num_threads \in ThreadCounts, NEW t \in Team
  PROVE  /\ Start(t) \in Nat /\ End(t) \in Nat /\ Start(t) < End(t) /\ End(t) <= N
         /\ Start(0) = 0
         /\ t = num_threads - 1 => End(t) = N
         /\ t > 0 => t - 1 \in Team /\ End(t - 1) = Start(t)
         /\ Share(t) \subseteq Vertex /\ Start(t) \in Share(t)
         /\ \A o \in Team : o < t => End(o) <= Start(t)
<1> DEFINE T == num_threads
           B(x) == Bound(N, x, T)
<1>1. T \in Nat /\ T > 0 /\ t \in Nat /\ t < T /\ N \in Nat
  BY TeamFacts, VertexFacts DEF Team
<1>2. \A x \in 0 .. T : IthPartitions[T][x] = B(x)
  BY DEF IthPartitions
<1>3. /\ B(0) = 0 /\ B(T) = N /\ \A x \in 0 .. T : B(x) \in Nat
      /\ \A x, y \in 0 .. T : x < y => B(x) < B(y)
  BY DEF SharesRight
<1> HIDE DEF B
<1>4. \A x \in Team : Start(x) = B(x) /\ End(x) = B(x + 1)
  BY <1>1, <1>2 DEF Team, Start, End
<1>5. t \in 0 .. T /\ t + 1 \in 0 .. T /\ 0 \in 0 .. T /\ T \in 0 .. T /\ 0 \in Team
  BY <1>1 DEF Team
<1>6. Start(t) \in Nat /\ End(t) \in Nat /\ Start(t) < End(t)
  BY <1>1, <1>3, <1>4, <1>5
<1>7. End(t) <= N
  BY <1>1, <1>3, <1>4, <1>5
<1>8. t > 0 => t - 1 \in Team /\ End(t - 1) = Start(t)
  BY <1>1, <1>4 DEF Team
<1>9. ASSUME NEW o \in Team, o < t PROVE End(o) <= Start(t)
  <2>1. o \in Nat /\ o + 1 \in 0 .. T /\ (o + 1 < t \/ o + 1 = t)
    BY <1>1, <1>9 DEF Team
  <2> QED BY <1>3, <1>4, <1>5, <2>1
<1>10. Start(0) = 0 /\ (t = T - 1 => End(t) = N)
  BY <1>1, <1>3, <1>4, <1>5
<1>11. Share(t) \subseteq Vertex /\ Start(t) \in Share(t)
  BY <1>1, <1>6, <1>7 DEF Share, Vertex
<1> QED BY <1>6, <1>7, <1>8, <1>9, <1>10, <1>11

\* Every position is in the share of exactly one thread.
LEMMA OwnerFacts ==
  ASSUME SharesRight, num_threads \in ThreadCounts, NEW p \in Vertex
  PROVE  /\ Owner(p) \in Team /\ p \in Share(Owner(p))
         /\ \A t \in Team : p \in Share(t) => t = Owner(p)
<1>1. \E t \in Team : p \in Share(t)
  <2> DEFINE Past == {t \in Team : p < End(t)}
  <2>1. num_threads - 1 \in Team /\ p \in Nat /\ p < N /\ Team \subseteq Nat
    BY TeamFacts, VertexFacts DEF Team, Vertex
  <2>2. num_threads - 1 \in Past
    BY <2>1, ShareFacts
  <2>3. Past \subseteq Nat /\ Past # {}
    BY <2>1, <2>2
  <2>4. PICK t \in Past : \A y \in Past : t <= y
    BY <2>3, LeastNat
  <2>5. t \in Team /\ t \in Nat /\ p < End(t) /\ Start(t) \in Nat /\ End(t) \in Nat
    BY <2>1, <2>4, ShareFacts
  <2>6. Start(t) <= p
    <3>1. CASE t = 0
      BY <2>1, <2>5, <3>1, ShareFacts
    <3>2. CASE t > 0
      <4>1. t - 1 \in Team /\ End(t - 1) = Start(t)
        BY <2>5, <3>2, ShareFacts
      <4>2. t - 1 \notin Past
        BY <2>4, <2>5
      <4> QED BY <2>1, <2>5, <4>1, <4>2
    <3> QED BY <2>5, <3>1, <3>2
  <2> QED BY <2>1, <2>5, <2>6 DEF Share
<1>2. ASSUME NEW s \in Team, NEW t \in Team, p \in Share(s), p \in Share(t) PROVE s = t
  <2>1. s \in Nat /\ t \in Nat
    BY TeamFacts
  <2>2. /\ Start(s) \in Nat /\ End(s) \in Nat /\ Start(t) \in Nat /\ End(t) \in Nat
        /\ s < t => End(s) <= Start(t)
        /\ t < s => End(t) <= Start(s)
    BY ShareFacts
  <2> QED BY <1>2, <2>1, <2>2 DEF Share
<1>3. Owner(p) \in Team /\ p \in Share(Owner(p))
  BY <1>1 DEF Owner
<1> QED BY <1>2, <1>3

LEMMA Counting ==
  /\ IsFiniteSet(Vertex) /\ Cardinality(Vertex) = N
  /\ \A S \in SUBSET Vertex : Cardinality(S) \in Nat /\ Cardinality(S) <= N /\ IsFiniteSet(S)
  /\ \A S, T \in SUBSET Vertex : S \subseteq T => Cardinality(S) <= Cardinality(T)
  /\ \A S, T \in SUBSET Vertex : S \cap T = {} => Cardinality(S \cup T) = Cardinality(S) + Cardinality(T)
  /\ \A S \in SUBSET Vertex : Cardinality(S) = 0 <=> S = {}
  /\ \A S, T \in SUBSET Vertex : S \subseteq T /\ S # T => Cardinality(S) < Cardinality(T)
<1>1. IsFiniteSet(Vertex) /\ Cardinality(Vertex) = N
  <2>1. 0 \in Int /\ N - 1 \in Int /\ ~(0 > N - 1) /\ N - 1 - 0 + 1 = N
    BY VertexFacts
  <2>2. IsFiniteSet(0 .. N - 1) /\ Cardinality(0 .. N - 1) = N - 1 - 0 + 1
    BY <2>1, FS_Interval
  <2> QED BY <2>1, <2>2 DEF Vertex
<1>2. ASSUME NEW S \in SUBSET Vertex
      PROVE  Cardinality(S) \in Nat /\ Cardinality(S) <= N /\ IsFiniteSet(S)
  BY <1>1, FS_Subset, FS_CardinalityType
<1>3. ASSUME NEW S \in SUBSET Vertex, NEW T \in SUBSET Vertex, S \subseteq T
      PROVE  Cardinality(S) <= Cardinality(T) /\ (S # T => Cardinality(S) # Cardinality(T))
  BY <1>2, <1>3, FS_Subset
<1>4. ASSUME NEW S \in SUBSET Vertex, NEW T \in SUBSET Vertex, S \cap T = {}
      PROVE  Cardinality(S \cup T) = Cardinality(S) + Cardinality(T)
  <2>1. Cardinality(S \cup T) = Cardinality(S) + Cardinality(T) - Cardinality(S \cap T)
    BY <1>2, FS_Union
  <2>2. Cardinality(S \cap T) = 0
    BY <1>4, FS_EmptySet
  <2> QED BY <1>2, <2>1, <2>2
<1>5. \A S \in SUBSET Vertex : Cardinality(S) = 0 <=> S = {}
  BY <1>2, FS_EmptySet
<1>6. ASSUME NEW S \in SUBSET Vertex, NEW T \in SUBSET Vertex, S \subseteq T, S # T
      PROVE  Cardinality(S) < Cardinality(T)
  BY <1>2, <1>3, <1>6
<1> QED BY <1>1, <1>2, <1>3, <1>4, <1>5, <1>6

LEMMA LabelFacts ==
  ASSUME SharesRight, SortType
  PROVE  /\ \A p \in Vertex : Label(p) \in Vertex
         /\ \A t \in Team : \A root : \A p : p \in LocalCc(t, root) <=>
              p \in Vertex /\ Owner(p) = t /\ Label(p) = root
         /\ \A t \in Team : \A root : LocalCc(t, root) \subseteq Vertex
         /\ \A root : Placed(root) \subseteq Labelled({root})
<1>1. ASSUME NEW p \in Vertex PROVE Label(p) \in Vertex
  BY DEF Label, SortType, MergeInstr
<1>2. ASSUME NEW t \in Team, NEW root, NEW p
      PROVE  p \in LocalCc(t, root) <=> p \in Vertex /\ Owner(p) = t /\ Label(p) = root
  <2>1. Share(t) \subseteq Vertex
    BY ShareFacts DEF SortType
  <2>2. p \in Vertex => (p \in Share(t) <=> Owner(p) = t)
    BY OwnerFacts DEF SortType
  <2> QED BY <2>1, <2>2 DEF LocalCc
<1>3. \A root : Placed(root) \subseteq Labelled({root})
  BY DEF Placed, Labelled
<1> QED BY <1>1, <1>2, <1>3

\* Vertices are counted label by label.
LEMMA LabelledFacts ==
  /\ \A S : Labelled(S) \in SUBSET Vertex
  /\ \A S : Cardinality(Labelled(S)) \in Nat
  /\ \A S, T : S \subseteq T => Cardinality(Labelled(S)) <= Cardinality(Labelled(T))
  /\ \A S, T : S \cap T = {} =>
       Cardinality(Labelled(S \cup T)) = Cardinality(Labelled(S)) + Cardinality(Labelled(T))
  /\ Cardinality(Labelled({})) = 0
<1>1. \A S : Labelled(S) \in SUBSET Vertex
  BY DEF Labelled
<1>2. ASSUME NEW S, NEW T, S \subseteq T PROVE Labelled(S) \subseteq Labelled(T)
  BY <1>2 DEF Labelled
<1>3. ASSUME NEW S, NEW T, S \cap T = {}
      PROVE  Labelled(S \cup T) = Labelled(S) \cup Labelled(T) /\ Labelled(S) \cap Labelled(T) = {}
  BY <1>3 DEF Labelled
<1>4. Labelled({}) = {}
  BY DEF Labelled
<1> QED BY <1>1, <1>2, <1>3, <1>4, Counting

-----------------------------------------------------------------------------
(* Steps that leave the sort alone *)

LEMMA SameSort ==
  ASSUME UNCHANGED <<num_threads, lab, merge_instr>>
  PROVE  /\ Team' = Team
         /\ \A t : Start(t)' = Start(t) /\ End(t)' = End(t) /\ Share(t)' = Share(t)
         /\ \A p : Owner(p)' = Owner(p) /\ Label(p)' = Label(p)
         /\ \A t, root : LocalCc(t, root)' = LocalCc(t, root)
         /\ \A S : Labelled(S)' = Labelled(S)
         /\ \A i : Labelled(Start(Owner(i)) .. i)' = Labelled(Start(Owner(i)) .. i)
         /\ \A t : Labelled(0 .. Start(t) - 1)' = Labelled(0 .. Start(t) - 1)
<1>1. /\ Team' = Team
      /\ \A t : Start(t)' = Start(t) /\ End(t)' = End(t) /\ Share(t)' = Share(t)
  BY DEF Team, Start, End, Share
<1>2. \A p : Label(p)' = Label(p)
  BY DEF Label
<1>3. \A p : Owner(p)' = Owner(p)
  BY <1>1 DEF Owner
<1>4. \A t, root : LocalCc(t, root)' = LocalCc(t, root)
  BY <1>1, <1>2 DEF LocalCc
<1>5. \A S : Labelled(S)' = Labelled(S)
  BY <1>2 DEF Labelled
<1>6. \A i : Start(Owner(i))' = Start(Owner(i))
  BY <1>3 DEF Start
<1>7. \A i : Labelled(Start(Owner(i)) .. i)' = Labelled(Start(Owner(i)) .. i)
  BY <1>2, <1>6 DEF Labelled
<1>8. \A t : Labelled(0 .. Start(t) - 1)' = Labelled(0 .. Start(t) - 1)
  BY <1>1, <1>2 DEF Labelled
<1> QED BY <1>1, <1>2, <1>3, <1>4, <1>5, <1>7, <1>8

\* A step outside of create_merge_instructions.
LEMMA SortKept ==
  ASSUME SortInv, UNCHANGED <<num_threads, cur_round, lab, merge_instr, sort_vars>>,
         \/ phase' = phase
         \/ phase = "begin" /\ phase' = "round"
         \/ phase = "round" /\ phase' = "between"
  PROVE  SortInv'
<1>0. UNCHANGED <<cc_prefix, range_sums, local_cc_idx>>
  BY DEF sort_vars
<1>1. SortType'
  BY <1>0 DEF SortInv, SortType, Phases
<1>2. Permutation' /\ InstructionsRight' /\ NoWildAccess'
  BY DEF SortInv, Permutation, InstructionsRight, NoWildAccess
<1>3. \A root : Placed(root)' = Placed(root)
  BY <1>0, SameSort DEF Placed
<1>4. CASE phase' = phase
  <2>1. PlacesApart' <=> PlacesApart
    BY <1>0, <1>3, SameSort DEF PlacesApart
  <2>2. AllCaptured' <=> AllCaptured
    BY <1>0, SameSort DEF AllCaptured
  <2>3. Counts' <=> Counts
    BY <1>0, <1>3, <1>4, SameSort DEF Counts
  <2> QED BY <1>0, <1>1, <1>2, <1>4, <2>1, <2>2, <2>3 DEF SortInv, Zeros, NoCapture
<1>5. CASE phase' \in {"round", "between"} /\ phase \in {"begin", "round"}
  BY <1>0, <1>1, <1>2, <1>5 DEF SortInv, Sorting, Counts, Zeros, NoCapture
<1> QED BY <1>4, <1>5

LEMMA SortInit == Init => SortInv
<1> SUFFICES ASSUME Init PROVE SortInv
  OBVIOUS
<1>1. SortType
  BY LabelAssumption, VertexFacts DEF Init, SortType, Phases, Unsorted, MergeInstr, Zeros, NoCapture
<1>2. Permutation
  BY DEF Init, Permutation, Unsorted
<1>3. phase = "between"
  BY DEF Init
<1> QED BY <1>1, <1>2, <1>3 DEF Init, SortInv, Sorting, Counts, InstructionsRight, NoWildAccess

LEMMA SortNewQuery == SortInv /\ NewQuery => SortInv'
<1> SUFFICES ASSUME SortInv, NewQuery PROVE SortInv'
  OBVIOUS
<1>1. /\ phase' = "between" /\ phase = "between" /\ merge_instr' = Unsorted
      /\ num_threads' \in ThreadCounts /\ cur_round' = 0 /\ lab' = [v \in Vertex |-> v]
      /\ UNCHANGED <<cc_prefix, range_sums, local_cc_idx>>
  BY DEF NewQuery, sort_vars
<1>2. SortType'
  BY <1>1, LabelAssumption DEF SortInv, SortType, Unsorted, MergeInstr
<1>3. Permutation'
  BY <1>1 DEF Permutation, Unsorted
<1> QED BY <1>1, <1>2, <1>3 DEF SortInv, Sorting, Counts, InstructionsRight, NoWildAccess, Zeros, NoCapture

LEMMA SortCreate == SharesRight /\ SortInv /\ CreateMergeInstructions => SortInv'
<1> SUFFICES ASSUME SharesRight, SortInv, CreateMergeInstructions PROVE SortInv'
  OBVIOUS
<1>1. \A t \in Team : Share(t) \subseteq Vertex
  BY ShareFacts DEF SortInv, SortType
<1>2. /\ phase = "between" /\ phase' = "capture" /\ cur_round < NumSamples
      /\ cur_round' = cur_round + 1 /\ lab' \in Labelings[cur_round']
      /\ UNCHANGED <<num_threads, merge_instr, cc_prefix, range_sums, local_cc_idx>>
  BY <1>1 DEF CreateMergeInstructions, Advance, sort_vars
<1>3. cur_round' \in 1 .. NumSamples
  BY <1>2, LabelAssumption DEF SortInv, SortType
<1>4. SortType'
  BY <1>2, <1>3, LabelAssumption DEF SortInv, SortType, Phases
<1>5. local_cc_idx' = NoCapture /\ cc_prefix' = Zeros(Vertex)
  BY <1>2 DEF SortInv, Sorting
<1>6. \A t \in Team' : \A root \in Vertex : local_cc_idx'[t][root] = None
  <2>1. Team' \subseteq Tid
    BY <1>2, TeamFacts DEF SortInv, SortType, Team
  <2> QED BY <1>5, <2>1 DEF NoCapture
<1>7. PlacesApart'
  BY <1>6 DEF PlacesApart
<1>8. \A root \in Vertex : Placed(root)' = {}
  <2>1. \A p \in Vertex : Owner(p)' \in Team'
    <3>1. \A p : Owner(p)' = Owner(p)
      BY <1>2 DEF Owner, Team, Share, Start, End
    <3>2. Team' = Team
      BY <1>2 DEF Team
    <3> QED BY <3>1, <3>2, OwnerFacts DEF SortInv, SortType
  <2> QED BY <1>6, <2>1 DEF Placed
<1>9. Counts'
  <2>1. \A root \in Vertex : cc_prefix'[root] = 0 /\ Cardinality(Placed(root)') = 0
    BY <1>5, <1>8, FS_EmptySet DEF Zeros
  <2> QED BY <1>2, <2>1 DEF Counts
<1>10. Permutation'
  BY <1>2 DEF SortInv, Permutation
<1> QED BY <1>2, <1>4, <1>7, <1>9, <1>10 DEF SortInv, Sorting, InstructionsRight, NoWildAccess

-----------------------------------------------------------------------------
(* The captures, in any order *)

\* The places kept so far are one per vertex, so the next share gets new ones.
LEMMA SortCapture ==
  ASSUME SharesRight, SortInv, NEW t \in Team, NEW root \in Vertex, Capture(t, root)
  PROVE  SortInv'
<1> DEFINE n == Cardinality(LocalCc(t, root))
<1>0. SortType /\ t \in Tid /\ Team \subseteq Tid
  BY TeamFacts DEF SortInv, SortType
<1>1. /\ phase = "capture" /\ phase' = "capture"
      /\ LocalCc(t, root) # {} /\ local_cc_idx[t][root] = None
      /\ local_cc_idx' = [local_cc_idx EXCEPT ![t][root] = cc_prefix[root]]
      /\ cc_prefix' = [cc_prefix EXCEPT ![root] = @ + n]
      /\ UNCHANGED <<num_threads, cur_round, lab, merge_instr, range_sums>>
  BY DEF Capture, Captured, query_vars
<1>2. LocalCc(t, root) \in SUBSET Vertex /\ n \in Nat
  BY <1>0, LabelFacts, Counting
<1>3. \A o \in Tid : \A r \in Vertex :
        local_cc_idx'[o][r] = IF o = t /\ r = root THEN cc_prefix[root] ELSE local_cc_idx[o][r]
  BY <1>0, <1>1 DEF SortType
<1>4. SortType'
  BY <1>0, <1>1, <1>2 DEF SortType
<1>5. cc_prefix[root] \in Nat /\ None \notin Nat
  BY <1>0 DEF SortType, None
<1>6. \A r \in Vertex : cc_prefix[r] = Cardinality(Placed(r))
  BY <1>1 DEF SortInv, Counts
<1>7. \A r \in Vertex : Placed(r)' = IF r = root THEN Placed(r) \cup LocalCc(t, root) ELSE Placed(r)
  <2>1. ASSUME NEW r \in Vertex, NEW p \in Vertex
        PROVE  p \in Placed(r)' <=> p \in Placed(r) \/ (r = root /\ p \in LocalCc(t, root))
    <3>1. Owner(p)' = Owner(p) /\ Label(p)' = Label(p) /\ Owner(p) \in Tid
      BY <1>0, <1>1, SameSort, OwnerFacts DEF SortType
    <3>2. p \in Placed(r)' <=> Label(p) = r /\ local_cc_idx'[Owner(p)][r] # None
      BY <3>1 DEF Placed
    <3>3. p \in LocalCc(t, root) <=> Owner(p) = t /\ Label(p) = root
      BY <1>0, LabelFacts
    <3> QED BY <1>3, <1>5, <3>1, <3>2, <3>3 DEF Placed
  <2>2. \A r \in Vertex : Placed(r) \subseteq Vertex /\ Placed(r)' \subseteq Vertex
    BY DEF Placed
  <2> QED BY <1>2, <2>1, <2>2
<1>8. Placed(root) \in SUBSET Vertex /\ Placed(root) \cap LocalCc(t, root) = {}
  <2>1. \A p \in LocalCc(t, root) : Owner(p) = t
    BY <1>0, LabelFacts
  <2> QED BY <1>1, <2>1 DEF Placed
<1>9. Cardinality(Placed(root)') = Cardinality(Placed(root)) + n
  BY <1>2, <1>7, <1>8, Counting
<1>10. Counts'
  <2>1. \A r \in Vertex : cc_prefix'[r] = Cardinality(Placed(r)')
    BY <1>0, <1>1, <1>6, <1>7, <1>9 DEF SortType
  <2> QED BY <1>1, <2>1 DEF Counts
<1>11. PlacesApart'
  <2>1. Team' = Team /\ \A o, r : LocalCc(o, r)' = LocalCc(o, r)
    BY <1>1, SameSort
  <2>2. PlacesApart
    BY <1>1 DEF SortInv, Sorting
  <2>3. \A r \in Vertex : \A o \in Team : local_cc_idx[o][r] # None =>
          /\ local_cc_idx[o][r] \in Nat
          /\ local_cc_idx[o][r] + Cardinality(LocalCc(o, r)) <= Cardinality(Placed(r))
          /\ Cardinality(LocalCc(o, r)) \in Nat
    <3>1. \A r \in Vertex : \A o \in Team : LocalCc(o, r) \in SUBSET Vertex
      BY <1>0, LabelFacts
    <3> QED BY <1>0, <2>2, <3>1, Counting DEF PlacesApart, SortType
  <2>4. ASSUME NEW r \in Vertex, NEW o \in Team, local_cc_idx'[o][r] # None
        PROVE  /\ LocalCc(o, r) # {}
               /\ local_cc_idx'[o][r] + Cardinality(LocalCc(o, r)) <= Cardinality(Placed(r)')
               /\ \A q \in Team \ {o} : local_cc_idx'[q][r] # None =>
                    \/ local_cc_idx'[o][r] + Cardinality(LocalCc(o, r)) <= local_cc_idx'[q][r]
                    \/ local_cc_idx'[q][r] + Cardinality(LocalCc(q, r)) <= local_cc_idx'[o][r]
    <3>1. CASE r # root
      <4>1. /\ \A q \in Team : local_cc_idx'[q][r] = local_cc_idx[q][r]
            /\ Placed(r)' = Placed(r)
        BY <1>0, <1>3, <1>7, <3>1
      <4> QED BY <2>2, <2>4, <4>1 DEF PlacesApart
    <3>2. CASE r = root /\ o = t
      <4>1. local_cc_idx'[o][r] = Cardinality(Placed(r)) /\ Cardinality(Placed(r)) \in Nat
        BY <1>0, <1>3, <1>5, <1>6, <3>2
      <4>2. \A q \in Team \ {o} : local_cc_idx'[q][r] = local_cc_idx[q][r]
        BY <1>0, <1>3, <3>2
      <4> QED BY <1>1, <1>2, <1>9, <2>3, <3>2, <4>1, <4>2
    <3>3. CASE r = root /\ o # t
      <4>1. local_cc_idx'[o][r] = local_cc_idx[o][r]
        BY <1>0, <1>3, <3>3
      <4>2. /\ LocalCc(o, r) # {}
            /\ local_cc_idx[o][r] \in Nat /\ Cardinality(LocalCc(o, r)) \in Nat
            /\ local_cc_idx[o][r] + Cardinality(LocalCc(o, r)) <= Cardinality(Placed(r))
        BY <2>2, <2>3, <2>4, <4>1 DEF PlacesApart
      <4>3. Cardinality(Placed(r)) \in Nat /\ Cardinality(Placed(r)') = Cardinality(Placed(r)) + n
        BY <1>5, <1>6, <1>9, <3>3
      <4>4. ASSUME NEW q \in Team \ {o}, local_cc_idx'[q][r] # None
            PROVE  \/ local_cc_idx'[o][r] + Cardinality(LocalCc(o, r)) <= local_cc_idx'[q][r]
                   \/ local_cc_idx'[q][r] + Cardinality(LocalCc(q, r)) <= local_cc_idx'[o][r]
        <5>1. CASE q = t
          <6>1. local_cc_idx'[q][r] = Cardinality(Placed(r))
            BY <1>0, <1>3, <1>6, <3>3, <5>1
          <6> QED BY <4>1, <4>2, <6>1
        <5>2. CASE q # t
          <6>1. local_cc_idx'[q][r] = local_cc_idx[q][r]
            BY <1>0, <1>3, <5>2
          <6> QED BY <2>2, <2>4, <4>1, <4>4, <6>1 DEF PlacesApart
        <5> QED BY <5>1, <5>2
      <4> QED BY <1>2, <4>1, <4>2, <4>3, <4>4
    <3> QED BY <3>1, <3>2, <3>3
  <2> QED BY <2>1, <2>4 DEF PlacesApart
<1>12. Permutation'
  BY <1>1 DEF SortInv, Permutation
<1> QED BY <1>1, <1>4, <1>10, <1>11, <1>12 DEF SortInv, Sorting, InstructionsRight, NoWildAccess

-----------------------------------------------------------------------------
(* The prefix sums *)

\* From one barrier to the next: the captured places stay.
LEMMA SortAdvance ==
  ASSUME SortInv, phase \in Sorting, AllCaptured,
         phase' \in Sorting \ {"capture"},
         UNCHANGED <<num_threads, cur_round, lab, merge_instr, local_cc_idx>>,
         cc_prefix' \in [Vertex -> Nat], range_sums' \in [Tid -> Nat], Counts'
  PROVE  SortInv'
<1>1. SortType'
  BY DEF SortInv, SortType, Phases, Sorting
<1>2. \A root : Placed(root)' = Placed(root)
  BY SameSort DEF Placed
<1>3. PlacesApart'
  BY <1>2, SameSort DEF SortInv, PlacesApart
<1>4. AllCaptured'
  BY SameSort DEF AllCaptured
<1>5. Permutation'
  BY DEF SortInv, Permutation
<1> QED BY <1>1, <1>3, <1>4, <1>5 DEF SortInv, Sorting, InstructionsRight, NoWildAccess

LEMMA AllPlaced ==
  ASSUME SharesRight, SortType, AllCaptured
  PROVE  \A root \in Vertex : Placed(root) = Labelled({root})
<1>1. ASSUME NEW root \in Vertex, NEW p \in Labelled({root}) PROVE p \in Placed(root)
  <2>1. p \in Vertex /\ Label(p) = root /\ Owner(p) \in Team
    BY OwnerFacts DEF Labelled, SortType
  <2>2. p \in LocalCc(Owner(p), root)
    BY <2>1, LabelFacts
  <2>3. local_cc_idx[Owner(p)][root] # None
    BY <2>1, <2>2 DEF AllCaptured
  <2> QED BY <2>1, <2>3 DEF Placed
<1> QED BY <1>1, LabelFacts

LEMMA SortBarrier == SharesRight /\ SortInv /\ Barrier => SortInv'
<1> SUFFICES ASSUME SharesRight, SortInv, Barrier PROVE SortInv'
  OBVIOUS
<1>1. /\ phase = "capture" /\ phase' = "sum" /\ AllCaptured
      /\ UNCHANGED <<num_threads, cur_round, lab, merge_instr, cc_prefix, range_sums, local_cc_idx>>
  BY DEF Barrier, Advance, query_vars, sort_vars
<1>2. \A root \in Vertex : cc_prefix[root] = Cardinality(Labelled({root}))
  BY <1>1, AllPlaced DEF SortInv, Counts
<1>3. Counts'
  BY <1>1, <1>2, SameSort DEF Counts
<1>4. cc_prefix' \in [Vertex -> Nat] /\ range_sums' \in [Tid -> Nat]
  BY <1>1 DEF SortInv, SortType
<1> QED BY <1>1, <1>3, <1>4, SortAdvance DEF Sorting

\* Every thread sums up its share.
LEMMA SortPrefix == SharesRight /\ SortInv /\ PrefixSum => SortInv'
<1> SUFFICES ASSUME SharesRight, SortInv, PrefixSum PROVE SortInv'
  OBVIOUS
<1> DEFINE First(i) == \E t \in Team : i = Start(t)
           Sums(f) == f = [i \in Vertex |-> IF First(i) THEN cc_prefix[i] ELSE f[i - 1] + cc_prefix[i]]
           W == [i \in Vertex |-> Cardinality(Labelled(Start(Owner(i)) .. i))]
<1>0. num_threads \in ThreadCounts
  BY DEF SortInv, SortType
<1>1. /\ phase = "sum" /\ phase' = "range"
      /\ UNCHANGED <<num_threads, cur_round, lab, merge_instr, range_sums, local_cc_idx>>
  BY DEF PrefixSum, Advance, query_vars
<1>2. \A root \in Vertex : cc_prefix[root] = Cardinality(Labelled({root}))
  BY <1>1 DEF SortInv, Counts
<1>3. ASSUME NEW i \in Vertex
      PROVE  /\ First(i) => W[i] = cc_prefix[i]
             /\ ~First(i) => i - 1 \in Vertex /\ W[i] = W[i - 1] + cc_prefix[i]
  <2>1. i \in Nat /\ Owner(i) \in Team /\ i \in Share(Owner(i))
    BY <1>0, VertexFacts, OwnerFacts
  <2>2. Start(Owner(i)) \in Nat /\ Start(Owner(i)) <= i /\ End(Owner(i)) \in Nat /\ i < End(Owner(i))
    BY <1>0, <2>1, ShareFacts DEF Share
  <2>3. ASSUME First(i) PROVE W[i] = cc_prefix[i]
    <3>1. PICK t \in Team : i = Start(t)
      BY <2>3
    <3>2. Owner(i) = t
      BY <1>0, <3>1, ShareFacts, OwnerFacts
    <3>3. Start(Owner(i)) .. i = {i}
      BY <2>1, <3>1, <3>2
    <3> QED BY <1>2, <3>3
  <2>4. ASSUME ~First(i) PROVE i - 1 \in Vertex /\ W[i] = W[i - 1] + cc_prefix[i]
    <3>1. Start(Owner(i)) < i
      BY <2>1, <2>2, <2>4
    <3>2. i - 1 \in Vertex /\ i - 1 \in Share(Owner(i))
      <4>1. i - 1 \in Nat /\ N \in Nat /\ i < N
        BY <2>1, <2>2, <3>1, VertexFacts DEF Vertex
      <4>2. i - 1 \in Vertex
        BY <2>1, <4>1 DEF Vertex
      <4>3. i - 1 \in Share(Owner(i))
        BY <2>1, <2>2, <3>1 DEF Share
      <4> QED BY <4>2, <4>3
    <3>3. Owner(i - 1) = Owner(i)
      BY <1>0, <2>1, <3>2, OwnerFacts
    <3>4. /\ Start(Owner(i)) .. i = (Start(Owner(i)) .. i - 1) \cup {i}
          /\ (Start(Owner(i)) .. i - 1) \cap {i} = {}
      BY <2>1, <2>2, <3>1
    <3>5. Cardinality(Labelled(Start(Owner(i)) .. i))
            = Cardinality(Labelled(Start(Owner(i)) .. i - 1)) + Cardinality(Labelled({i}))
      BY <3>4, LabelledFacts
    <3> QED BY <1>2, <3>2, <3>3, <3>5
  <2> QED BY <2>3, <2>4
<1> HIDE DEF First
<1>4. Sums(W)
  <2>1. \A i \in Vertex : W[i] = IF First(i) THEN cc_prefix[i] ELSE W[i - 1] + cc_prefix[i]
    BY <1>3
  <2> QED BY <2>1
<1>5. cc_prefix' = CHOOSE f : Sums(f)
  BY Zenon DEF PrefixSum, First
<1>6. Sums(CHOOSE f : Sums(f))
  BY <1>4, Zenon
<1> HIDE DEF Sums
<1>7. Sums(cc_prefix')
  BY <1>5, <1>6
<1>8. \A i \in Vertex : cc_prefix'[i] = W[i]
  <2> DEFINE f == cc_prefix'
  <2>1. \A i \in Vertex : f[i] = IF First(i) THEN cc_prefix[i] ELSE f[i - 1] + cc_prefix[i]
    BY <1>7 DEF Sums
  <2> HIDE DEF f, W
  <2>2. ASSUME NEW i \in 0 .. N - 1, \A j \in 0 .. i - 1 : f[j] = W[j] PROVE f[i] = W[i]
    <3>1. i \in Vertex /\ i \in Nat
      BY VertexFacts DEF Vertex
    <3>2. CASE First(i)
      BY <1>3, <2>1, <3>1, <3>2
    <3>3. CASE ~First(i)
      <4>1. i - 1 \in 0 .. i - 1
        BY <1>3, <3>1, <3>3, VertexFacts
      <4> QED BY <1>3, <2>1, <2>2, <3>1, <3>3, <4>1
    <3> QED BY <3>2, <3>3
  <2>3. \A i \in 0 .. N - 1 : f[i] = W[i]
    BY <2>2, VertexFacts, Agree
  <2> QED BY <2>3 DEF f, Vertex
<1>9. cc_prefix' \in [Vertex -> Nat]
  <2>1. \A i \in Vertex : cc_prefix'[i] \in Nat
    BY <1>8, LabelledFacts
  <2>2. cc_prefix' = [i \in Vertex |-> IF First(i) THEN cc_prefix[i] ELSE cc_prefix'[i - 1] + cc_prefix[i]]
    BY <1>7 DEF Sums
  <2> QED BY <2>1, <2>2
<1>10. Counts'
  BY <1>1, <1>8, SameSort DEF Counts
<1>11. AllCaptured /\ phase \in Sorting /\ phase' \in Sorting \ {"capture"} /\ range_sums' \in [Tid -> Nat]
  BY <1>1 DEF SortInv, Sorting, SortType
<1> QED BY <1>1, <1>9, <1>10, <1>11, SortAdvance

\* One thread sums up the last elements of the shares.
LEMMA SortRange == SharesRight /\ SortInv /\ RangeSums => SortInv'
<1> SUFFICES ASSUME SharesRight, SortInv, RangeSums PROVE SortInv'
  OBVIOUS
<1> DEFINE Sums(f) == f = [t \in Team |-> IF t = 0 THEN 0 ELSE cc_prefix[LastBefore(t)] + f[t - 1]]
           W == [t \in Team |-> Cardinality(Labelled(0 .. Start(t) - 1))]
           F == CHOOSE f : Sums(f)
<1>0. num_threads \in ThreadCounts /\ Team \subseteq Tid /\ Team \subseteq Nat /\ num_threads \in Nat
  BY TeamFacts DEF SortInv, SortType
<1>1. /\ phase = "range" /\ phase' = "finish"
      /\ UNCHANGED <<num_threads, cur_round, lab, merge_instr, cc_prefix, local_cc_idx>>
  BY DEF RangeSums, Advance, query_vars
<1>2. \A i \in Vertex : cc_prefix[i] = Cardinality(Labelled(Start(Owner(i)) .. i))
  BY <1>1 DEF SortInv, Counts
<1>3. ASSUME NEW t \in Team
      PROVE  /\ t = 0 => W[t] = 0
             /\ t # 0 => t - 1 \in Team /\ W[t] = cc_prefix[LastBefore(t)] + W[t - 1]
  <2>1. ASSUME t = 0 PROVE W[t] = 0
    <3>1. 0 .. Start(t) - 1 = {}
      BY <1>0, <2>1, ShareFacts
    <3> QED BY <3>1, LabelledFacts
  <2>2. ASSUME t # 0 PROVE t - 1 \in Team /\ W[t] = cc_prefix[LastBefore(t)] + W[t - 1]
    <3>1. t \in Nat /\ t > 0
      BY <1>0, <2>2
    <3>2. t - 1 \in Team /\ End(t - 1) = Start(t)
      BY <1>0, <3>1, ShareFacts
    <3>3. /\ Start(t - 1) \in Nat /\ Start(t) \in Nat /\ Start(t - 1) < Start(t)
          /\ Share(t - 1) \subseteq Vertex
      BY <1>0, <3>2, ShareFacts
    <3>4. LastBefore(t) = Start(t) - 1 /\ Start(t) - 1 \in Share(t - 1)
      BY <3>2, <3>3 DEF LastBefore, Share
    <3>5. Owner(Start(t) - 1) = t - 1 /\ Start(t) - 1 \in Vertex
      BY <1>0, <3>2, <3>3, <3>4, OwnerFacts
    <3>6. cc_prefix[LastBefore(t)] = Cardinality(Labelled(Start(t - 1) .. Start(t) - 1))
      BY <1>2, <3>4, <3>5
    <3>7. \A x, y \in Nat : x < y => /\ 0 .. y - 1 = (0 .. x - 1) \cup (x .. y - 1)
                                     /\ (0 .. x - 1) \cap (x .. y - 1) = {}
      OBVIOUS
    <3>8. Cardinality(Labelled(0 .. Start(t) - 1))
            = Cardinality(Labelled(0 .. Start(t - 1) - 1))
                + Cardinality(Labelled(Start(t - 1) .. Start(t) - 1))
      <4> DEFINE x == Start(t - 1)
                 y == Start(t)
      <4>1. x \in Nat /\ y \in Nat /\ x < y
        BY <3>3
      <4> HIDE DEF x, y
      <4>2. 0 .. y - 1 = (0 .. x - 1) \cup (x .. y - 1) /\ (0 .. x - 1) \cap (x .. y - 1) = {}
        BY <3>7, <4>1
      <4>3. Cardinality(Labelled(0 .. y - 1))
              = Cardinality(Labelled(0 .. x - 1)) + Cardinality(Labelled(x .. y - 1))
        BY <4>2, LabelledFacts
      <4> QED BY <4>3 DEF x, y
    <3>9. /\ Cardinality(Labelled(0 .. Start(t - 1) - 1)) \in Nat
          /\ Cardinality(Labelled(Start(t - 1) .. Start(t) - 1)) \in Nat
      BY LabelledFacts
    <3> QED BY <3>2, <3>6, <3>8, <3>9
  <2> QED BY <2>1, <2>2
<1>4. Sums(W)
  <2>1. \A t \in Team : W[t] = IF t = 0 THEN 0 ELSE cc_prefix[LastBefore(t)] + W[t - 1]
    BY <1>3
  <2> QED BY <2>1
<1>5. range_sums' = [t \in Tid |-> IF t \in Team THEN F[t] ELSE range_sums[t]]
  BY Zenon DEF RangeSums
<1>6. Sums(F)
  BY <1>4, Zenon
<1>7. \A t \in Team : F[t] = W[t]
  <2>1. \A t \in Team : F[t] = IF t = 0 THEN 0 ELSE cc_prefix[LastBefore(t)] + F[t - 1]
    <3> HIDE DEF F
    <3> QED BY <1>6
  <2> HIDE DEF F, W
  <2>2. ASSUME NEW t \in 0 .. num_threads - 1, \A j \in 0 .. t - 1 : F[j] = W[j] PROVE F[t] = W[t]
    <3>1. t \in Team /\ t \in Nat
      BY <1>0 DEF Team
    <3>2. CASE t = 0
      BY <1>3, <2>1, <3>1, <3>2
    <3>3. CASE t # 0
      <4>1. t - 1 \in 0 .. t - 1
        BY <3>1, <3>3
      <4> QED BY <1>3, <2>1, <2>2, <3>1, <3>3, <4>1
    <3> QED BY <3>2, <3>3
  <2>3. \A t \in 0 .. num_threads - 1 : F[t] = W[t]
    BY <1>0, <2>2, Agree
  <2> QED BY <2>3 DEF Team
<1> HIDE DEF F
<1>8. \A t \in Team : range_sums'[t] = Cardinality(Labelled(0 .. Start(t) - 1))
  BY <1>0, <1>5, <1>7
<1>9. range_sums' \in [Tid -> Nat]
  <2>1. \A t \in Tid : range_sums'[t] \in Nat
    BY <1>5, <1>7, LabelledFacts DEF SortInv, SortType
  <2> QED BY <1>5, <2>1
<1>10. Counts'
  BY <1>1, <1>2, <1>8, SameSort DEF Counts
<1>11. AllCaptured /\ phase \in Sorting /\ phase' \in Sorting \ {"capture"} /\ cc_prefix' \in [Vertex -> Nat]
  BY <1>1 DEF SortInv, Sorting, SortType
<1> QED BY <1>1, <1>9, <1>10, <1>11, SortAdvance

\* The shares are summed up.
LEMMA SortFinish == SharesRight /\ SortInv /\ FinishSums => SortInv'
<1> SUFFICES ASSUME SharesRight, SortInv, FinishSums PROVE SortInv'
  OBVIOUS
<1>0. num_threads \in ThreadCounts
  BY DEF SortInv, SortType
<1>1. /\ phase = "finish" /\ phase' = "write"
      /\ cc_prefix' = [i \in Vertex |-> cc_prefix[i] + range_sums[Owner(i)]]
      /\ UNCHANGED <<num_threads, cur_round, lab, merge_instr, range_sums, local_cc_idx>>
  BY DEF FinishSums, Advance, query_vars
<1>2. ASSUME NEW i \in Vertex PROVE cc_prefix'[i] = Cardinality(Labelled(0 .. i))
  <2>1. i \in Nat /\ Owner(i) \in Team /\ i \in Share(Owner(i))
    BY <1>0, VertexFacts, OwnerFacts
  <2>2. Start(Owner(i)) \in Nat /\ Start(Owner(i)) <= i
    BY <1>0, <2>1, ShareFacts DEF Share
  <2>3. /\ 0 .. i = (0 .. Start(Owner(i)) - 1) \cup (Start(Owner(i)) .. i)
        /\ (0 .. Start(Owner(i)) - 1) \cap (Start(Owner(i)) .. i) = {}
    BY <2>1, <2>2
  <2>4. Cardinality(Labelled(0 .. i)) = Cardinality(Labelled(0 .. Start(Owner(i)) - 1))
                                          + Cardinality(Labelled(Start(Owner(i)) .. i))
    BY <2>3, LabelledFacts
  <2>5. /\ cc_prefix[i] = Cardinality(Labelled(Start(Owner(i)) .. i))
        /\ range_sums[Owner(i)] = Cardinality(Labelled(0 .. Start(Owner(i)) - 1))
    BY <1>1, <2>1 DEF SortInv, Counts
  <2>6. cc_prefix[i] \in Nat /\ range_sums[Owner(i)] \in Nat
    BY <2>5, LabelledFacts
  <2> QED BY <1>1, <2>4, <2>5, <2>6
<1>3. cc_prefix' \in [Vertex -> Nat]
  BY <1>1, <1>2, LabelledFacts
<1>4. Counts'
  BY <1>1, <1>2, SameSort DEF Counts
<1>5. AllCaptured /\ phase \in Sorting /\ phase' \in Sorting \ {"capture"} /\ range_sums' \in [Tid -> Nat]
  BY <1>1 DEF SortInv, Sorting, SortType
<1> QED BY <1>1, <1>3, <1>4, <1>5, SortAdvance

-----------------------------------------------------------------------------
(* The placement *)

\* A vertex is placed among those with its label, after all with smaller ones.
LEMMA PlacementRange ==
  ASSUME SharesRight, SortInv, phase = "write", NEW p \in Vertex
  PROVE  /\ Placement(p) \in Nat
         /\ Cardinality(Labelled(0 .. Label(p) - 1)) <= Placement(p)
         /\ Placement(p) < Cardinality(Labelled(0 .. Label(p)))
         /\ Placement(p) \in Vertex
<1> DEFINE t == Owner(p)
           root == Label(p)
           Rank == {q \in LocalCc(t, root) : q < p}
           below == Cardinality(Labelled(0 .. root - 1))
<1>1. SortType /\ AllCaptured /\ PlacesApart
  BY DEF SortInv, Sorting
<1>2. t \in Team /\ t \in Tid /\ root \in Vertex /\ root \in Nat
  BY <1>1, OwnerFacts, TeamFacts, LabelFacts, VertexFacts DEF SortType
<1>3. p \in LocalCc(t, root) /\ LocalCc(t, root) \in SUBSET Vertex
  BY <1>1, <1>2, LabelFacts
<1>4. Cardinality(Rank) \in Nat /\ Cardinality(Rank) < Cardinality(LocalCc(t, root))
  <2>1. Rank \in SUBSET Vertex /\ Rank \subseteq LocalCc(t, root) /\ p \notin Rank
    BY <1>3, VertexFacts
  <2> QED BY <1>3, <2>1, Counting
<1>5. /\ local_cc_idx[t][root] \in Nat
      /\ local_cc_idx[t][root] + Cardinality(LocalCc(t, root)) <= Cardinality(Labelled({root}))
  <2>1. local_cc_idx[t][root] # None
    BY <1>1, <1>2, <1>3 DEF AllCaptured
  <2>2. Placed(root) = Labelled({root})
    BY <1>1, <1>2, AllPlaced
  <2> QED BY <1>1, <1>2, <2>1, <2>2 DEF PlacesApart, SortType
<1>6. (IF root > 0 THEN cc_prefix[root - 1] ELSE 0) = below
  <2>1. CASE root > 0
    <3>1. root - 1 \in Vertex
      BY <1>2, <2>1, VertexFacts DEF Vertex
    <3> QED BY <2>1, <3>1 DEF SortInv, Counts
  <2>2. CASE ~(root > 0)
    <3>1. 0 .. root - 1 = {}
      BY <1>2, <2>2
    <3> QED BY <2>2, <3>1, LabelledFacts
  <2> QED BY <2>1, <2>2
<1>7. Placement(p) = local_cc_idx[t][root] + below + Cardinality(Rank)
  BY <1>6 DEF Placement, Before
<1>8. Cardinality(Labelled(0 .. root)) = below + Cardinality(Labelled({root}))
  <2>1. 0 .. root = (0 .. root - 1) \cup {root} /\ (0 .. root - 1) \cap {root} = {}
    BY <1>2
  <2> QED BY <2>1, LabelledFacts
<1>9. below \in Nat /\ Cardinality(Labelled({root})) \in Nat /\ Cardinality(LocalCc(t, root)) \in Nat
  BY <1>3, LabelledFacts, Counting
<1>10. Cardinality(Labelled(0 .. root)) \in Nat /\ Cardinality(Labelled(0 .. root)) <= N
  BY LabelledFacts, Counting
<1> HIDE DEF t, root, Rank, below
<1>11. Placement(p) \in Nat /\ below <= Placement(p) /\ Placement(p) < Cardinality(Labelled(0 .. root))
  BY <1>4, <1>5, <1>7, <1>8, <1>9
<1>12. Placement(p) \in Vertex
  BY <1>10, <1>11, VertexFacts DEF Vertex
<1> QED BY <1>11, <1>12 DEF root, below

\* No two threads, and no two steps of one, write to the same place.
LEMMA PlacementApart ==
  ASSUME SharesRight, SortInv, phase = "write", NEW p \in Vertex, NEW q \in Vertex,
         Label(p) <= Label(q), p # q
  PROVE  /\ Placement(p) # Placement(q)
         /\ Label(p) < Label(q) => Placement(p) < Placement(q)
<1>1. SortType /\ AllCaptured /\ PlacesApart
  BY DEF SortInv, Sorting
<1>2. Label(p) \in Nat /\ Label(q) \in Nat /\ Label(p) \in Vertex
  BY <1>1, LabelFacts, VertexFacts
<1>3. CASE Label(p) < Label(q)
  <2>1. 0 .. Label(p) \subseteq 0 .. Label(q) - 1
    BY <1>2, <1>3
  <2>2. Cardinality(Labelled(0 .. Label(p))) <= Cardinality(Labelled(0 .. Label(q) - 1))
    BY <2>1, LabelledFacts
  <2>3. /\ Cardinality(Labelled(0 .. Label(p))) \in Nat
        /\ Cardinality(Labelled(0 .. Label(q) - 1)) \in Nat
    BY LabelledFacts
  <2>4. /\ Placement(p) \in Nat /\ Placement(p) < Cardinality(Labelled(0 .. Label(p)))
        /\ Placement(q) \in Nat /\ Cardinality(Labelled(0 .. Label(q) - 1)) <= Placement(q)
    BY PlacementRange
  <2> QED BY <2>2, <2>3, <2>4
<1>4. CASE Label(p) = Label(q)
  <2> DEFINE root == Label(p)
             below == IF root > 0 THEN cc_prefix[root - 1] ELSE 0
             Rank(x) == {y \in LocalCc(Owner(x), root) : y < x}
             Place(x) == local_cc_idx[Owner(x)][root]
  <2>1. /\ Placement(p) = Place(p) + below + Cardinality(Rank(p))
        /\ Placement(q) = Place(q) + below + Cardinality(Rank(q))
    BY <1>4 DEF Placement, Before
  <2>2. below \in Nat
    <3>1. root > 0 => root - 1 \in Vertex
      BY <1>2, VertexFacts DEF Vertex
    <3> QED BY <1>1, <3>1 DEF SortType
  <2>3. ASSUME NEW x \in {p, q}
        PROVE  /\ Owner(x) \in Team /\ x \in LocalCc(Owner(x), root) /\ Place(x) # None
               /\ Place(x) \in Nat /\ Rank(x) \in SUBSET Vertex /\ Cardinality(Rank(x)) \in Nat
               /\ LocalCc(Owner(x), root) \in SUBSET Vertex
               /\ Cardinality(LocalCc(Owner(x), root)) \in Nat
               /\ Cardinality(Rank(x)) < Cardinality(LocalCc(Owner(x), root))
    <3>1. Owner(x) \in Team /\ Owner(x) \in Tid /\ x \in Vertex /\ Label(x) = root
      BY <1>1, <1>4, OwnerFacts, TeamFacts DEF SortType
    <3>2. x \in LocalCc(Owner(x), root) /\ LocalCc(Owner(x), root) \in SUBSET Vertex
      BY <1>1, <3>1, LabelFacts
    <3>3. Place(x) # None /\ Place(x) \in Nat
      BY <1>1, <1>2, <3>1, <3>2 DEF AllCaptured, SortType
    <3>4. Rank(x) \in SUBSET Vertex /\ Rank(x) \subseteq LocalCc(Owner(x), root) /\ x \notin Rank(x)
      BY <3>1, <3>2, VertexFacts
    <3> QED BY <3>1, <3>2, <3>3, <3>4, Counting
  <2>4. CASE Owner(p) = Owner(q)
    <3>1. ASSUME NEW x \in {p, q}, NEW y \in {p, q}, x < y, Owner(x) = Owner(y)
          PROVE  Cardinality(Rank(x)) < Cardinality(Rank(y))
      <4>1. \A z \in LocalCc(Owner(x), root) : z \in Nat /\ x \in Nat /\ y \in Nat
        BY <2>3, VertexFacts
      <4>2. Rank(x) \subseteq Rank(y) /\ x \in Rank(y) /\ x \notin Rank(x)
        BY <2>3, <3>1, <4>1
      <4> QED BY <2>3, <4>2, Counting
    <3>2. p < q \/ q < p
      BY VertexFacts
    <3>3. Cardinality(Rank(p)) # Cardinality(Rank(q))
      BY <2>3, <2>4, <3>1, <3>2
    <3>4. Place(p) = Place(q)
      BY <2>4
    <3>5. Place(p) \in Nat /\ Cardinality(Rank(p)) \in Nat /\ Cardinality(Rank(q)) \in Nat
      BY <2>3
    <3> HIDE DEF Place, Rank, below, root
    <3> QED BY <1>2, <1>4, <2>1, <2>2, <3>3, <3>4, <3>5
  <2>5. CASE Owner(p) # Owner(q)
    <3>1. \/ Place(p) + Cardinality(LocalCc(Owner(p), root)) <= Place(q)
          \/ Place(q) + Cardinality(LocalCc(Owner(q), root)) <= Place(p)
      BY <1>1, <1>2, <2>3, <2>5 DEF PlacesApart
    <3>2. /\ Place(p) \in Nat /\ Cardinality(Rank(p)) \in Nat
          /\ Cardinality(LocalCc(Owner(p), root)) \in Nat
          /\ Cardinality(Rank(p)) < Cardinality(LocalCc(Owner(p), root))
      BY <2>3
    <3>3. /\ Place(q) \in Nat /\ Cardinality(Rank(q)) \in Nat
          /\ Cardinality(LocalCc(Owner(q), root)) \in Nat
          /\ Cardinality(Rank(q)) < Cardinality(LocalCc(Owner(q), root))
      BY <2>3
    <3> HIDE DEF Place, Rank, below, root
    <3> QED BY <1>2, <1>4, <2>1, <2>2, <3>1, <3>2, <3>3
  <2> QED BY <2>4, <2>5
<1> QED BY <1>2, <1>3, <1>4

\* Every place is written, by exactly one thread and once.
LEMMA OneWriter ==
  ASSUME SharesRight, SortInv, phase = "write"
  PROVE  /\ \A p, q \in Vertex : Placement(p) = Placement(q) => p = q
         /\ \A c \in Vertex : \E p \in Vertex : Writers(c) = {p} /\ Placement(p) = c
<1>1. ASSUME NEW p \in Vertex, NEW q \in Vertex, Placement(p) = Placement(q) PROVE p = q
  <2>1. Label(p) \in Nat /\ Label(q) \in Nat
    BY LabelFacts, VertexFacts DEF SortInv
  <2>2. Label(p) <= Label(q) \/ Label(q) <= Label(p)
    BY <2>1
  <2> QED BY <1>1, <2>2, PlacementApart
<1> DEFINE f == [p \in Vertex |-> Placement(p)]
<1>2. f \in [Vertex -> Vertex]
  BY PlacementRange
<1>3. f \in Injection(Vertex, Vertex)
  BY <1>1, <1>2 DEF Injection, IsInjective
<1>4. f \in Surjection(Vertex, Vertex)
  BY <1>3, Counting, FS_Injection
<1>5. \A c \in Vertex : \E p \in Vertex : f[p] = c
  BY <1>4 DEF Surjection
<1>6. ASSUME NEW c \in Vertex PROVE \E p \in Vertex : Writers(c) = {p} /\ Placement(p) = c
  <2>1. PICK p \in Vertex : Placement(p) = c
    BY <1>5
  <2>2. Writers(c) = {p}
    BY <1>1, <2>1 DEF Writers
  <2> QED BY <2>1, <2>2
<1> QED BY <1>1, <1>6

LEMMA SortWrite == SharesRight /\ SortInv /\ WriteInstructions => SortInv'
<1> SUFFICES ASSUME SharesRight, SortInv, WriteInstructions PROVE SortInv'
  OBVIOUS
<1>1. /\ phase = "write" /\ UNCHANGED <<num_threads, cur_round, lab>>
      /\ cc_prefix' = Zeros(Vertex) /\ range_sums' = Zeros(Tid) /\ local_cc_idx' = NoCapture
  BY DEF WriteInstructions, Advance, query_vars
<1>2. phase' = "begin"
  <2>1. \A p \in Vertex : Placement(p) \in Vertex
    BY <1>1, PlacementRange
  <2> QED BY <2>1 DEF WriteInstructions, Advance
<1>3. PICK last \in [{c \in Vertex : Cardinality(Writers(c)) > 1} -> Vertex] :
        merge_instr' = [c \in Vertex |->
            IF c \in DOMAIN last THEN Instr(last[c])
            ELSE IF Writers(c) = {} THEN merge_instr[c]
            ELSE Instr(CHOOSE p \in Writers(c) : TRUE)]
  BY DEF WriteInstructions
<1>4. DOMAIN last = {}
  <2>1. \A c \in Vertex : Cardinality(Writers(c)) = 1
    BY <1>1, OneWriter, FS_Singleton
  <2>2. DOMAIN last = {c \in Vertex : Cardinality(Writers(c)) > 1}
    OBVIOUS
  <2>3. \A c \in Vertex : ~(Cardinality(Writers(c)) > 1)
    BY <2>1
  <2> QED BY <2>2, <2>3
<1>5. ASSUME NEW c \in Vertex
      PROVE  \E p \in Vertex : Placement(p) = c /\ merge_instr'[c] = Instr(p)
  <2>1. PICK p \in Vertex : Writers(c) = {p} /\ Placement(p) = c
    BY <1>1, OneWriter
  <2>2. (CHOOSE x \in Writers(c) : TRUE) = p
    BY <2>1
  <2> QED BY <1>3, <1>4, <2>1, <2>2
<1>6. \A p \in Vertex : Placement(p) \in Vertex /\ merge_instr'[Placement(p)] = Instr(p)
  BY <1>1, <1>5, PlacementRange, OneWriter
<1>7. \A p \in Vertex : /\ Instr(p) \in MergeInstr
                        /\ Instr(p).child = merge_instr[p].child /\ Instr(p).root = Label(p)
  <2>1. \A p \in Vertex : Label(p) \in Vertex
    BY LabelFacts DEF SortInv
  <2> QED BY <2>1 DEF Instr, SortInv, SortType, MergeInstr
<1>8. merge_instr' \in [Vertex -> MergeInstr]
  <2>1. \A c \in Vertex : merge_instr'[c] \in MergeInstr
    BY <1>5, <1>7
  <2> QED BY <1>3, <2>1
<1>9. SortType'
  <2>1. Zeros(Vertex) \in [Vertex -> Nat] /\ Zeros(Tid) \in [Tid -> Nat]
        /\ NoCapture \in [Tid -> [Vertex -> Nat \cup {None}]]
    BY DEF Zeros, NoCapture
  <2> QED BY <1>1, <1>2, <1>8, <2>1 DEF SortInv, SortType, Phases
<1>10. Permutation'
  <2>1. ASSUME NEW v \in Vertex PROVE \E c \in Vertex : merge_instr'[c].child = v
    <3>1. PICK p \in Vertex : merge_instr[p].child = v
      BY DEF SortInv, Permutation
    <3> QED BY <1>6, <1>7, <3>1
  <2>2. ASSUME NEW c \in Vertex, NEW d \in Vertex, merge_instr'[c].child = merge_instr'[d].child
        PROVE  c = d
    <3>1. PICK p \in Vertex : Placement(p) = c /\ merge_instr'[c] = Instr(p)
      BY <1>5
    <3>2. PICK q \in Vertex : Placement(q) = d /\ merge_instr'[d] = Instr(q)
      BY <1>5
    <3>3. merge_instr[p].child = merge_instr[q].child
      BY <1>7, <2>2, <3>1, <3>2
    <3> QED BY <3>1, <3>2, <3>3 DEF SortInv, Permutation
  <2> QED BY <2>1, <2>2 DEF Permutation
<1>11. InstructionsRight'
  <2>1. {merge_instr'[c].child : c \in Vertex} = Vertex
    BY <1>8, <1>10 DEF Permutation, MergeInstr
  <2>2. ASSUME NEW c \in Vertex PROVE merge_instr'[c].root = lab'[merge_instr'[c].child]
    BY <1>1, <1>5, <1>7 DEF Label
  <2>3. ASSUME NEW c \in Vertex \ {0} PROVE merge_instr'[c - 1].root <= merge_instr'[c].root
    <3>1. c - 1 \in Vertex /\ c \in Nat
      BY VertexFacts DEF Vertex
    <3>2. PICK p \in Vertex : Placement(p) = c - 1 /\ merge_instr'[c - 1] = Instr(p)
      BY <1>5, <3>1
    <3>3. PICK q \in Vertex : Placement(q) = c /\ merge_instr'[c] = Instr(q)
      BY <1>5
    <3>4. Label(p) \in Nat /\ Label(q) \in Nat
      BY LabelFacts, VertexFacts DEF SortInv
    <3>5. ~(Label(q) < Label(p))
      <4>1. ASSUME Label(q) < Label(p) PROVE Placement(q) < Placement(p)
        <5>1. q # p /\ Label(q) <= Label(p)
          BY <3>4, <4>1
        <5> QED BY <1>1, <4>1, <5>1, PlacementApart
      <4> QED BY <3>1, <3>2, <3>3, <4>1
    <3> QED BY <1>7, <3>2, <3>3, <3>4, <3>5
  <2> QED BY <2>1, <2>2, <2>3 DEF InstructionsRight
<1> QED BY <1>1, <1>2, <1>9, <1>10, <1>11 DEF SortInv, Sorting, Counts, NoWildAccess, Zeros, NoCapture

-----------------------------------------------------------------------------
(* Theorems *)

\* The threads of a round read only elements of merge_instr before their loops.
LEMMA EdgeReadsInside ==
  ASSUME SharesRight, num_threads \in ThreadCounts, NEW t \in Team
  PROVE  EdgeReads(t) \subseteq Vertex
<1>1. /\ Start(t) \in Nat /\ End(t) \in Nat /\ Start(t) < End(t) /\ End(t) <= N /\ N \in Nat
  BY ShareFacts, VertexFacts
<1> QED BY <1>1 DEF EdgeReads, Vertex

LEMMA SortRound ==
  ASSUME SharesRight, SortInv, NEW t \in Tid, RoundStep(t)
  PROVE  SortInv'
<1>1. UNCHANGED <<query_vars, phase, merge_instr, sort_vars>>
  BY DEF RoundStep, InnerLocal, InnerGlobal, QueryOwn, LastLocal, SetNeeded, LastGlobal, QueryLast
<1>2. UNCHANGED <<num_threads, cur_round, lab, merge_instr, sort_vars>> /\ phase' = phase
  BY <1>1 DEF query_vars
<1> QED BY <1>2, SortKept

LEMMA SortNext ==
  ASSUME SharesRight, SortInv, [Next]_vars
  PROVE  SortInv'
<1>0. num_threads \in ThreadCounts
  BY DEF SortInv, SortType
<1>1. CASE UNCHANGED vars
  BY <1>1, SortKept DEF vars, query_vars
<1>2. ASSUME NEW t \in Tid, CaptureStep(t) PROVE SortInv'
  BY <1>2, SortCapture DEF CaptureStep
<1>3. CASE BeginRound
  <2>1. phase = "begin" /\ phase' = "round"
    BY <1>0, <1>3, EdgeReadsInside DEF BeginRound, Advance
  <2> QED BY <1>3, <2>1, SortKept DEF BeginRound, query_vars
<1>4. CASE EndRound
  BY <1>4, SortKept DEF EndRound, Advance
<1>5. CASE TeamStep
  BY <1>3, <1>4, <1>5, SortBarrier, SortPrefix, SortRange, SortFinish, SortWrite DEF TeamStep
<1> QED BY <1>1, <1>2, <1>5, SortRound, SortCreate, SortNewQuery DEF Next, ThreadStep

\* The invariant of the concurrent counting sort.
THEOREM SortInvariant ==
  ASSUME SharesRight
  PROVE  Spec => []SortInv
<1>1. Init => SortInv
  BY SortInit
<1>2. SortInv /\ [Next]_vars => SortInv'
  BY SortNext
<1> QED BY <1>1, <1>2, PTL DEF Spec

\* Whatever the labels and the order of the atomic captures, when a round begins
\* create_merge_instructions has put every vertex into merge_instr exactly once,
\* with its label, and the labels in order.
THEOREM InstructionsAlwaysRight ==
  ASSUME SharesRight
  PROVE  Spec => []InstructionsRight
<1>1. SortInv => InstructionsRight
  BY DEF SortInv
<1> QED BY <1>1, SortInvariant, PTL

\* No thread leaves cc_prefix or merge_instr, in the lookups, the placement or
\* the reads at the borders of its share, if the shares are in order.
THEOREM AccessesInBounds ==
  ASSUME SharesRight
  PROVE  Spec => []NoWildAccess
<1>1. SortInv => NoWildAccess
  BY DEF SortInv
<1> QED BY <1>1, SortInvariant, PTL

=============================================================================
