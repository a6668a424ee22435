----------------------------- MODULE MergeRound -----------------------------
(***************************************************************************)
(* The parallel rounds of Boruvka in src/cc_sketch_alg.cpp after round     *)
(* zero: create_merge_instructions sorts the vertices by the labels of     *)
(* their components, with a concurrent counting sort, and                  *)
(* perform_boruvka_round lets every OpenMP thread merge and sample the     *)
(* supernodes of its share of that order, where a supernode that spans     *)
(* several shares is merged through the GlobalMergeData of its last one.   *)
(*                                                                         *)
(* A sketch that sums vertex sketches is the set of those vertices (a      *)
(* vertex merged twice cancels).  Between two barriers the threads of      *)
(* create_merge_instructions touch disjoint ranges of cc_prefix, so that   *)
(* each of its loops over a share is one step of the whole team; the       *)
(* captures of cc_prefix and the round itself interleave.                  *)
(***************************************************************************)
EXTENDS Integers, FiniteSets, FiniteSetsExt, PartitionIndex

CONSTANTS
  N,              \* num_vertices
  ThreadCounts,   \* sizes of the team OpenMP may give a query
  Labelings,      \* Labelings[r]: what the find_root calls of round r may return
  NumSamples      \* samples a sketch supports

Vertex == 0 .. N - 1
MaxThreads == Max(ThreadCounts)   \* omp_get_max_threads()
Tid == 0 .. MaxThreads - 1

ASSUME NAssumption == N \in Nat \ {0}
ASSUME ThreadAssumption ==
  /\ ThreadCounts \subseteq Nat \ {0}
  /\ \E most \in ThreadCounts : \A T \in ThreadCounts : T <= most
ASSUME LabelAssumption ==
  /\ NumSamples \in Nat \ {0}
  /\ Labelings \in [1 .. NumSamples -> SUBSET [Vertex -> Vertex]]

VARIABLES
  num_threads,   \* size of the team of this query
  cur_round,     \* rounds after round zero begun in this query
  phase,         \* where the team is; "undefined": after an access out of bounds
  lab,           \* lab[v]: what find_root(v) returns in this round
  merge_instr,   \* the array of MergeInstr
  cc_prefix, range_sums,   \* shared arrays of create_merge_instructions
  local_cc_idx,  \* local_cc_idx[t][root]: the value t captured for root, or None
  pos,           \* pos[t]: loop index of t in perform_boruvka_round
  from_left,     \* root_from_left of each thread
  pc,            \* what a thread does next in perform_boruvka_round
  global,        \* global_merges
  local_except,  \* did a sample of thread t throw?
  thrown,        \* did perform_boruvka_round throw?
  sampled,       \* history: the sums sampled in this round, ...
  taken          \* ... and the number of samples

sort_vars  == <<cc_prefix, range_sums, local_cc_idx>>
sample_vars == <<local_except, sampled, taken>>
round_vars == <<pos, from_left, pc, global, sample_vars>>
query_vars == <<num_threads, cur_round, lab, thrown>>
vars == <<query_vars, phase, merge_instr, sort_vars, round_vars>>

None  == -1   \* nothing captured yet
Unset == -1   \* num_merge_needed = -1, the largest size_t

MergeInstr == [root : Vertex, child : Vertex]
GlobalMergeData == [sum : SUBSET Vertex, needed : Nat \cup {Unset}, done : Nat]

Phases == {"between", "capture", "sum", "range", "finish", "write", "begin",
           "round", "undefined"}
ThreadPC == {"run", "query_own", "merge", "query", "done"}

TypeOK ==
  /\ num_threads \in ThreadCounts
  /\ cur_round \in 0 .. NumSamples
  /\ phase \in Phases
  /\ lab \in [Vertex -> Vertex]
  /\ merge_instr \in [Vertex -> MergeInstr]
  /\ cc_prefix \in [Vertex -> 0 .. N]
  /\ range_sums \in [Tid -> 0 .. N]
  /\ local_cc_idx \in [Tid -> [Vertex -> 0 .. N \cup {None}]]
  /\ pos \in [Tid -> 0 .. N]
  /\ from_left \in [Tid -> BOOLEAN]
  /\ pc \in [Tid -> ThreadPC]
  /\ global \in [Tid -> GlobalMergeData]
  /\ local_except \in [Tid -> BOOLEAN]
  /\ thrown \in BOOLEAN
  /\ sampled \in SUBSET SUBSET Vertex
  /\ taken \in 0 .. N

-----------------------------------------------------------------------------
(* Shares of the threads *)

Team == 0 .. num_threads - 1

\* get_ith_partition and get_partition_idx for num_vertices, tabulated.
IthPartitions == [T \in ThreadCounts |-> [t \in 0 .. T |-> Bound(N, t, T)]]
PartitionIdxs == [T \in ThreadCounts |-> [p \in Vertex |-> GetPartitionIdx(N, p, T)]]

Start(t) == IthPartitions[num_threads][t]
End(t)   == IthPartitions[num_threads][t + 1]
Share(t) == Start(t) .. End(t) - 1

\* The thread whose share holds position p.
Owner(p) == CHOOSE t \in Team : p \in Share(t)

Unsorted == [v \in Vertex |-> [root |-> v, child |-> v]]
NoGlobal == [sum |-> {}, needed |-> Unset, done |-> 0]

NoCapture == [t \in Tid |-> [v \in Vertex |-> None]]
Zeros(S)  == [x \in S |-> 0]

\* boruvka_emulation after round zero.
Init ==
  /\ num_threads \in ThreadCounts
  /\ cur_round = 0
  /\ phase = "between"
  /\ lab = [v \in Vertex |-> v]
  /\ merge_instr = Unsorted
  /\ global = [t \in Tid |-> NoGlobal]
  /\ thrown = FALSE
  /\ cc_prefix = Zeros(Vertex) /\ range_sums = Zeros(Tid) /\ local_cc_idx = NoCapture
  /\ pos = Zeros(Tid)
  /\ from_left = [t \in Tid |-> FALSE]
  /\ pc = [t \in Tid |-> "done"]
  /\ local_except = [t \in Tid |-> FALSE]
  /\ sampled = {} /\ taken = 0

-----------------------------------------------------------------------------
(* create_merge_instructions *)

Advance(from, to) == phase = from /\ phase' = to

\* The region starts.  Every thread looks up the vertices of its share.
CreateMergeInstructions ==
  /\ ~thrown /\ cur_round < NumSamples
  /\ cur_round' = cur_round + 1
  /\ lab' \in Labelings[cur_round']
  /\ Advance("between", IF \A t \in Team : Share(t) \subseteq Vertex
                        THEN "capture" ELSE "undefined")
  /\ UNCHANGED <<num_threads, merge_instr, sort_vars, round_vars, thrown>>

Label(p) == lab[merge_instr[p].child]

\* local_ccs[root] of thread t: positions of its share with label root.
LocalCc(t, root) == {p \in Share(t) : Label(p) = root}

\* Mutant of Captured: the value after the addition.
CapturedAfter(t, root) == cc_prefix[root] + Cardinality(LocalCc(t, root))

Captured(t, root) == cc_prefix[root]

\* The atomic capture of cc_prefix[root], for one label of the thread's map.
Capture(t, root) ==
  /\ phase = "capture"
  /\ LocalCc(t, root) # {} /\ local_cc_idx[t][root] = None
  /\ local_cc_idx' = [local_cc_idx EXCEPT ![t][root] = Captured(t, root)]
  /\ cc_prefix' = [cc_prefix EXCEPT ![root] = @ + Cardinality(LocalCc(t, root))]
  /\ UNCHANGED <<query_vars, phase, merge_instr, range_sums, round_vars>>

AllCaptured ==
  \A t \in Team : \A root \in Vertex :
    LocalCc(t, root) # {} => local_cc_idx[t][root] # None

Barrier ==
  /\ AllCaptured
  /\ Advance("capture", "sum")
  /\ UNCHANGED <<query_vars, merge_instr, sort_vars, round_vars>>

\* Each thread sums up its own share of cc_prefix.
PrefixSum ==
  /\ Advance("sum", "range")
  /\ LET Sum[i \in Vertex] ==
           IF \E t \in Team : i = Start(t) THEN cc_prefix[i] ELSE Sum[i - 1] + cc_prefix[i]
     IN  cc_prefix' = Sum
  /\ UNCHANGED <<query_vars, merge_instr, range_sums, local_cc_idx, round_vars>>

\* Mutant of LastBefore: the last position of the thread's own share.
LastOfOwn(t) == End(t) - 1

\* The last position of the share to the left of t.
LastBefore(t) == End(t - 1) - 1

\* One thread sums up the last elements of the shares.
RangeSums ==
  /\ Advance("range", "finish")
  /\ LET Sum[t \in Team] ==
           IF t = 0 THEN 0 ELSE cc_prefix[LastBefore(t)] + Sum[t - 1]
     IN  range_sums' = [t \in Tid |-> IF t \in Team THEN Sum[t] ELSE range_sums[t]]
  /\ UNCHANGED <<query_vars, merge_instr, cc_prefix, local_cc_idx, round_vars>>

\* Every thread but the first adds the sum of the shares to its left.
FinishSums ==
  /\ Advance("finish", "write")
  /\ cc_prefix' = [i \in Vertex |-> cc_prefix[i] + range_sums[Owner(i)]]
  /\ UNCHANGED <<query_vars, merge_instr, range_sums, local_cc_idx, round_vars>>

\* Mutant of Before: the shares of other threads are not counted.
BeforeNone(t, root) == 0

\* How many vertices with this label other threads place before those of t.
Before(t, root) == local_cc_idx[t][root]

\* Where the vertex at position p is written: after the smaller labels, the
\* shares of this label captured earlier, and those before it in its share.
Placement(p) ==
  LET t == Owner(p)
      root == Label(p)
  IN  Before(t, root) + (IF root > 0 THEN cc_prefix[root - 1] ELSE 0)
        + Cardinality({q \in LocalCc(t, root) : q < p})

\* The positions whose vertices are written to place c.
Writers(c) == {p \in Vertex : Placement(p) = c}

\* What is written for the vertex at position p.
Instr(p) == [root |-> Label(p), child |-> merge_instr[p].child]

\* The threads write; where two of them write, either may come last.  The
\* arrays of create_merge_instructions go out of scope.
WriteInstructions ==
  /\ Advance("write", IF \A p \in Vertex : Placement(p) \in Vertex
                      THEN "begin" ELSE "undefined")
  /\ \E last \in [{c \in Vertex : Cardinality(Writers(c)) > 1} -> Vertex] :
       /\ \A c \in DOMAIN last : last[c] \in Writers(c)
       /\ merge_instr' = [c \in Vertex |->
            IF c \in DOMAIN last THEN Instr(last[c])
            ELSE IF Writers(c) = {} THEN merge_instr[c]
            ELSE Instr(CHOOSE p \in Writers(c) : TRUE)]
  /\ cc_prefix' = Zeros(Vertex) /\ range_sums' = Zeros(Tid) /\ local_cc_idx' = NoCapture
  /\ UNCHANGED <<query_vars, round_vars>>

-----------------------------------------------------------------------------
(* perform_boruvka_round *)

Root(p) == merge_instr[p].root

\* The positions a thread reads before its loop.
EdgeReads(t) ==
  {Start(t)} \cup (IF Start(t) > 0 THEN {Start(t) - 1} ELSE {})
             \cup (IF End(t) < N THEN {End(t) - 1, End(t)} ELSE {})

\* Mutant of ClearGlobals: they keep what the last round left in them.
KeepGlobals == UNCHANGED global

ClearGlobals == global' = [t \in Tid |-> NoGlobal]

\* The globals are cleared, the region starts, and every thread finds out
\* whether its first supernode comes from the share to its left.
BeginRound ==
  /\ Advance("begin", IF \A t \in Team : EdgeReads(t) \subseteq Vertex
                      THEN "round" ELSE "undefined")
  /\ ClearGlobals
  /\ pos' = [t \in Tid |-> IF t \in Team THEN Start(t) ELSE 0]
  /\ from_left' = [t \in Tid |-> /\ t \in Team /\ phase' = "round"
                                 /\ Start(t) > 0 /\ Root(Start(t) - 1) = Root(Start(t))]
  /\ pc' = [t \in Tid |-> IF t \in Team THEN "run" ELSE "done"]
  /\ UNCHANGED <<query_vars, merge_instr, sort_vars, sample_vars>>

ExitsRight(t) == End(t) < N /\ Root(End(t) - 1) = Root(End(t))

\* cur_root of thread t, and where its run of positions with this root ends.
CurRoot(t) == Root(pos[t])
RunEnd(t)  == Min({End(t)} \cup {p \in pos[t] .. End(t) - 1 : Root(p) # CurRoot(t)})

Xor(A, B) == (A \ B) \cup (B \ A)

\* range_merge(., cur_round, 1) of sums A and B: without samples it adds nothing.
RangeMerge(A, B) == IF cur_round < NumSamples THEN Xor(A, B) ELSE A

\* local_sketch after the run of thread t.
LocalSum(t) ==
  RangeMerge({}, {merge_instr[p].child : p \in pos[t] .. RunEnd(t) - 1})

\* sample_supernode of thread t: sampling throws when there are no samples.
SampleSupernode(t, sum) ==
  IF cur_round < NumSamples
  THEN /\ sampled' = sampled \cup {sum} /\ taken' = taken + 1
       /\ UNCHANGED local_except
  ELSE /\ local_except' = [local_except EXCEPT ![t] = TRUE]
       /\ UNCHANGED <<sampled, taken>>

\* merge_global under the mutex; next: is it safe to query?
MergeGlobal(t, g, ready, waiting) ==
  LET new == [global[g] EXCEPT !.sum = RangeMerge(@, LocalSum(t)), !.done = @ + 1]
  IN  /\ global' = [global EXCEPT ![g] = new]
      /\ pc' = [pc EXCEPT ![t] = IF new.needed # Unset /\ new.done >= new.needed
                                 THEN ready ELSE waiting]

ThreadAt(t, where) == phase = "round" /\ t \in Team /\ pc[t] = where

InnerRun(t) == ThreadAt(t, "run") /\ RunEnd(t) < End(t)
LastRun(t)  == ThreadAt(t, "run") /\ RunEnd(t) = End(t)

NextRoot(t) == pos' = [pos EXCEPT ![t] = RunEnd(t)]

\* The root changes within the share: a supernode of this share only ...
InnerLocal(t) ==
  /\ InnerRun(t) /\ ~from_left[t]
  /\ SampleSupernode(t, LocalSum(t))
  /\ NextRoot(t)
  /\ UNCHANGED <<query_vars, phase, merge_instr, sort_vars, from_left, pc, global>>

\* ... or the end of one from the left, whose global this thread owns.
InnerGlobal(t) ==
  /\ InnerRun(t) /\ from_left[t]
  /\ MergeGlobal(t, t, "query_own", "run")
  /\ from_left' = [from_left EXCEPT ![t] = FALSE]
  /\ NextRoot(t)
  /\ UNCHANGED <<query_vars, phase, merge_instr, sort_vars, sample_vars>>

QueryOwn(t) ==
  /\ ThreadAt(t, "query_own")
  /\ SampleSupernode(t, global[t].sum)
  /\ pc' = [pc EXCEPT ![t] = "run"]
  /\ UNCHANGED <<query_vars, phase, merge_instr, sort_vars, pos, from_left, global>>

\* The binary search of find_last_partition_of_root, from the thread's start.
LastPosition(t) ==
  LET Search[range \in Vertex \X Vertex] ==
        LET lo == range[1]
            hi == range[2]
            mid == lo + (hi - lo) \div 2
        IN  IF lo >= hi THEN lo
            ELSE IF Root(mid) <= CurRoot(t) THEN Search[<<mid + 1, hi>>]
            ELSE Search[<<lo, mid>>]
      min == Search[<<Start(t), N - 1>>]
  IN  IF Root(min) # CurRoot(t) THEN min - 1 ELSE min

FindLastPartition(t) == PartitionIdxs[num_threads][LastPosition(t)]

\* The last supernode of the share lies within it.
LastLocal(t) ==
  /\ LastRun(t) /\ ~from_left[t] /\ ~ExitsRight(t)
  /\ SampleSupernode(t, LocalSum(t))
  /\ pc' = [pc EXCEPT ![t] = "done"]
  /\ UNCHANGED <<query_vars, phase, merge_instr, sort_vars, pos, from_left, global>>

\* It starts in this share and exits right: say how many threads will merge.
SetNeeded(t) ==
  /\ LastRun(t) /\ ~from_left[t] /\ ExitsRight(t)
  /\ LET g == FindLastPartition(t)
     IN  global' = [global EXCEPT ![g].needed = g - t + 1]
  /\ pc' = [pc EXCEPT ![t] = "merge"]
  /\ UNCHANGED <<query_vars, phase, merge_instr, sort_vars, pos, from_left, sample_vars>>

\* Merge it into the global of the last share it reaches.
LastGlobal(t) ==
  /\ (LastRun(t) /\ from_left[t]) \/ ThreadAt(t, "merge")
  /\ MergeGlobal(t, FindLastPartition(t), "query", "done")
  /\ UNCHANGED <<query_vars, phase, merge_instr, sort_vars, pos, from_left, sample_vars>>

QueryLast(t) ==
  /\ ThreadAt(t, "query")
  /\ SampleSupernode(t, global[FindLastPartition(t)].sum)
  /\ pc' = [pc EXCEPT ![t] = "done"]
  /\ UNCHANGED <<query_vars, phase, merge_instr, sort_vars, pos, from_left, global>>

\* The locals of the threads go out of scope.
JoinThreads ==
  /\ pos' = Zeros(Tid)
  /\ from_left' = [t \in Tid |-> FALSE]
  /\ local_except' = [t \in Tid |-> FALSE]
  /\ sampled' = {} /\ taken' = 0
  /\ UNCHANGED pc

\* Mutant of Except: only the first thread reports its exception.
ExceptFirst == local_except[0]

Except == \E t \in Team : local_except[t]

\* The threads join; an exception of any of them is thrown again.
EndRound ==
  /\ \A t \in Team : pc[t] = "done"
  /\ Advance("round", "between")
  /\ thrown' = Except
  /\ JoinThreads
  /\ UNCHANGED <<num_threads, cur_round, lab, merge_instr, sort_vars, global>>

\* The query is over, by an exception or by a round that modified nothing;
\* another one starts.
NewQuery ==
  /\ phase = "between" /\ cur_round > 0
  /\ num_threads' \in ThreadCounts
  /\ cur_round' = 0
  /\ lab' = [v \in Vertex |-> v]
  /\ merge_instr' = Unsorted
  /\ global' = [t \in Tid |-> NoGlobal]
  /\ thrown' = FALSE
  /\ UNCHANGED <<phase, sort_vars, pos, from_left, pc, sample_vars>>

-----------------------------------------------------------------------------
CaptureStep(t) == t \in Team /\ \E root \in Vertex : Capture(t, root)

RoundStep(t) ==
  \/ InnerLocal(t) \/ InnerGlobal(t) \/ QueryOwn(t)
  \/ LastLocal(t) \/ SetNeeded(t) \/ LastGlobal(t) \/ QueryLast(t)

ThreadStep(t) == CaptureStep(t) \/ RoundStep(t)

TeamStep ==
  \/ Barrier \/ PrefixSum \/ RangeSums \/ FinishSums \/ WriteInstructions
  \/ BeginRound \/ EndRound

Next ==
  \/ \E t \in Tid : ThreadStep(t)
  \/ TeamStep \/ CreateMergeInstructions \/ NewQuery

Spec == Init /\ [][Next]_vars

\* The threads of a parallel region keep running.
Fairness == WF_vars(TeamStep) /\ \A t \in Tid : WF_vars(ThreadStep(t))

FairSpec == Spec /\ Fairness

-----------------------------------------------------------------------------
(* Properties *)

\* When a round begins, the concurrent counting sort has put every vertex into
\* merge_instr exactly once, with its own label, and the labels in order; the
\* binary search and the borders between shares rely on it.
InstructionsRight ==
  phase \in {"begin", "round"} =>
    /\ {merge_instr[p].child : p \in Vertex} = Vertex
    /\ \A p \in Vertex : merge_instr[p].root = lab[merge_instr[p].child]
    /\ \A p \in Vertex \ {0} : merge_instr[p - 1].root <= merge_instr[p].root

\* assert(num_merge_done <= num_merge_needed), and the mutex is taken once per
\* thread that the supernode reaches: when a global has counted the merges it
\* needs, it holds one whole supernode.
GlobalsComplete ==
  phase = "round" =>
    \A g \in Team : LET d == global[g] IN
      d.needed # Unset =>
        /\ d.done <= d.needed
        /\ d.done = d.needed /\ cur_round < NumSamples =>
             d.sum \in {{x \in Vertex : lab[x] = lab[v]} : v \in Vertex}

\* "the ith half-open range in the division of [0, length]", "write the
\* local_ccs to the correct portion of the merge_instr array": the shares of
\* the threads and the places they compute lie within merge_instr and
\* cc_prefix, and no access is out of bounds.
NoWildAccess == phase # "undefined"

\* Rounds are atomic for the rest of the algorithm: each samples every
\* supernode once and whole, with the sum of all its vertices, or throws when
\* the samples are used up, however threads interleave; and it ends.
Rounds == INSTANCE BoruvkaRounds WITH
            round   <- cur_round,
            todo    <- IF phase = "between" \/ cur_round = 0 THEN {}
                       ELSE {{x \in Vertex : lab[x] = lab[v]} : v \in Vertex} \ sampled,
            running <- phase # "between"

RoundsImplemented == Rounds!RSpec

\* "Returns the half-open range idx that contains idx / Inverse of
\* get_ith_partition": so a supernode that spans shares is sampled whole.
SampledWhole ==
  \A S \in sampled : \E v \in Vertex : S = {x \in Vertex : lab[x] = lab[v]}
=============================================================================
