----------------------------- MODULE RoundProofs -----------------------------
(***************************************************************************)
(* Theorems about perform_boruvka_round and merge_global in MergeRound:    *)
(* however the threads of a round interleave, the globals are complete     *)
(* when they are queried and the rounds are those of BoruvkaRounds.        *)
(***************************************************************************)
EXTENDS SortProofs

\* get_partition_idx names the share that holds a position.  For some numbers of
\* vertices and threads it does not (run round_split).
IndexRight ==
  \A T \in ThreadCounts : \A t \in 0 .. T - 1 : \A p \in Vertex :
    Bound(N, t, T) <= p /\ p < Bound(N, t + 1, T) => GetPartitionIdx(N, p, T) = t

-----------------------------------------------------------------------------
(* The inductive invariant *)

\* The threads whose shares hold a part of the supernode with this root.
Holders(root) == {t \in Team : \E p \in Share(t) : Root(p) = root}

\* Has thread t merged or sampled its part of this supernode?
Passed(t, root) ==
  \/ Root(pos[t]) > root
  \/ Root(pos[t]) = root /\ pc[t] \in {"query", "done"}

\* Is thread t about to sample this supernode from a global?
Querying(t, root) ==
  \/ pc[t] = "query" /\ Root(pos[t]) = root
  \/ pc[t] = "query_own" /\ Root(Start(t)) = root

AllPassed(root) == \A t \in Holders(root) : Passed(t, root)

\* The supernodes sampled so far.
Complete ==
  {root \in Vertex : /\ Holders(root) # {} /\ AllPassed(root)
                     /\ \A t \in Holders(root) : ~Querying(t, root)}

Members(root) == {v \in Vertex : lab[v] = root}

\* The first supernode of the share of t starts further left.
Left(t) == Start(t) > 0 /\ Root(Start(t) - 1) = Root(Start(t))

\* A thread goes through its share from one root to the next.
RunInv(t) ==
  /\ pos[t] \in Share(t)
  /\ pos[t] = Start(t) \/ Root(pos[t] - 1) # Root(pos[t])
  /\ from_left[t] <=> Left(t) /\ pos[t] = Start(t)
  /\ pc[t] \in {"merge", "query", "done"} => Root(End(t) - 1) = Root(pos[t])
  /\ pc[t] = "merge" => ~from_left[t] /\ ExitsRight(t)
  /\ pc[t] = "query" => from_left[t] \/ ExitsRight(t)
  /\ pc[t] = "query_own" => Left(t) /\ pos[t] # Start(t)

\* Global g is that of the first supernode of the share of g, if it comes from
\* the left and ends here.
Active(g) == Left(g) /\ \A p \in Vertex : Root(p) = Root(Start(g)) => Owner(p) <= g

\* Thread t, the first holder, has said how many threads will merge.
Announced(t, root) ==
  /\ ~(Left(t) /\ Root(Start(t)) = root)
  /\ Passed(t, root) \/ (pc[t] = "merge" /\ Root(pos[t]) = root)

\* A global holds the parts of the threads that have passed.
Global(root) ==
  [sum    |-> IF cur_round < NumSamples
              THEN {merge_instr[p].child : p \in {q \in Vertex : /\ Root(q) = root
                                                                 /\ Passed(Owner(q), root)}}
              ELSE {},
   needed |-> IF \E t \in Holders(root) : Announced(t, root)
              THEN Cardinality(Holders(root)) ELSE Unset,
   done   |-> Cardinality({t \in Holders(root) : Passed(t, root)})]

GlobalInv ==
  \A g \in Tid :
    /\ ~(g \in Team /\ Active(g)) => global[g] = NoGlobal
    /\ \A root \in Vertex : g \in Team /\ Active(g) /\ Root(Start(g)) = root => global[g] = Global(root)

\* One thread samples a supernode that several hold, when all of them are done.
QueryInv ==
  \A root \in Vertex : \A t \in Holders(root) : Querying(t, root) =>
    AllPassed(root) /\ \A o \in Holders(root) : Querying(o, root) => o = t

SampleInv ==
  IF cur_round < NumSamples
  THEN /\ sampled = {Members(root) : root \in Complete}
       /\ taken = Cardinality(sampled)
       /\ \A t \in Tid : ~local_except[t]
  ELSE /\ sampled = {} /\ taken = 0
       /\ Complete # {} => Except

RoundType ==
  /\ pos \in [Tid -> 0 .. N]
  /\ from_left \in [Tid -> BOOLEAN]
  /\ pc \in [Tid -> ThreadPC]
  /\ global \in [Tid -> GlobalMergeData]
  /\ local_except \in [Tid -> BOOLEAN]
  /\ thrown \in BOOLEAN

RoundInv ==
  /\ RoundType
  /\ phase = "round" => (\A t \in Team : RunInv(t)) /\ GlobalInv /\ QueryInv /\ SampleInv
  /\ phase # "round" => sampled = {} /\ taken = 0 /\ \A t \in Tid : ~local_except[t]
  /\ phase # "between" => ~thrown /\ cur_round > 0

-----------------------------------------------------------------------------
(* The order of the roots and the shares *)

LEMMA Sorted ==
  ASSUME SortInv, phase \in {"begin", "round"}
  PROVE  /\ \A p \in Vertex : Root(p) \in Vertex
         /\ \A p, q \in Vertex : p <= q => Root(p) <= Root(q)
<1>1. \A p \in Vertex : Root(p) \in Vertex /\ Root(p) \in Nat
  BY VertexFacts DEF SortInv, SortType, MergeInstr, Root
<1>2. \A p \in Vertex \ {0} : Root(p - 1) <= Root(p)
  BY DEF SortInv, InstructionsRight, Root
<1>3. SUFFICES ASSUME NEW p \in Vertex PROVE \A q \in Vertex : p <= q => Root(p) <= Root(q)
  BY <1>1
<1> DEFINE D == {q \in Vertex : p <= q /\ ~(Root(p) <= Root(q))}
<1>4. SUFFICES ASSUME D # {} PROVE FALSE
  OBVIOUS
<1>5. D \subseteq Nat /\ \A q \in D : q \in Vertex /\ p <= q /\ ~(Root(p) <= Root(q))
  BY VertexFacts
<1>6. \A q \in Vertex : q \notin D => ~(p <= q) \/ Root(p) <= Root(q)
  OBVIOUS
<1> HIDE DEF D
<1>7. PICK q \in D : \A y \in D : q <= y
  BY <1>4, <1>5, LeastNat
<1>8. p \in Nat /\ q \in Nat /\ p < q /\ q - 1 \in Vertex /\ q \in Vertex \ {0}
  BY <1>1, <1>5, <1>7, VertexFacts DEF Vertex
<1>9. q - 1 \notin D
  BY <1>7, <1>8
<1> QED BY <1>1, <1>2, <1>5, <1>6, <1>7, <1>8, <1>9

\* Owner is monotone, and End(t) - 1 and End(t) belong to neighbours.
LEMMA OwnerOrder ==
  ASSUME SharesRight, num_threads \in ThreadCounts
  PROVE  /\ \A p, q \in Vertex : p <= q => Owner(p) <= Owner(q)
         /\ \A p, q \in Vertex : Owner(p) < Owner(q) => p < q
         /\ \A p \in Vertex : Owner(p) \in Team /\ Owner(p) \in Nat
         /\ \A p \in Vertex : Start(Owner(p)) <= p /\ p < End(Owner(p))
         /\ \A p \in Vertex : \A t \in Team : p \in Share(t) <=> Owner(p) = t
         /\ \A t \in Team : Start(t) \in Vertex /\ Owner(Start(t)) = t
         /\ \A t \in Team : End(t) - 1 \in Vertex /\ Owner(End(t) - 1) = t
         /\ \A t \in Team : Start(t) > 0 => Start(t) - 1 \in Vertex /\ Owner(Start(t) - 1) = t - 1
         /\ \A t \in Team : End(t) < N => End(t) \in Vertex /\ Owner(End(t)) = t + 1
<1>1. \A p \in Vertex : Owner(p) \in Team /\ Owner(p) \in Nat /\ p \in Share(Owner(p)) /\ p \in Nat
  BY OwnerFacts, TeamFacts, VertexFacts
<1>2. \A t \in Team : Start(t) \in Nat /\ End(t) \in Nat /\ t \in Nat
  BY ShareFacts, TeamFacts
<1>3. \A p \in Vertex : Start(Owner(p)) <= p /\ p < End(Owner(p))
  BY <1>1, <1>2 DEF Share
<1>4. \A s, t \in Team : s < t => End(s) <= Start(t)
  BY ShareFacts
<1>5. ASSUME NEW p \in Vertex, NEW q \in Vertex, Owner(p) < Owner(q) PROVE p < q
  BY <1>1, <1>2, <1>3, <1>4, <1>5
<1>6. ASSUME NEW p \in Vertex, NEW q \in Vertex, p <= q PROVE Owner(p) <= Owner(q)
  BY <1>1, <1>5, <1>6
<1>7. \A p \in Vertex : \A t \in Team : p \in Share(t) <=> Owner(p) = t
  BY OwnerFacts
<1>8. ASSUME NEW t \in Team
      PROVE  /\ Start(t) \in Vertex /\ Owner(Start(t)) = t
             /\ End(t) - 1 \in Vertex /\ Owner(End(t) - 1) = t
  <2>1. Start(t) \in Share(t) /\ End(t) - 1 \in Share(t) /\ Share(t) \subseteq Vertex
    BY <1>2, ShareFacts DEF Share
  <2> QED BY <1>7, <2>1
<1>9. ASSUME NEW t \in Team, Start(t) > 0
      PROVE  Start(t) - 1 \in Vertex /\ Owner(Start(t) - 1) = t - 1
  <2>1. t > 0
    BY <1>2, <1>9, ShareFacts
  <2>2. t - 1 \in Team /\ End(t - 1) = Start(t)
    BY <1>2, <2>1, ShareFacts
  <2> QED BY <1>8, <2>2
<1>10. ASSUME NEW t \in Team, End(t) < N
       PROVE  End(t) \in Vertex /\ Owner(End(t)) = t + 1
  <2>1. t + 1 \in Team
    BY <1>2, <1>10, ShareFacts, TeamFacts, VertexFacts DEF Team
  <2>2. End(t) = Start(t + 1)
    BY <1>2, <2>1, ShareFacts
  <2> QED BY <1>8, <2>1, <2>2
<1> QED BY <1>1, <1>3, <1>5, <1>6, <1>7, <1>8, <1>9, <1>10

\* The holders of a supernode are neighbours; all but the first get it from the
\* left and all but the last hand it on to the right.
LEMMA HolderFacts ==
  ASSUME SharesRight, SortInv, phase = "round", NEW root \in Vertex
  PROVE  /\ Holders(root) \subseteq Team
         /\ \A t \in Team : t \in Holders(root) <=> \E p \in Vertex : Root(p) = root /\ Owner(p) = t
         /\ \A s, t \in Holders(root) : \A o \in Team : s <= o /\ o <= t => o \in Holders(root)
         /\ \A s, t \in Holders(root) : s < t => Left(t) /\ Root(Start(t)) = root
         /\ \A s, t \in Holders(root) : s < t => ExitsRight(s) /\ Root(End(s) - 1) = root
         /\ \A t \in Team : Left(t) /\ Root(Start(t)) = root => t \in Holders(root) /\ t - 1 \in Holders(root)
         /\ \A t \in Team : ExitsRight(t) /\ Root(End(t) - 1) = root =>
              t \in Holders(root) /\ t + 1 \in Holders(root)
<1>1. num_threads \in ThreadCounts
  BY DEF SortInv, SortType
<1>2. Holders(root) \subseteq Team
  BY DEF Holders
<1>3. \A t \in Team : t \in Holders(root) <=> \E p \in Vertex : Root(p) = root /\ Owner(p) = t
  <2>1. \A t \in Team : Share(t) \subseteq Vertex
    BY <1>1, ShareFacts
  <2> QED BY <1>1, <2>1, OwnerOrder DEF Holders
<1>4. \A t \in Team : t \in Nat /\ Start(t) \in Nat /\ End(t) \in Nat /\ Start(t) < End(t) /\ End(t) <= N
  BY <1>1, ShareFacts, TeamFacts
<1>5. \A p \in Vertex : Root(p) \in Nat /\ p \in Nat
  BY Sorted, VertexFacts
<1>6. ASSUME NEW s \in Holders(root), NEW t \in Holders(root), NEW o \in Team, s <= o, o <= t
      PROVE  o \in Holders(root)
  <2>1. CASE o = s \/ o = t
    BY <2>1
  <2>2. CASE s < o /\ o < t
    <3>1. PICK p \in Vertex : Root(p) = root /\ Owner(p) = s
      BY <1>2, <1>3
    <3>2. PICK q \in Vertex : Root(q) = root /\ Owner(q) = t
      BY <1>2, <1>3
    <3>3. Start(o) \in Vertex /\ Owner(Start(o)) = o /\ p < Start(o) /\ Start(o) < q
      BY <1>1, <2>2, <3>1, <3>2, OwnerOrder
    <3>4. Root(p) <= Root(Start(o)) /\ Root(Start(o)) <= Root(q)
      BY <1>5, <3>3, Sorted
    <3>5. Root(Start(o)) = root
      BY <1>5, <3>1, <3>2, <3>3, <3>4
    <3> QED BY <1>3, <3>3, <3>5
  <2> QED BY <1>2, <1>4, <1>6, <2>1, <2>2
<1>7. ASSUME NEW s \in Holders(root), NEW t \in Holders(root), s < t
      PROVE  /\ Left(t) /\ Root(Start(t)) = root
             /\ ExitsRight(s) /\ Root(End(s) - 1) = root
  <2>1. PICK p \in Vertex : Root(p) = root /\ Owner(p) = s
    BY <1>2, <1>3
  <2>2. PICK q \in Vertex : Root(q) = root /\ Owner(q) = t
    BY <1>2, <1>3
  <2>3. s \in Team /\ t \in Team /\ End(s) <= Start(t)
    BY <1>1, <1>2, <1>7, ShareFacts
  <2>4. p < End(s) /\ Start(t) <= q /\ Start(t) \in Vertex
    BY <1>1, <2>1, <2>2, <2>3, OwnerOrder
  <2>5. \A x \in Vertex : p <= x /\ x <= q => Root(x) = root
    BY <1>5, <2>1, <2>2, Sorted
  <2>6. Start(t) > 0 /\ Start(t) - 1 \in Vertex /\ End(s) - 1 \in Vertex /\ End(s) \in Vertex /\ End(s) < N
    BY <1>4, <1>5, <2>3, <2>4, VertexFacts DEF Vertex
  <2>7. Root(Start(t)) = root /\ Root(Start(t) - 1) = root /\ Root(End(s) - 1) = root /\ Root(End(s)) = root
    BY <1>4, <1>5, <2>3, <2>4, <2>5, <2>6
  <2> QED BY <2>6, <2>7 DEF Left, ExitsRight
<1>8. ASSUME NEW t \in Team, Left(t), Root(Start(t)) = root
      PROVE  t \in Holders(root) /\ t - 1 \in Holders(root)
  <2>1. /\ Start(t) \in Vertex /\ Owner(Start(t)) = t
        /\ Start(t) - 1 \in Vertex /\ Owner(Start(t) - 1) = t - 1 /\ Root(Start(t) - 1) = root
    BY <1>1, <1>8, OwnerOrder DEF Left
  <2>2. t - 1 \in Team
    BY <1>1, <2>1, OwnerOrder
  <2> QED BY <1>3, <1>8, <2>1, <2>2
<1>9. ASSUME NEW t \in Team, ExitsRight(t), Root(End(t) - 1) = root
      PROVE  t \in Holders(root) /\ t + 1 \in Holders(root)
  <2>1. /\ End(t) - 1 \in Vertex /\ Owner(End(t) - 1) = t
        /\ End(t) \in Vertex /\ Owner(End(t)) = t + 1 /\ Root(End(t)) = root
    BY <1>1, <1>9, OwnerOrder DEF ExitsRight
  <2>2. t + 1 \in Team
    BY <1>1, <2>1, OwnerOrder
  <2> QED BY <1>3, <1>9, <2>1, <2>2
<1> QED BY <1>2, <1>3, <1>6, <1>7, <1>8, <1>9

\* A global is that of the last holder of a supernode with several.
LEMMA ActiveFacts ==
  ASSUME SharesRight, SortInv, phase = "round"
  PROVE  /\ \A g \in Team : \A root \in Vertex : Active(g) /\ Root(Start(g)) = root =>
              /\ g \in Holders(root) /\ g - 1 \in Holders(root)
              /\ \A o \in Holders(root) : o <= g
         /\ \A root \in Vertex : \A s, g \in Holders(root) :
              s < g /\ (\A o \in Holders(root) : o <= g) => Active(g) /\ Root(Start(g)) = root
         /\ \A g, h \in Team : Active(g) /\ Active(h) /\ Root(Start(g)) = Root(Start(h)) => g = h
<1>1. num_threads \in ThreadCounts
  BY DEF SortInv, SortType
<1>2. ASSUME NEW g \in Team, NEW root \in Vertex, Active(g), Root(Start(g)) = root
      PROVE  /\ g \in Holders(root) /\ g - 1 \in Holders(root)
             /\ \A o \in Holders(root) : o <= g
  <2>1. g \in Holders(root) /\ g - 1 \in Holders(root)
    BY <1>2, HolderFacts DEF Active
  <2>2. ASSUME NEW o \in Holders(root) PROVE o <= g
    <3>1. PICK p \in Vertex : Root(p) = root /\ Owner(p) = o
      BY HolderFacts
    <3> QED BY <1>2, <3>1 DEF Active
  <2> QED BY <2>1, <2>2
<1>3. ASSUME NEW root \in Vertex, NEW s \in Holders(root), NEW g \in Holders(root), s < g,
             \A o \in Holders(root) : o <= g
      PROVE  Active(g) /\ Root(Start(g)) = root
  <2>1. Left(g) /\ Root(Start(g)) = root
    BY <1>3, HolderFacts
  <2>2. ASSUME NEW p \in Vertex, Root(p) = root PROVE Owner(p) <= g
    <3>1. Owner(p) \in Team
      BY <1>1, OwnerOrder
    <3> QED BY <1>3, <2>2, <3>1, HolderFacts
  <2> QED BY <2>1, <2>2 DEF Active
<1>4. ASSUME NEW g \in Team, NEW h \in Team, Active(g), Active(h), Root(Start(g)) = Root(Start(h))
      PROVE  g = h
  <2>1. Root(Start(g)) \in Vertex
    BY <1>1, OwnerOrder, Sorted
  <2>2. g <= h /\ h <= g
    BY <1>2, <1>4, <2>1
  <2> QED BY <1>1, <2>2, TeamFacts
<1> QED BY <1>2, <1>3, <1>4

-----------------------------------------------------------------------------
(* The run of a thread and the search for the last share of its supernode *)

LEMMA RunFacts ==
  ASSUME SharesRight, SortInv, phase = "round", NEW t \in Team, RunInv(t)
  PROVE  /\ pos[t] \in Vertex /\ CurRoot(t) \in Vertex /\ Owner(pos[t]) = t
         /\ t \in Holders(CurRoot(t))
         /\ RunEnd(t) \in Nat /\ pos[t] < RunEnd(t) /\ RunEnd(t) <= End(t)
         /\ \A p \in Vertex : p \in pos[t] .. RunEnd(t) - 1 <=> Root(p) = CurRoot(t) /\ Owner(p) = t
         /\ RunEnd(t) < End(t) => /\ RunEnd(t) \in Share(t) /\ RunEnd(t) \in Vertex
                                  /\ CurRoot(t) < Root(RunEnd(t))
                                  /\ Root(RunEnd(t) - 1) = CurRoot(t)
                                  /\ \A p \in Vertex : Root(p) = CurRoot(t) => p < RunEnd(t)
         /\ RunEnd(t) = End(t) => Root(End(t) - 1) = CurRoot(t)
         /\ Root(End(t) - 1) = CurRoot(t) => RunEnd(t) = End(t)
<1>1. num_threads \in ThreadCounts
  BY DEF SortInv, SortType
<1>2. /\ Start(t) \in Nat /\ End(t) \in Nat /\ Start(t) < End(t) /\ End(t) <= N /\ N \in Nat
      /\ Share(t) \subseteq Vertex
  BY <1>1, ShareFacts, VertexFacts
<1>3. pos[t] \in Vertex /\ pos[t] \in Nat /\ Start(t) <= pos[t] /\ pos[t] < End(t) /\ Owner(pos[t]) = t
  BY <1>1, <1>2, OwnerOrder, VertexFacts DEF RunInv, Share
<1>4. CurRoot(t) = Root(pos[t]) /\ CurRoot(t) \in Vertex /\ CurRoot(t) \in Nat
  BY <1>3, Sorted, VertexFacts DEF CurRoot
<1>5. t \in Holders(CurRoot(t))
  BY <1>3, <1>4, HolderFacts
<1>6. \A p \in Vertex : Root(p) \in Nat /\ p \in Nat
  BY Sorted, VertexFacts
<1> DEFINE E == {End(t)} \cup {p \in pos[t] .. End(t) - 1 : Root(p) # CurRoot(t)}
<1>7. RunEnd(t) \in E /\ \A p \in E : RunEnd(t) <= p
  <2>1. E \subseteq Nat /\ E # {}
    BY <1>2, <1>3
  <2>2. \E m \in E : \A p \in E : m <= p
    BY <2>1, LeastNat
  <2> QED BY <2>2 DEF RunEnd, Min
<1>8. RunEnd(t) \in Nat /\ pos[t] < RunEnd(t) /\ RunEnd(t) <= End(t)
  BY <1>2, <1>3, <1>4, <1>7
<1>9. \A p \in pos[t] .. RunEnd(t) - 1 : p \in Vertex /\ p \in Share(t) /\ Root(p) = CurRoot(t)
  <2>1. ASSUME NEW p \in pos[t] .. RunEnd(t) - 1 PROVE p \in Vertex /\ p \in Share(t) /\ Root(p) = CurRoot(t)
    <3>1. p \in Nat /\ p < RunEnd(t) /\ p \in pos[t] .. End(t) - 1
      BY <1>2, <1>3, <1>8
    <3>2. p \in Share(t)
      BY <1>2, <1>3, <3>1 DEF Share
    <3>3. p \notin E
      BY <1>7, <1>8, <3>1
    <3> QED BY <1>2, <3>1, <3>2, <3>3
  <2> QED BY <2>1
<1>10. ASSUME RunEnd(t) < End(t)
       PROVE  /\ RunEnd(t) \in Share(t) /\ RunEnd(t) \in Vertex /\ CurRoot(t) < Root(RunEnd(t))
              /\ Root(RunEnd(t) - 1) = CurRoot(t)
              /\ \A p \in Vertex : Root(p) = CurRoot(t) => p < RunEnd(t)
  <2>1. RunEnd(t) \in Share(t) /\ RunEnd(t) \in Vertex
    BY <1>2, <1>3, <1>8, <1>10 DEF Share
  <2>2. Root(RunEnd(t)) # CurRoot(t)
    BY <1>2, <1>7, <1>10
  <2>3. Root(pos[t]) <= Root(RunEnd(t))
    BY <1>3, <1>8, <2>1, Sorted
  <2>4. CurRoot(t) < Root(RunEnd(t))
    BY <1>4, <1>6, <2>1, <2>2, <2>3
  <2>5. ASSUME NEW p \in Vertex, Root(p) = CurRoot(t) PROVE p < RunEnd(t)
    <3>1. RunEnd(t) <= p => Root(RunEnd(t)) <= Root(p)
      BY <2>1, Sorted
    <3> QED BY <1>4, <1>6, <1>8, <2>1, <2>4, <2>5, <3>1
  <2>6. Root(RunEnd(t) - 1) = CurRoot(t)
    BY <1>3, <1>8, <1>9
  <2> QED BY <2>1, <2>4, <2>5, <2>6
<1>11. ASSUME NEW p \in Vertex
       PROVE  p \in pos[t] .. RunEnd(t) - 1 <=> Root(p) = CurRoot(t) /\ Owner(p) = t
  <2>1. p \in pos[t] .. RunEnd(t) - 1 => Root(p) = CurRoot(t) /\ Owner(p) = t
    BY <1>1, <1>9, OwnerOrder
  <2>2. ASSUME Root(p) = CurRoot(t), Owner(p) = t PROVE p \in pos[t] .. RunEnd(t) - 1
    <3>1. Start(t) <= p /\ p < End(t)
      BY <1>1, <2>2, OwnerOrder
    <3>2. p < RunEnd(t)
      BY <1>2, <1>8, <1>10, <2>2, <3>1
    <3>3. pos[t] <= p
      <4>1. SUFFICES ASSUME p < pos[t] PROVE FALSE
        BY <1>3, <1>6
      <4>2. pos[t] - 1 \in Vertex /\ p <= pos[t] - 1 /\ pos[t] # Start(t)
        BY <1>2, <1>3, <1>6, <3>1, <4>1, VertexFacts DEF Vertex
      <4>3. Root(p) <= Root(pos[t] - 1) /\ Root(pos[t] - 1) <= Root(pos[t])
        BY <1>3, <4>2, Sorted
      <4>4. Root(pos[t] - 1) = Root(pos[t])
        BY <1>3, <1>4, <1>6, <2>2, <4>2, <4>3
      <4> QED BY <4>2, <4>4 DEF RunInv
    <3> QED BY <1>3, <1>6, <1>8, <3>2, <3>3
  <2> QED BY <2>1, <2>2
<1>12. RunEnd(t) = End(t) => Root(End(t) - 1) = CurRoot(t)
  BY <1>2, <1>3, <1>9
<1>13. Root(End(t) - 1) = CurRoot(t) => RunEnd(t) = End(t)
  <2>1. End(t) - 1 \in Vertex
    BY <1>1, OwnerOrder
  <2> QED BY <1>2, <1>8, <1>10, <2>1
<1> QED BY <1>3, <1>4, <1>5, <1>8, <1>10, <1>11, <1>12, <1>13

\* find_last_partition_of_root finds the last position with the root.
LEMMA SearchRight ==
  ASSUME SharesRight, SortInv, phase = "round", NEW t \in Team, RunInv(t)
  PROVE  /\ LastPosition(t) \in Vertex /\ Root(LastPosition(t)) = CurRoot(t)
         /\ \A p \in Vertex : LastPosition(t) < p => CurRoot(t) < Root(p)
<1> DEFINE cur == CurRoot(t)
           Mid(r) == r[1] + (r[2] - r[1]) \div 2
           First(lo, hi) == Min({hi} \cup {p \in lo .. hi - 1 : Root(p) > cur})
           Searches(f) == f = [r \in Vertex \X Vertex |->
                                 LET lo == r[1]
                                     hi == r[2]
                                     mid == lo + (hi - lo) \div 2
                                 IN  IF lo >= hi THEN lo
                                     ELSE IF Root(mid) <= cur THEN f[<<mid + 1, hi>>]
                                     ELSE f[<<lo, mid>>]]
           W == [r \in Vertex \X Vertex |-> IF r[1] >= r[2] THEN r[1] ELSE First(r[1], r[2])]
           Found == CHOOSE f : Searches(f)
<1>1. /\ \A p \in Vertex : Root(p) \in Nat /\ p \in Nat
      /\ cur \in Nat /\ N \in Nat /\ N > 0 /\ N - 1 \in Vertex /\ pos[t] \in Vertex /\ Root(pos[t]) = cur
  BY Sorted, RunFacts, VertexFacts DEF CurRoot
<1>2. ASSUME NEW lo \in Vertex, NEW hi \in Vertex, lo < hi
      PROVE  /\ First(lo, hi) \in lo .. hi
             /\ First(lo, hi) < hi => Root(First(lo, hi)) > cur
             /\ \A p \in lo .. hi - 1 : Root(p) > cur => First(lo, hi) <= p
  <2> DEFINE S == {hi} \cup {p \in lo .. hi - 1 : Root(p) > cur}
  <2>1. S \subseteq Nat /\ S # {}
    BY <1>1
  <2>2. \E m \in S : \A p \in S : m <= p
    BY <2>1, LeastNat
  <2>3. First(lo, hi) \in S /\ \A p \in S : First(lo, hi) <= p
    BY <2>2 DEF Min
  <2> QED BY <1>1, <1>2, <2>3
<1>3. ASSUME NEW lo \in Vertex, NEW hi \in Vertex, lo < hi
      PROVE  LET mid == lo + (hi - lo) \div 2
             IN  /\ mid \in Vertex /\ mid + 1 \in Vertex /\ lo <= mid /\ mid < hi
  BY <1>1, <1>3 DEF Vertex
<1> HIDE DEF First
<1>4. ASSUME NEW lo \in Vertex, NEW hi \in Vertex, lo < hi
      PROVE  LET mid == lo + (hi - lo) \div 2
             IN  W[<<lo, hi>>] = IF Root(mid) <= cur THEN W[<<mid + 1, hi>>] ELSE W[<<lo, mid>>]
  <2> DEFINE mid == lo + (hi - lo) \div 2
  <2>1. mid \in Vertex /\ mid + 1 \in Vertex /\ lo <= mid /\ mid < hi
    BY <1>3, <1>4
  <2> HIDE DEF mid
  <2>2. W[<<lo, hi>>] = First(lo, hi)
    BY <1>1, <1>4
  <2>3. W[<<lo, hi>>] = IF Root(mid) <= cur THEN W[<<mid + 1, hi>>] ELSE W[<<lo, mid>>]
    <3>1. CASE Root(mid) <= cur
      <4>1. \A p \in lo .. hi - 1 : Root(p) > cur => mid + 1 <= p
        <5>1. ASSUME NEW p \in lo .. hi - 1, Root(p) > cur, p <= mid PROVE FALSE
          <6>1. p \in Vertex
            BY <1>1 DEF Vertex
          <6>2. Root(p) <= Root(mid)
            BY <2>1, <5>1, <6>1, Sorted
          <6> QED BY <1>1, <2>1, <3>1, <5>1, <6>1, <6>2
        <5> QED BY <1>1, <2>1, <5>1
      <4>2. mid + 1 <= First(lo, hi)
        BY <1>1, <1>2, <1>4, <2>1, <4>1
      <4>3. CASE mid + 1 < hi
        <5>1. W[<<mid + 1, hi>>] = First(mid + 1, hi)
          BY <1>1, <2>1, <4>3
        <5>2. First(lo, hi) <= First(mid + 1, hi)
          BY <1>1, <1>2, <1>4, <2>1, <4>3
        <5>3. First(mid + 1, hi) <= First(lo, hi)
          BY <1>1, <1>2, <1>4, <2>1, <4>2, <4>3
        <5>4. First(lo, hi) \in Nat /\ First(mid + 1, hi) \in Nat
          BY <1>1, <1>2, <1>4, <2>1, <4>3
        <5> QED BY <2>2, <3>1, <5>1, <5>2, <5>3, <5>4
      <4>4. CASE mid + 1 = hi
        <5>1. W[<<mid + 1, hi>>] = hi
          BY <1>1, <2>1, <4>4
        <5>2. First(lo, hi) = hi
          BY <1>1, <1>2, <1>4, <2>1, <4>2, <4>4
        <5> QED BY <2>2, <3>1, <5>1, <5>2
      <4> QED BY <1>1, <2>1, <4>3, <4>4
    <3>2. CASE ~(Root(mid) <= cur)
      <4>1. First(lo, hi) <= mid /\ First(lo, hi) \in lo .. hi
        BY <1>1, <1>2, <1>4, <2>1, <3>2
      <4>2. CASE lo < mid
        <5>1. W[<<lo, mid>>] = First(lo, mid)
          BY <1>1, <2>1, <4>2
        <5>2. First(lo, mid) \in lo .. mid /\ (First(lo, mid) = mid => Root(First(lo, mid)) > cur)
          BY <1>1, <1>2, <2>1, <3>2, <4>2
        <5>3. First(lo, hi) <= First(lo, mid)
          BY <1>1, <1>2, <1>4, <2>1, <4>2, <5>2
        <5>4. First(lo, mid) <= First(lo, hi)
          BY <1>1, <1>2, <1>4, <2>1, <4>1, <4>2, <5>2
        <5> QED BY <1>1, <2>2, <3>2, <4>1, <5>1, <5>2, <5>3, <5>4
      <4>3. CASE lo = mid
        <5>1. W[<<lo, mid>>] = lo
          BY <1>1, <2>1, <4>3
        <5>2. First(lo, hi) = lo
          BY <1>1, <4>1, <4>3
        <5> QED BY <2>2, <3>2, <5>1, <5>2
      <4> QED BY <1>1, <2>1, <4>2, <4>3
    <3> QED BY <3>1, <3>2
  <2> QED BY <2>3 DEF mid
<1> HIDE DEF W
<1>5. Searches(W)
  <2> DEFINE V == [r \in Vertex \X Vertex |->
                                 LET lo == r[1]
                                     hi == r[2]
                                     mid == lo + (hi - lo) \div 2
                                 IN  IF lo >= hi THEN lo
                                     ELSE IF Root(mid) <= cur THEN W[<<mid + 1, hi>>]
                                     ELSE W[<<lo, mid>>]]
  <2>1. ASSUME NEW r \in Vertex \X Vertex PROVE W[r] = V[r]
    <3>1. r[1] \in Vertex /\ r[2] \in Vertex /\ r = <<r[1], r[2]>>
      OBVIOUS
    <3>2. CASE r[1] >= r[2]
      BY <3>1, <3>2 DEF W
    <3>3. CASE r[1] < r[2]
      <4>1. W[<<r[1], r[2]>>] = LET mid == r[1] + (r[2] - r[1]) \div 2
             IN IF Root(mid) <= cur THEN W[<<mid + 1, r[2]>>] ELSE W[<<r[1], mid>>]
        BY <1>4, <3>1, <3>3
      <4>2. ~(r[1] >= r[2])
        BY <1>1, <3>1, <3>3
      <4> QED BY <3>1, <4>1, <4>2
    <3> QED BY <1>1, <3>1, <3>2, <3>3
  <2>2. W = [r \in Vertex \X Vertex |-> W[r]]
    BY DEF W
  <2>3. W = V
    BY <2>1, <2>2
  <2> QED BY <2>3
<1>6. Searches(Found)
  BY <1>5, Zenon
<1>7. \A r \in Vertex \X Vertex :
        Found[r] = LET mid == r[1] + (r[2] - r[1]) \div 2
                   IN  IF r[1] >= r[2] THEN r[1]
                       ELSE IF Root(mid) <= cur THEN Found[<<mid + 1, r[2]>>]
                       ELSE Found[<<r[1], mid>>]
  <2> HIDE DEF Found
  <2> QED BY <1>6
<1> HIDE DEF Found
<1>8. ASSUME NEW lo \in Vertex, NEW hi \in Vertex
      PROVE  Found[<<lo, hi>>] = W[<<lo, hi>>]
  <2> DEFINE Wrong(i, j) == Found[<<i, j>>] # W[<<i, j>>]
             D == {d \in Nat : \E i, j \in Vertex : d = j - i /\ Wrong(i, j)}
  <2>1. \A i, j \in Vertex : Wrong(i, j) => i < j
    <3>1. ASSUME NEW i \in Vertex, NEW j \in Vertex, i >= j PROVE ~Wrong(i, j)
      <4>1. <<i, j>> \in Vertex \X Vertex
        OBVIOUS
      <4>2. Found[<<i, j>>] = i
        BY <1>7, <3>1, <4>1
      <4>3. W[<<i, j>>] = i
        BY <3>1, <4>1 DEF W
      <4> QED BY <4>2, <4>3
    <3> QED BY <1>1, <3>1
  <2>2. SUFFICES ASSUME Wrong(lo, hi) PROVE FALSE
    OBVIOUS
  <2>3. hi - lo \in D
    BY <1>1, <2>1, <2>2
  <2>4. PICK d \in D : \A e \in D : d <= e
    <3>1. D \subseteq Nat /\ D # {}
      BY <2>3
    <3> HIDE DEF D
    <3> QED BY <3>1, LeastNat
  <2>5. PICK i, j \in Vertex : d = j - i /\ Wrong(i, j)
    BY <2>4
  <2> DEFINE mid == i + (j - i) \div 2
  <2>6. i < j /\ mid \in Vertex /\ mid + 1 \in Vertex /\ i <= mid /\ mid < j
    BY <1>3, <2>1, <2>5
  <2>7. W[<<i, j>>] = IF Root(mid) <= cur THEN W[<<mid + 1, j>>] ELSE W[<<i, mid>>]
    BY <1>4, <2>6
  <2>8. Found[<<i, j>>] = IF Root(mid) <= cur THEN Found[<<mid + 1, j>>] ELSE Found[<<i, mid>>]
    <3>1. <<i, j>> \in Vertex \X Vertex /\ ~(i >= j)
      BY <1>1, <2>6
    <3> QED BY <1>7, <3>1
  <2> HIDE DEF mid
  <2>9. ASSUME NEW k \in Vertex, NEW l \in Vertex, l - k < d PROVE ~Wrong(k, l)
    <3>1. SUFFICES ASSUME Wrong(k, l) PROVE FALSE
      OBVIOUS
    <3>2. k < l
      BY <2>1, <3>1
    <3>3. l - k \in Nat
      BY <1>1, <3>2
    <3>4. l - k \in D
      BY <3>1, <3>3
    <3>5. d \in Nat
      OBVIOUS
    <3> QED BY <2>4, <2>9, <3>3, <3>4, <3>5
  <2>10. j - (mid + 1) < d /\ mid - i < d
    BY <1>1, <2>5, <2>6
  <2> HIDE DEF Wrong
  <2>11. ~Wrong(mid + 1, j) /\ ~Wrong(i, mid)
    BY <2>6, <2>9, <2>10
  <2> QED BY <2>5, <2>7, <2>8, <2>11 DEF Wrong
<1> DEFINE min == Found[<<Start(t), N - 1>>]
<1>9. Start(t) \in Vertex /\ Start(t) <= pos[t]
  <2>1. num_threads \in ThreadCounts
    BY DEF SortInv, SortType
  <2> QED BY <2>1, RunFacts, OwnerOrder
<1>10. /\ min \in Vertex
       /\ min = N - 1 \/ Root(min) > cur
       /\ \A p \in Vertex : Start(t) <= p /\ p < min => Root(p) <= cur
  <2>1. min = W[<<Start(t), N - 1>>]
    BY <1>1, <1>8, <1>9
  <2>2. CASE Start(t) >= N - 1
    <3>1. min = Start(t) /\ Start(t) = N - 1
      BY <1>1, <1>9, <2>1, <2>2 DEF W, Vertex
    <3> QED BY <1>1, <3>1
  <2>3. CASE Start(t) < N - 1
    <3>1. min = First(Start(t), N - 1)
      BY <1>1, <1>9, <2>1, <2>3 DEF W
    <3>2. min \in Start(t) .. N - 1
      BY <1>1, <1>2, <1>9, <2>3, <3>1
    <3>3. min < N - 1 => Root(min) > cur
      BY <1>1, <1>2, <1>9, <2>3, <3>1
    <3>4. \A p \in Start(t) .. N - 1 - 1 : Root(p) > cur => min <= p
      BY <1>1, <1>2, <1>9, <2>3, <3>1
    <3>5. min \in Vertex /\ min \in Nat
      BY <1>1, <1>9, <3>2 DEF Vertex
    <3> HIDE DEF min
    <3> QED BY <1>1, <1>9, <3>2, <3>3, <3>4, <3>5
  <2> QED BY <1>1, <1>9, <2>2, <2>3
<1>11. LastPosition(t) = IF Root(min) # CurRoot(t) THEN min - 1 ELSE min
  <2> HIDE DEF Found
  <2> QED BY Zenon DEF LastPosition, Found
<1> HIDE DEF min, Found
<1>12. min \in Nat /\ Root(min) \in Nat
  BY <1>1, <1>10
<1>13. CASE Root(min) # CurRoot(t)
  <2>1. Root(min) > cur
    <3>1. min = N - 1 => pos[t] <= min
      BY <1>1 DEF Vertex
    <3>2. min = N - 1 => Root(pos[t]) <= Root(min)
      BY <1>1, <1>10, <3>1, Sorted
    <3> QED BY <1>1, <1>10, <1>12, <1>13, <3>2
  <2>2. pos[t] < min
    <3>1. min <= pos[t] => Root(min) <= Root(pos[t])
      BY <1>1, <1>10, Sorted
    <3> QED BY <1>1, <1>12, <2>1, <3>1
  <2>3. min - 1 \in Vertex /\ pos[t] <= min - 1 /\ min - 1 < min /\ Start(t) <= min - 1
    BY <1>1, <1>9, <1>10, <1>12, <2>2, VertexFacts DEF Vertex
  <2>4. Root(min - 1) <= cur
    BY <1>10, <2>3
  <2>5. Root(pos[t]) <= Root(min - 1)
    BY <1>1, <2>3, Sorted
  <2>6. Root(min - 1) = cur
    BY <1>1, <2>3, <2>4, <2>5
  <2>7. ASSUME NEW p \in Vertex, min - 1 < p PROVE cur < Root(p)
    <3>1. min <= p
      BY <1>1, <1>12, <2>7
    <3>2. Root(min) <= Root(p)
      BY <1>10, <3>1, Sorted
    <3> QED BY <1>1, <1>12, <2>1, <3>2
  <2> QED BY <1>11, <1>13, <2>3, <2>6, <2>7
<1>14. CASE Root(min) = CurRoot(t)
  <2>1. min = N - 1
    BY <1>1, <1>10, <1>14
  <2>2. \A p \in Vertex : ~(min < p)
    BY <1>1, <2>1 DEF Vertex
  <2> QED BY <1>10, <1>11, <1>14, <2>2
<1> QED BY <1>13, <1>14

\* find_last_partition_of_root names the last holder, whose global is used if
\* there are several.
LEMMA LastShare ==
  ASSUME SharesRight, IndexRight, SortInv, phase = "round", NEW t \in Team, RunInv(t)
  PROVE  /\ FindLastPartition(t) \in Holders(CurRoot(t))
         /\ \A o \in Holders(CurRoot(t)) : o <= FindLastPartition(t)
         /\ from_left[t] \/ (RunEnd(t) = End(t) /\ ExitsRight(t)) =>
              /\ Active(FindLastPartition(t)) /\ FindLastPartition(t) \in Team
              /\ Root(Start(FindLastPartition(t))) = CurRoot(t)
<1> DEFINE g == FindLastPartition(t)
           last == LastPosition(t)
           root == CurRoot(t)
<1>1. num_threads \in ThreadCounts
  BY DEF SortInv, SortType
<1>2. last \in Vertex /\ Root(last) = root /\ \A p \in Vertex : last < p => root < Root(p)
  BY SearchRight
<1>3. Owner(last) \in Team /\ Start(Owner(last)) <= last /\ last < End(Owner(last)) /\ root \in Vertex
  BY <1>1, <1>2, OwnerOrder, RunFacts
<1>4. g = Owner(last)
  <2>1. /\ Owner(last) \in 0 .. num_threads - 1 /\ Owner(last) \in 0 .. num_threads
        /\ Owner(last) + 1 \in 0 .. num_threads
    BY <1>1, <1>3, TeamFacts DEF Team
  <2>2. /\ Start(Owner(last)) = Bound(N, Owner(last), num_threads)
        /\ End(Owner(last)) = Bound(N, Owner(last) + 1, num_threads)
    BY <1>1, <2>1 DEF Start, End, IthPartitions
  <2>3. GetPartitionIdx(N, last, num_threads) = Owner(last)
    BY <1>1, <1>2, <1>3, <2>1, <2>2 DEF IndexRight
  <2> QED BY <1>1, <1>2, <2>3 DEF FindLastPartition, PartitionIdxs
<1>5. g \in Holders(root)
  BY <1>2, <1>3, <1>4, HolderFacts
<1>6. ASSUME NEW o \in Holders(root) PROVE o <= g
  <2>1. PICK p \in Vertex : Root(p) = root /\ Owner(p) = o
    BY <1>3, HolderFacts
  <2>2. p <= last
    <3>1. p \in Nat /\ last \in Nat /\ root \in Nat
      BY <1>2, <1>3, VertexFacts
    <3>2. last < p => root < root
      BY <1>2, <2>1
    <3> HIDE DEF last, root
    <3> QED BY <3>1, <3>2
  <2> QED BY <1>1, <1>2, <1>4, <2>1, <2>2, OwnerOrder
<1>7. ASSUME from_left[t] \/ (RunEnd(t) = End(t) /\ ExitsRight(t))
      PROVE  Active(g) /\ Root(Start(g)) = root
  <2>0. \A o \in Team : o \in Nat
    BY <1>1, TeamFacts
  <2>1. t \in Holders(root) /\ Holders(root) \subseteq Team
    BY <1>3, RunFacts, HolderFacts
  <2>2. CASE from_left[t]
    <3>1. Left(t) /\ Root(Start(t)) = root
      BY <2>2 DEF RunInv, CurRoot
    <3>2. t - 1 \in Holders(root)
      BY <1>3, <3>1, HolderFacts
    <3>3. t - 1 < g
      BY <1>6, <2>0, <2>1, <3>2, <1>5
    <3> QED BY <1>3, <1>5, <1>6, <3>2, <3>3, ActiveFacts
  <2>3. CASE RunEnd(t) = End(t) /\ ExitsRight(t)
    <3>1. t + 1 \in Holders(root)
      BY <1>3, <2>3, RunFacts, HolderFacts
    <3>2. t < g
      BY <1>5, <1>6, <2>0, <2>1, <3>1
    <3> QED BY <1>3, <1>5, <1>6, <2>1, <3>2, ActiveFacts
  <2> QED BY <1>7, <2>2, <2>3
<1>8. g \in Team
  BY <1>3, <1>4
<1> QED BY <1>5, <1>6, <1>7, <1>8

-----------------------------------------------------------------------------
(* Sums *)

\* The vertices with a root are those of its positions.
LEMMA MembersFacts ==
  ASSUME SharesRight, SortInv, phase = "round"
  PROVE  /\ \A root \in Vertex : Members(root) =
              {merge_instr[p].child : p \in {q \in Vertex : Root(q) = root}}
         /\ \A root \in Vertex : Holders(root) # {} <=> Members(root) # {}
         /\ \A x, y \in Vertex : Members(x) = Members(y) /\ Members(x) # {} => x = y
         /\ \A v \in Vertex : {x \in Vertex : lab[x] = lab[v]} = Members(lab[v]) /\ lab[v] \in Vertex
<1>1. /\ \A p \in Vertex : merge_instr[p].child \in Vertex /\ Root(p) = lab[merge_instr[p].child]
      /\ \A v \in Vertex : \E p \in Vertex : merge_instr[p].child = v
      /\ \A v \in Vertex : lab[v] \in Vertex
      /\ num_threads \in ThreadCounts
  BY DEF SortInv, SortType, InstructionsRight, Permutation, MergeInstr, Root
<1>2. ASSUME NEW root \in Vertex
      PROVE  Members(root) = {merge_instr[p].child : p \in {q \in Vertex : Root(q) = root}}
  BY <1>1 DEF Members
<1>3. ASSUME NEW root \in Vertex PROVE Holders(root) # {} <=> Members(root) # {}
  <2>1. Holders(root) # {} <=> \E p \in Vertex : Root(p) = root
    <3>1. \A p \in Vertex : Root(p) = root => Owner(p) \in Holders(root)
      BY <1>1, HolderFacts, OwnerOrder
    <3>2. \A t \in Holders(root) : \E p \in Vertex : Root(p) = root
      BY HolderFacts
    <3> QED BY <3>1, <3>2
  <2>2. (\E p \in Vertex : Root(p) = root) <=> Members(root) # {}
    BY <1>1 DEF Members
  <2> QED BY <2>1, <2>2
<1>4. \A x, y \in Vertex : Members(x) = Members(y) /\ Members(x) # {} => x = y
  BY DEF Members
<1>5. \A v \in Vertex : {x \in Vertex : lab[x] = lab[v]} = Members(lab[v]) /\ lab[v] \in Vertex
  BY <1>1 DEF Members
<1> QED BY <1>2, <1>3, <1>4, <1>5

\* What a thread merges: its part of the supernode.
LEMMA LocalSumFacts ==
  ASSUME SharesRight, SortInv, phase = "round", NEW t \in Team, RunInv(t)
  PROVE  LocalSum(t) = IF cur_round < NumSamples
                       THEN {merge_instr[p].child : p \in {q \in Vertex : /\ Root(q) = CurRoot(t)
                                                                          /\ Owner(q) = t}}
                       ELSE {}
<1>1. \A p \in pos[t] .. RunEnd(t) - 1 : p \in Vertex
  <2>1. pos[t] \in Nat /\ RunEnd(t) \in Nat /\ RunEnd(t) <= N /\ N \in Nat
    <3>1. num_threads \in ThreadCounts
      BY DEF SortInv, SortType
    <3>2. pos[t] \in Nat /\ RunEnd(t) \in Nat /\ RunEnd(t) <= End(t)
      BY RunFacts, VertexFacts
    <3>3. End(t) \in Nat /\ End(t) <= N /\ N \in Nat
      BY <3>1, ShareFacts, VertexFacts
    <3> QED BY <3>2, <3>3
  <2> QED BY <2>1 DEF Vertex
<1>2. pos[t] .. RunEnd(t) - 1 = {q \in Vertex : Root(q) = CurRoot(t) /\ Owner(q) = t}
  BY <1>1, RunFacts
<1> QED BY <1>2 DEF LocalSum, RangeMerge, Xor

LEMMA GlobalTyped ==
  ASSUME SharesRight, SortInv, phase = "round", NEW root \in Vertex
  PROVE  /\ Global(root) \in GlobalMergeData
         /\ IsFiniteSet(Holders(root)) /\ Cardinality(Holders(root)) \in Nat
         /\ AllPassed(root) <=> Global(root).done >= Cardinality(Holders(root))
         /\ Global(root).done <= Cardinality(Holders(root))
         /\ AllPassed(root) /\ cur_round < NumSamples => Global(root).sum = Members(root)
<1>1. num_threads \in ThreadCounts /\ \A p \in Vertex : merge_instr[p].child \in Vertex
  BY DEF SortInv, SortType, MergeInstr
<1>2. IsFiniteSet(Holders(root))
  <2>1. IsFiniteSet(0 .. num_threads - 1)
    BY <1>1, TeamFacts, FS_Interval
  <2>2. Holders(root) \subseteq 0 .. num_threads - 1
    BY DEF Holders, Team
  <2> QED BY <2>1, <2>2, FS_Subset
<1> DEFINE P == {t \in Holders(root) : Passed(t, root)}
<1>3. /\ IsFiniteSet(P) /\ Cardinality(P) <= Cardinality(Holders(root))
      /\ (Cardinality(P) = Cardinality(Holders(root)) => P = Holders(root))
  BY <1>2, FS_Subset
<1>4. Cardinality(P) \in Nat /\ Cardinality(Holders(root)) \in Nat
  BY <1>2, <1>3, FS_CardinalityType
<1>5. AllPassed(root) <=> P = Holders(root)
  BY DEF AllPassed
<1>6. Global(root).done = Cardinality(P)
  BY DEF Global
<1> HIDE DEF P
<1>7. AllPassed(root) <=> Cardinality(P) >= Cardinality(Holders(root))
  BY <1>3, <1>4, <1>5
<1>8. ASSUME AllPassed(root), cur_round < NumSamples PROVE Global(root).sum = Members(root)
  <2>1. \A q \in Vertex : Root(q) = root => Passed(Owner(q), root)
    <3>1. \A q \in Vertex : Root(q) = root => Owner(q) \in Holders(root)
      BY <1>1, OwnerOrder, HolderFacts
    <3> QED BY <1>8, <3>1 DEF AllPassed
  <2>2. {q \in Vertex : Root(q) = root /\ Passed(Owner(q), root)} = {q \in Vertex : Root(q) = root}
    BY <2>1
  <2> QED BY <1>8, <2>2, MembersFacts DEF Global
<1>9. Global(root) \in GlobalMergeData
  BY <1>1, <1>4, <1>6 DEF Global, GlobalMergeData
<1> QED BY <1>2, <1>3, <1>4, <1>6, <1>7, <1>8, <1>9

-----------------------------------------------------------------------------
(* Steps of a round *)

LEMMA SameOrder ==
  ASSUME UNCHANGED <<num_threads, lab, merge_instr>>
  PROVE  /\ Team' = Team
         /\ \A t : Start(t)' = Start(t) /\ End(t)' = End(t) /\ Share(t)' = Share(t)
         /\ \A p : Owner(p)' = Owner(p) /\ Root(p)' = Root(p)
         /\ \A t : Root(Start(t))' = Root(Start(t)) /\ Root(End(t) - 1)' = Root(End(t) - 1)
         /\ \A t : Left(t)' = Left(t) /\ ExitsRight(t)' = ExitsRight(t) /\ Active(t)' = Active(t)
         /\ \A root : Holders(root)' = Holders(root) /\ Members(root)' = Members(root)
<1>1. /\ Team' = Team
      /\ \A t : Start(t)' = Start(t) /\ End(t)' = End(t) /\ Share(t)' = Share(t)
      /\ \A p : Owner(p)' = Owner(p)
  BY SameSort
<1>2. /\ \A p : Root(p)' = Root(p)
      /\ \A t : Root(Start(t))' = Root(Start(t)) /\ Root(End(t) - 1)' = Root(End(t) - 1)
  BY <1>1 DEF Root
<1>3. \A t : Left(t)' = Left(t) /\ ExitsRight(t)' = ExitsRight(t)
  BY <1>1 DEF Left, ExitsRight, Root
<1>4. \A t : Active(t)' = Active(t)
  BY <1>1, <1>2, <1>3 DEF Active
<1>5. \A root : Holders(root)' = Holders(root) /\ Members(root)' = Members(root)
  BY <1>1, <1>2 DEF Holders, Members
<1> QED BY <1>1, <1>2, <1>3, <1>4, <1>5

\* The state of a round that a thread step changes.
InRound == SharesRight /\ IndexRight /\ SortInv /\ RoundInv /\ phase = "round"

\* A step of thread t that leaves all supernodes but one alone.
Moves(t, root) ==
  /\ UNCHANGED <<num_threads, cur_round, lab, merge_instr, thrown>> /\ phase' = phase
  /\ \A o \in Team \ {t} : pos'[o] = pos[o] /\ pc'[o] = pc[o]
  /\ \A x \in Vertex \ {root} : t \in Holders(x) =>
       /\ Passed(t, x)' <=> Passed(t, x)
       /\ Announced(t, x)' <=> Announced(t, x)
       /\ Querying(t, x)' <=> Querying(t, x)

LEMMA OthersStay ==
  ASSUME NEW t \in Team, NEW root \in Vertex, Moves(t, root)
  PROVE  \A x \in Vertex : \A o \in Holders(x) : x # root \/ o # t =>
           /\ Passed(o, x)' <=> Passed(o, x)
           /\ Announced(o, x)' <=> Announced(o, x)
           /\ Querying(o, x)' <=> Querying(o, x)
<1>1. UNCHANGED <<num_threads, lab, merge_instr>>
  BY DEF Moves
<1>2. ASSUME NEW o \in Team \ {t}, NEW x
      PROVE  /\ Passed(o, x)' <=> Passed(o, x)
             /\ Announced(o, x)' <=> Announced(o, x)
             /\ Querying(o, x)' <=> Querying(o, x)
  <2>1. pos'[o] = pos[o] /\ pc'[o] = pc[o] /\ Root(pos[o])' = Root(pos[o])
    BY <1>1 DEF Moves, Root
  <2>2. Passed(o, x)' <=> Passed(o, x)
    BY <2>1 DEF Passed
  <2>3. Announced(o, x)' <=> Announced(o, x)
    BY <1>1, <2>1, <2>2, SameOrder DEF Announced
  <2>4. Querying(o, x)' <=> Querying(o, x)
    BY <1>1, <2>1, SameOrder DEF Querying
  <2> QED BY <2>2, <2>3, <2>4
<1>3. \A x : Holders(x) \subseteq Team
  BY DEF Holders
<1> QED BY <1>2, <1>3 DEF Moves

LEMMA GlobalSame ==
  ASSUME InRound, UNCHANGED <<num_threads, cur_round, lab, merge_instr>>, NEW x \in Vertex,
         \A o \in Holders(x) : /\ Passed(o, x)' <=> Passed(o, x)
                               /\ Announced(o, x)' <=> Announced(o, x)
  PROVE  Global(x)' = Global(x)
<1>1. Holders(x)' = Holders(x)
  BY SameOrder
<1>2. {o \in Holders(x) : Passed(o, x)}' = {o \in Holders(x) : Passed(o, x)}
  BY <1>1
<1>3. (\E o \in Holders(x) : Announced(o, x))' <=> \E o \in Holders(x) : Announced(o, x)
  BY <1>1
<1>4. {q \in Vertex : Root(q) = x /\ Passed(Owner(q), x)}'
        = {q \in Vertex : Root(q) = x /\ Passed(Owner(q), x)}
  <2>1. ASSUME NEW q \in Vertex PROVE Root(q) = x => Owner(q) \in Holders(x)
    <3>1. num_threads \in ThreadCounts
      BY DEF InRound, SortInv, SortType
    <3> QED BY <3>1, OwnerOrder, HolderFacts DEF InRound
  <2>2. ASSUME NEW q \in Vertex, Root(q) = x
        PROVE  Passed(Owner(q), x)' <=> Passed(Owner(q), x)
    <3>1. Owner(q)' = Owner(q) /\ Owner(q) \in Holders(x)
      BY <2>1, <2>2, SameOrder
    <3> QED BY <3>1 DEF Passed
  <2>3. \A q : Root(q)' = Root(q)
    BY SameOrder
  <2> QED BY <2>2, <2>3
<1> QED BY <1>1, <1>2, <1>3, <1>4 DEF Global

LEMMA OtherRoots ==
  ASSUME NEW t \in Team, NEW root \in Vertex, Moves(t, root), NEW x \in Vertex, x # root, InRound
  PROVE  /\ Global(x)' = Global(x)
         /\ x \in Complete' <=> x \in Complete
         /\ AllPassed(x)' <=> AllPassed(x)
         /\ (\A o \in Holders(x) : Querying(o, x) =>
               AllPassed(x) /\ \A i \in Holders(x) : Querying(i, x) => i = o)'
<1>1. UNCHANGED <<num_threads, lab, merge_instr>> /\ cur_round' = cur_round
  BY DEF Moves
<1>2. \A o \in Holders(x) : /\ Passed(o, x)' <=> Passed(o, x)
                            /\ Announced(o, x)' <=> Announced(o, x)
                            /\ Querying(o, x)' <=> Querying(o, x)
  BY OthersStay
<1>3. Holders(x)' = Holders(x)
  BY <1>1, SameOrder
<1>4. AllPassed(x)' <=> AllPassed(x)
  BY <1>2, <1>3 DEF AllPassed
<1>5. x \in Complete' <=> x \in Complete
  BY <1>2, <1>3, <1>4 DEF Complete
<1>6. (\A o \in Holders(x) : Querying(o, x) =>
         AllPassed(x) /\ \A i \in Holders(x) : Querying(i, x) => i = o)'
  <2>1. QueryInv
    BY DEF InRound, RoundInv
  <2> QED BY <1>2, <1>3, <1>4, <2>1 DEF QueryInv
<1>7. Global(x)' = Global(x)
  BY <1>1, <1>2, GlobalSame
<1> QED BY <1>4, <1>5, <1>6, <1>7

\* A thread merges or samples its part of a supernode and goes on.
LEMMA PassFacts ==
  ASSUME InRound, NEW t \in Team, NEW root \in Vertex, root = CurRoot(t),
         UNCHANGED <<num_threads, cur_round, lab, merge_instr, thrown, phase>>,
         \A o \in Team \ {t} : pos'[o] = pos[o] /\ pc'[o] = pc[o],
         \/ /\ pc[t] = "run" /\ RunEnd(t) < End(t) /\ pos'[t] = RunEnd(t)
            /\ pc'[t] = "run" \/ (pc'[t] = "query_own" /\ from_left[t])
         \/ /\ pc[t] \in {"run", "merge"} /\ RunEnd(t) = End(t) /\ pos'[t] = pos[t]
            /\ pc'[t] \in {"query", "done"}
  PROVE  /\ Moves(t, root)
         /\ ~Passed(t, root) /\ Passed(t, root)'
         /\ ~Querying(t, root)
         /\ Querying(t, root)' <=> pc'[t] \in {"query", "query_own"}
<1>1. SharesRight /\ SortInv /\ phase = "round" /\ RunInv(t) /\ num_threads \in ThreadCounts
  BY DEF InRound, RoundInv, SortInv, SortType
<1>2. UNCHANGED <<num_threads, lab, merge_instr>>
  OBVIOUS
<1>3. root = Root(pos[t]) /\ root \in Nat /\ pos[t] \in Vertex
  BY <1>1, RunFacts, VertexFacts DEF CurRoot
<1>4. \A p \in Vertex : Root(p) \in Nat /\ p \in Nat
  BY <1>1, Sorted, VertexFacts
<1>5. Root(pos[t])' = Root(pos'[t]) /\ Root(Start(t))' = Root(Start(t))
  BY <1>2, SameOrder DEF Root
<1>6. from_left[t] => Root(Start(t)) = root
  BY <1>1, <1>3 DEF RunInv
<1>7. CASE pc[t] = "run" /\ RunEnd(t) < End(t) /\ pos'[t] = RunEnd(t)
            /\ (pc'[t] = "run" \/ (pc'[t] = "query_own" /\ from_left[t]))
  <2>1. Root(pos[t])' = Root(RunEnd(t)) /\ RunEnd(t) \in Vertex /\ root < Root(RunEnd(t))
    BY <1>1, <1>5, <1>7, RunFacts
  <2>2. Root(RunEnd(t)) \in Nat /\ RunEnd(t) \in Nat
    BY <1>4, <2>1
  <2>3. \A x : Passed(t, x) <=> root > x
    BY <1>3, <1>7 DEF Passed
  <2>4. \A x : Passed(t, x)' <=> Root(RunEnd(t)) > x
    BY <1>7, <2>1 DEF Passed
  <2>5. ASSUME NEW x \in Vertex \ {root}, t \in Holders(x)
        PROVE  /\ Passed(t, x)' <=> Passed(t, x)
               /\ Announced(t, x)' <=> Announced(t, x)
               /\ Querying(t, x)' <=> Querying(t, x)
    <3>1. x \in Nat
      BY <1>4
    <3>2. ASSUME Root(RunEnd(t)) > x PROVE root > x
      <4>1. PICK q \in Vertex : Root(q) = x /\ Owner(q) = t
        BY <1>1, <2>5, HolderFacts
      <4>2. q < RunEnd(t)
        <5>1. RunEnd(t) <= q => Root(RunEnd(t)) <= Root(q)
          BY <1>1, <2>1, <4>1, Sorted
        <5> QED BY <1>4, <2>2, <3>1, <3>2, <4>1, <5>1
      <4>3. q \notin pos[t] .. RunEnd(t) - 1
        BY <1>1, <4>1, RunFacts
      <4>4. q < pos[t] /\ q <= pos[t]
        <5>1. q \in Nat /\ pos[t] \in Nat
          BY <1>3, <1>4
        <5> QED BY <2>2, <4>2, <4>3, <5>1
      <4>5. Root(q) <= Root(pos[t])
        BY <1>1, <1>3, <4>4, Sorted
      <4> QED BY <1>3, <1>4, <3>1, <4>1, <4>5
    <3>3. Passed(t, x)' <=> Passed(t, x)
      BY <1>3, <2>1, <2>2, <2>3, <2>4, <3>1, <3>2
    <3>4. Announced(t, x)' <=> Announced(t, x)
      BY <1>2, <1>3, <1>5, <1>7, <3>3, SameOrder DEF Announced
    <3>5. Querying(t, x)' <=> Querying(t, x)
      BY <1>5, <1>6, <1>7 DEF Querying
    <3> QED BY <3>3, <3>4, <3>5
  <2>6. Moves(t, root)
    BY <2>5 DEF Moves
  <2>7. ~Passed(t, root) /\ Passed(t, root)'
    BY <1>3, <2>1, <2>3, <2>4
  <2>8. ~Querying(t, root) /\ (Querying(t, root)' <=> pc'[t] \in {"query", "query_own"})
    BY <1>2, <1>3, <1>5, <1>6, <1>7 DEF Querying
  <2> QED BY <2>6, <2>7, <2>8
<1>8. CASE pc[t] \in {"run", "merge"} /\ RunEnd(t) = End(t) /\ pos'[t] = pos[t]
            /\ pc'[t] \in {"query", "done"}
  <2>1. Root(pos[t])' = root
    BY <1>3, <1>5, <1>8
  <2>2. \A x : Passed(t, x) <=> root > x
    BY <1>3, <1>8 DEF Passed
  <2>3. \A x : Passed(t, x)' <=> root > x \/ root = x
    BY <1>8, <2>1 DEF Passed
  <2>4. ASSUME NEW x \in Vertex \ {root}
        PROVE  /\ Passed(t, x)' <=> Passed(t, x)
               /\ Announced(t, x)' <=> Announced(t, x)
               /\ Querying(t, x)' <=> Querying(t, x)
    <3>1. Passed(t, x)' <=> Passed(t, x)
      BY <2>2, <2>3
    <3>2. Announced(t, x)' <=> Announced(t, x)
      BY <1>2, <1>3, <1>5, <1>8, <3>1, SameOrder DEF Announced
    <3>3. Querying(t, x)' <=> Querying(t, x)
      BY <1>3, <1>8, <2>1 DEF Querying
    <3> QED BY <3>1, <3>2, <3>3
  <2>5. Moves(t, root)
    BY <2>4 DEF Moves
  <2>6. ~Passed(t, root)
    BY <1>3, <2>2
  <2>7. Passed(t, root)' /\ (Querying(t, root)' <=> pc'[t] \in {"query", "query_own"})
    BY <1>8, <2>1, <2>3 DEF Querying
  <2>8. ~Querying(t, root)
    BY <1>8 DEF Querying
  <2> QED BY <2>5, <2>6, <2>7, <2>8
<1> QED BY <1>7, <1>8

RoundsStep == [Rounds!RNext]_(Rounds!rvars)

LEMMA TodoFacts ==
  ASSUME SharesRight, SortInv, RoundInv, phase = "round"
  PROVE  {{x \in Vertex : lab[x] = lab[v]} : v \in Vertex}
           = {Members(root) : root \in {r \in Vertex : Holders(r) # {}}}
<1>1. \A v \in Vertex : {x \in Vertex : lab[x] = lab[v]} = Members(lab[v]) /\ lab[v] \in Vertex
                        /\ Members(lab[v]) # {}
  BY MembersFacts DEF Members
<1>2. \A root \in Vertex : Holders(root) # {} <=> \E v \in Vertex : lab[v] = root
  BY MembersFacts DEF Members
<1> QED BY <1>1, <1>2

LEMMA SampledFinite ==
  ASSUME NEW C \in SUBSET Vertex
  PROVE  /\ IsFiniteSet({Members(x) : x \in C})
         /\ Cardinality({Members(x) : x \in C}) \in 0 .. N
<1> DEFINE S == {Members(x) : x \in C}
           f == [x \in C |-> Members(x)]
<1>1. IsFiniteSet(C) /\ Cardinality(C) \in Nat /\ Cardinality(C) <= N /\ N \in Nat
  BY Counting, VertexFacts
<1>2. f \in Surjection(C, S)
  BY DEF Surjection
<1> HIDE DEF f, S
<1>3. IsFiniteSet(S) /\ Cardinality(S) <= Cardinality(C)
  BY <1>1, <1>2, FS_Surjection
<1>4. Cardinality(S) \in Nat
  BY <1>3, FS_CardinalityType
<1> QED BY <1>1, <1>3, <1>4 DEF S

\* The sample of a supernode that is complete now.
LEMMA SampleKept ==
  ASSUME InRound, NEW t \in Team, NEW root \in Vertex, Moves(t, root), NEW sum,
         Holders(root) # {}, root \notin Complete, root \in Complete',
         cur_round < NumSamples => sum = Members(root), SampleSupernode(t, sum)
  PROVE  /\ SampleInv' /\ RoundsStep
         /\ local_except' \in [Tid -> BOOLEAN]
<1>1. /\ SharesRight /\ SortInv /\ RoundInv /\ phase = "round" /\ phase' = "round" /\ SampleInv
      /\ UNCHANGED <<num_threads, cur_round, lab, merge_instr, thrown>>
      /\ local_except \in [Tid -> BOOLEAN] /\ cur_round > 0 /\ cur_round \in Nat /\ NumSamples \in Nat
      /\ t \in Tid /\ num_threads \in ThreadCounts
  BY LabelAssumption, TeamFacts DEF InRound, Moves, RoundInv, RoundType, SortInv, SortType
<1>2. Complete' = Complete \cup {root} /\ Complete \subseteq Vertex
  <2>1. \A x \in Vertex : x # root => (x \in Complete' <=> x \in Complete)
    BY OtherRoots
  <2>2. Complete \subseteq Vertex /\ Complete' \subseteq Vertex
    BY DEF Complete
  <2> QED BY <2>1, <2>2
<1>3. \A x : Members(x)' = Members(x)
  BY <1>1, SameOrder
<1> DEFINE Sup == {{x \in Vertex : lab[x] = lab[v]} : v \in Vertex}
<1>4. Sup' = Sup
  BY <1>1
<1>5. /\ (IF phase = "between" \/ cur_round = 0 THEN {} ELSE Sup \ sampled) = Sup \ sampled
      /\ (IF phase = "between" \/ cur_round = 0 THEN {} ELSE Sup \ sampled)' = Sup \ sampled'
  BY <1>1, <1>4
<1>6. CASE cur_round < NumSamples
  <2>1. sampled' = sampled \cup {Members(root)} /\ taken' = taken + 1 /\ UNCHANGED local_except
    BY <1>6 DEF SampleSupernode
  <2>2. sampled = {Members(x) : x \in Complete} /\ taken = Cardinality(sampled)
        /\ \A o \in Tid : ~local_except[o]
    BY <1>1, <1>6 DEF SampleInv
  <2>3. Members(root) \notin sampled
    BY <1>1, <1>2, <2>2, MembersFacts
  <2>4. IsFiniteSet(sampled)
    BY <1>2, <2>2, SampledFinite
  <2>5. taken' = Cardinality(sampled')
    BY <2>1, <2>2, <2>3, <2>4, FS_AddElement
  <2>6. sampled' = {Members(x) : x \in Complete'}
    BY <1>2, <2>1, <2>2
  <2>7. SampleInv'
    BY <1>1, <1>3, <1>6, <2>1, <2>2, <2>5, <2>6 DEF SampleInv
  <2>8. Members(root) \in Sup
    BY <1>1, TodoFacts
  <2>9. RoundsStep
    <3>1. Members(root) \in Sup \ sampled /\ Sup \ sampled' = (Sup \ sampled) \ {Members(root)}
      BY <2>1, <2>3, <2>8
    <3> HIDE DEF Sup
    <3>2. Rounds!SampleOne
      BY <1>1, <1>5, <1>6, <2>1, <3>1 DEF Rounds!SampleOne, Sup
    <3> QED BY <3>2 DEF RoundsStep, Rounds!RNext
  <2> QED BY <1>1, <2>1, <2>7, <2>9
<1>7. CASE ~(cur_round < NumSamples)
  <2>1. local_except' = [local_except EXCEPT ![t] = TRUE] /\ UNCHANGED <<sampled, taken>>
    BY <1>7 DEF SampleSupernode
  <2>2. sampled = {} /\ taken = 0
    BY <1>1, <1>7 DEF SampleInv
  <2>3. Except'
    <3>1. local_except'[t] /\ Team' = Team
      BY <1>1, <2>1, SameOrder
    <3> QED BY <3>1 DEF Except
  <2>4. SampleInv'
    BY <1>1, <1>7, <2>1, <2>2, <2>3 DEF SampleInv
  <2>5. UNCHANGED Rounds!rvars
    BY <1>1, <1>5, <2>1 DEF Rounds!rvars
  <2> QED BY <1>1, <2>1, <2>4, <2>5 DEF RoundsStep
<1> QED BY <1>6, <1>7

\* A step that samples nothing.
LEMMA NoSample ==
  ASSUME InRound, NEW t \in Team, NEW root \in Vertex, Moves(t, root),
         root \notin Complete, root \notin Complete', UNCHANGED sample_vars
  PROVE  SampleInv' /\ RoundsStep
<1>1. /\ phase = "round" /\ phase' = "round" /\ SampleInv
      /\ UNCHANGED <<num_threads, cur_round, lab, merge_instr, thrown>>
      /\ UNCHANGED <<local_except, sampled, taken>>
  BY DEF InRound, Moves, RoundInv, sample_vars
<1>2. Complete' = Complete
  <2>1. \A x \in Vertex : x # root => (x \in Complete' <=> x \in Complete)
    BY OtherRoots
  <2>2. Complete \subseteq Vertex /\ Complete' \subseteq Vertex
    BY DEF Complete
  <2> QED BY <2>1, <2>2
<1>3. \A x : Members(x)' = Members(x)
  BY <1>1, SameOrder
<1>4. Except' <=> Except
  BY <1>1, SameOrder DEF Except
<1>5. SampleInv'
  BY <1>1, <1>2, <1>3, <1>4 DEF SampleInv
<1>6. UNCHANGED Rounds!rvars
  BY <1>1 DEF Rounds!rvars
<1> QED BY <1>5, <1>6 DEF RoundsStep

\* A supernode of one share is sampled by its thread.
LEMMA AloneKept ==
  ASSUME InRound, NEW t \in Team, NEW root \in Vertex, Moves(t, root), Holders(root) = {t},
         ~Passed(t, root), Passed(t, root)', ~Querying(t, root)', UNCHANGED global
  PROVE  GlobalInv' /\ QueryInv' /\ root \notin Complete /\ root \in Complete'
<1>1. /\ SharesRight /\ SortInv /\ phase = "round" /\ GlobalInv
      /\ UNCHANGED <<num_threads, cur_round, lab, merge_instr>>
      /\ num_threads \in ThreadCounts
  BY DEF InRound, RoundInv, Moves, SortInv, SortType
<1>2. Holders(root)' = {t}
  BY <1>1, SameOrder
<1>3. root \notin Complete /\ root \in Complete' /\ AllPassed(root)'
  BY <1>2 DEF Complete, AllPassed
<1>4. QueryInv'
  <2>1. ASSUME NEW x \in Vertex
        PROVE  (\A o \in Holders(x) : Querying(o, x) =>
                  AllPassed(x) /\ \A i \in Holders(x) : Querying(i, x) => i = o)'
    <3>1. CASE x = root
      BY <1>2, <3>1
    <3> QED BY <3>1, OtherRoots
  <2> QED BY <2>1 DEF QueryInv
<1>5. GlobalInv'
  <2>1. ASSUME NEW g \in Team, Active(g) PROVE Root(Start(g)) # root
    <3>1. SUFFICES ASSUME Root(Start(g)) = root PROVE FALSE
      OBVIOUS
    <3>2. g \in Holders(root) /\ g - 1 \in Holders(root) /\ g \in Nat
      BY <1>1, <2>1, <3>1, ActiveFacts, TeamFacts
    <3> QED BY <3>2
  <2>2. \A x \in Vertex : x # root => Global(x)' = Global(x)
    BY OtherRoots
  <2> QED BY <1>1, <2>1, <2>2, SameOrder DEF GlobalInv
<1> QED BY <1>3, <1>4, <1>5

\* A supernode of several shares is sampled by one thread.
LEMMA QueryKept ==
  ASSUME InRound, NEW t \in Team, NEW root \in Vertex, Moves(t, root), t \in Holders(root),
         Querying(t, root), ~Querying(t, root)', Passed(t, root)' <=> Passed(t, root),
         Announced(t, root)' <=> Announced(t, root), UNCHANGED global
  PROVE  GlobalInv' /\ QueryInv' /\ root \notin Complete /\ root \in Complete' /\ AllPassed(root)
<1>1. /\ SharesRight /\ SortInv /\ phase = "round" /\ GlobalInv /\ QueryInv
      /\ UNCHANGED <<num_threads, cur_round, lab, merge_instr>>
  BY DEF InRound, RoundInv, Moves
<1>2. Holders(root)' = Holders(root)
  BY <1>1, SameOrder
<1>3. \A o \in Holders(root) : /\ Passed(o, root)' <=> Passed(o, root)
                               /\ Announced(o, root)' <=> Announced(o, root)
                               /\ o # t => (Querying(o, root)' <=> Querying(o, root))
  BY OthersStay
<1>4. AllPassed(root) /\ \A o \in Holders(root) : Querying(o, root) => o = t
  BY <1>1 DEF QueryInv
<1>5. AllPassed(root)' /\ \A o \in Holders(root) : ~Querying(o, root)'
  BY <1>2, <1>3, <1>4 DEF AllPassed
<1>6. root \notin Complete /\ root \in Complete'
  BY <1>2, <1>5 DEF Complete
<1>7. QueryInv'
  <2>1. ASSUME NEW x \in Vertex
        PROVE  (\A o \in Holders(x) : Querying(o, x) =>
                  AllPassed(x) /\ \A i \in Holders(x) : Querying(i, x) => i = o)'
    <3>1. CASE x = root
      BY <1>2, <1>5, <3>1
    <3> QED BY <3>1, OtherRoots
  <2> QED BY <2>1 DEF QueryInv
<1>8. GlobalInv'
  <2>1. \A x \in Vertex : Global(x)' = Global(x)
    BY <1>1, <1>3, OtherRoots, GlobalSame
  <2> QED BY <1>1, <2>1, SameOrder DEF GlobalInv
<1> QED BY <1>4, <1>6, <1>7, <1>8

\* merge_global: the part of thread t joins the global of the last holder, and
\* t is told to query exactly if it was the last to merge.
LEMMA MergeKept ==
  ASSUME InRound, NEW t \in Team, NEW root \in Vertex, root = CurRoot(t), Moves(t, root),
         ~Passed(t, root), Passed(t, root)', NEW g \in Team, Active(g), Root(Start(g)) = root,
         pc[t] = "merge" \/ (Left(t) /\ Root(Start(t)) = root),
         NEW ready \in {"query", "query_own"}, NEW waiting \in {"run", "done"},
         MergeGlobal(t, g, ready, waiting),
         Querying(t, root)' <=> pc'[t] \in {"query", "query_own"}
  PROVE  /\ GlobalInv' /\ QueryInv' /\ root \notin Complete /\ root \notin Complete'
         /\ global' \in [Tid -> GlobalMergeData]
<1> DEFINE P == {o \in Holders(root) : Passed(o, root)}
           new == [global[g] EXCEPT !.sum = RangeMerge(@, LocalSum(t)), !.done = @ + 1]
<1>1. /\ SharesRight /\ SortInv /\ phase = "round" /\ GlobalInv /\ QueryInv /\ RunInv(t)
      /\ UNCHANGED <<num_threads, cur_round, lab, merge_instr>>
      /\ num_threads \in ThreadCounts /\ pc \in [Tid -> ThreadPC]
      /\ global \in [Tid -> GlobalMergeData]
  BY DEF InRound, RoundInv, RoundType, Moves, SortInv, SortType
<1>2. /\ Team \subseteq Tid /\ Team \subseteq Nat /\ t \in Tid /\ g \in Tid
      /\ t \in Holders(root) /\ Holders(root) \subseteq Team /\ Holders(root)' = Holders(root)
  BY <1>1, TeamFacts, RunFacts, HolderFacts, SameOrder
<1>3. \A o \in Holders(root) \ {t} : /\ Passed(o, root)' <=> Passed(o, root)
                                     /\ Announced(o, root)' <=> Announced(o, root)
                                     /\ Querying(o, root)' <=> Querying(o, root)
  BY OthersStay
<1>4. global[g] = Global(root) /\ Global(root) \in GlobalMergeData
  BY <1>1, <1>2, GlobalTyped DEF GlobalInv
<1>5. /\ IsFiniteSet(Holders(root)) /\ IsFiniteSet(P) /\ P \subseteq Holders(root) /\ t \notin P
      /\ Cardinality(Holders(root)) \in Nat /\ Cardinality(P) \in Nat
  BY <1>1, GlobalTyped, FS_Subset, FS_CardinalityType
<1>6. P' = P \cup {t}
  BY <1>2, <1>3
<1>7. Cardinality(P') = Cardinality(P) + 1
  BY <1>5, <1>6, FS_AddElement
<1>8. (\E o \in Holders(root) : Announced(o, root))' <=> \E o \in Holders(root) : Announced(o, root)
  <2>1. Announced(t, root)' <=> Announced(t, root)
    <3>1. Left(t)' = Left(t) /\ Root(Start(t))' = Root(Start(t)) /\ Root(pos[t]) = root
      BY <1>1, SameOrder DEF CurRoot
    <3> QED BY <3>1 DEF Announced
  <2> QED BY <1>2, <1>3, <2>1
<1>9. cur_round < NumSamples => Global(root)'.sum = Xor(Global(root).sum, LocalSum(t))
  <2>1. SUFFICES ASSUME cur_round < NumSamples
                 PROVE  Global(root)'.sum = Xor(Global(root).sum, LocalSum(t))
    OBVIOUS
  <2> DEFINE Old == {q \in Vertex : Root(q) = root /\ Passed(Owner(q), root)}
             Add == {q \in Vertex : Root(q) = root /\ Owner(q) = t}
  <2>2. Global(root).sum = {merge_instr[p].child : p \in Old}
    BY <2>1 DEF Global
  <2>3. LocalSum(t) = {merge_instr[p].child : p \in Add}
    BY <1>1, <2>1, LocalSumFacts
  <2>4. Global(root)'.sum = {merge_instr[p].child : p \in Old'}
    <3>1. cur_round' < NumSamples /\ merge_instr' = merge_instr
      BY <1>1, <2>1
    <3> QED BY <3>1 DEF Global
  <2>5. Old' = Old \cup Add
    <3>1. ASSUME NEW q \in Vertex, Root(q) = root
          PROVE  Passed(Owner(q), root)' <=> Passed(Owner(q), root) \/ Owner(q) = t
      <4>1. Owner(q) \in Holders(root) /\ Owner(q)' = Owner(q)
        BY <1>1, <3>1, OwnerOrder, HolderFacts, SameOrder
      <4>2. CASE Owner(q) = t
        BY <4>1, <4>2 DEF Passed
      <4>3. CASE Owner(q) # t
        BY <1>3, <4>1, <4>3 DEF Passed
      <4> QED BY <4>2, <4>3
    <3>2. \A q : Root(q)' = Root(q)
      BY <1>1, SameOrder
    <3> QED BY <3>1, <3>2
  <2>6. Old \cap Add = {} /\ Old \subseteq Vertex /\ Add \subseteq Vertex
    OBVIOUS
  <2> HIDE DEF Old, Add
  <2>7. \A p \in Old : \A q \in Add : merge_instr[p].child # merge_instr[q].child
    BY <1>1, <2>6 DEF SortInv, Permutation
  <2> QED BY <2>2, <2>3, <2>4, <2>5, <2>7 DEF Xor
<1>10. /\ Global(root).done = Cardinality(P) /\ Global(root)'.done = Cardinality(P')
       /\ Global(root)'.needed = Global(root).needed
       /\ Global(root).needed = IF \E o \in Holders(root) : Announced(o, root)
                                THEN Cardinality(Holders(root)) ELSE Unset
       /\ ~(cur_round < NumSamples) => Global(root)'.sum = Global(root).sum
  <2>1. Global(root)'.needed = Global(root).needed
    BY <1>2, <1>8 DEF Global
  <2>2. Global(root).done = Cardinality(P) /\ Global(root)'.done = Cardinality(P')
    BY DEF Global
  <2> QED BY <1>1, <2>1, <2>2 DEF Global
<1> HIDE DEF P
<1>11. new = Global(root)' /\ new \in GlobalMergeData
  <2>1. LocalSum(t) \subseteq Vertex
    <3>1. \A p \in Vertex : merge_instr[p].child \in Vertex
      BY <1>1 DEF SortInv, SortType, MergeInstr
    <3> QED BY <1>1, <3>1, LocalSumFacts
  <2>2. Global(root).sum \subseteq Vertex /\ Global(root).needed \in Nat \cup {Unset}
    BY <1>4 DEF GlobalMergeData
  <2>3. RangeMerge(Global(root).sum, LocalSum(t)) = Global(root)'.sum /\ Global(root)'.sum \subseteq Vertex
    BY <1>9, <1>10, <2>1, <2>2 DEF RangeMerge, Xor
  <2>4. Global(root)'.done = Cardinality(P) + 1 /\ Cardinality(P) + 1 \in Nat
    BY <1>5, <1>7, <1>10
  <2>5. Global(root)' = [sum |-> Global(root)'.sum, needed |-> Global(root)'.needed, done |-> Global(root)'.done]
    BY DEF Global
  <2>6. Global(root)' \in GlobalMergeData
    BY <1>10, <2>2, <2>3, <2>4, <2>5 DEF GlobalMergeData
  <2>7. new = [Global(root) EXCEPT !.sum = Global(root)'.sum, !.done = Cardinality(P) + 1]
    BY <1>4, <1>10, <2>3
  <2>8. /\ new \in GlobalMergeData /\ new.sum = Global(root)'.sum
        /\ new.needed = Global(root).needed /\ new.done = Cardinality(P) + 1
    BY <1>4, <2>3, <2>4, <2>7 DEF GlobalMergeData
  <2> HIDE DEF new
  <2>9. new.needed = Global(root)'.needed /\ new.done = Global(root)'.done
    BY <1>10, <2>4, <2>8
  <2> QED BY <2>6, <2>8, <2>9 DEF GlobalMergeData
<1>12. /\ global' = [global EXCEPT ![g] = new]
       /\ pc' = [pc EXCEPT ![t] = IF new.needed # Unset /\ new.done >= new.needed THEN ready ELSE waiting]
  BY DEF MergeGlobal
<1>13. new.needed = Global(root).needed /\ new.done = Cardinality(P) + 1
  BY <1>7, <1>10, <1>11
<1> HIDE DEF new
<1>14. AllPassed(root)' <=> P' = Holders(root)
  BY <1>2 DEF AllPassed, P
<1>15. AllPassed(root)' => \E o \in Holders(root) : Announced(o, root)
  <2>1. PICK f \in Holders(root) : \A o \in Holders(root) : f <= o
    BY <1>2, LeastNat
  <2>2. f \in Nat /\ f - 1 \notin Holders(root)
    BY <1>2, <2>1
  <2>3. ~(Left(f) /\ Root(Start(f)) = root)
    BY <1>1, <1>2, <2>2, HolderFacts
  <2>4. AllPassed(root)' => Announced(f, root)'
    <3>1. Left(f)' = Left(f) /\ Root(Start(f))' = Root(Start(f))
      BY <1>1, SameOrder
    <3> QED BY <1>2, <2>3, <3>1 DEF AllPassed, Announced
  <2> QED BY <1>2, <1>8, <2>4
<1>16. new.needed # Unset /\ new.done >= new.needed <=> AllPassed(root)'
  <2>1. P' \subseteq Holders(root) /\ (Cardinality(P') = Cardinality(Holders(root)) <=> P' = Holders(root))
        /\ Cardinality(P') <= Cardinality(Holders(root))
    <3>1. P' \subseteq Holders(root)
      BY <1>2, <1>5, <1>6
    <3> QED BY <1>5, <3>1, FS_Subset
  <2>2. Cardinality(P') \in Nat /\ Cardinality(P') = new.done
    BY <1>5, <1>7, <1>13
  <2>3. Cardinality(Holders(root)) # Unset
    BY <1>5 DEF Unset
  <2> QED BY <1>5, <1>10, <1>13, <1>14, <1>15, <2>1, <2>2, <2>3
<1>17. Querying(t, root)' <=> AllPassed(root)'
  <2>1. pc'[t] = IF AllPassed(root)' THEN ready ELSE waiting
    BY <1>1, <1>2, <1>12, <1>16
  <2> QED BY <2>1
<1>18. \A o \in Holders(root) \ {t} : ~Querying(o, root) /\ ~Querying(o, root)'
  <2>1. ~AllPassed(root)
    BY <1>2 DEF AllPassed
  <2> QED BY <1>1, <1>3, <2>1 DEF QueryInv
<1>19. root \notin Complete /\ root \notin Complete'
  BY <1>2, <1>17 DEF Complete, AllPassed
<1>20. QueryInv'
  <2>1. ASSUME NEW x \in Vertex
        PROVE  (\A o \in Holders(x) : Querying(o, x) =>
                  AllPassed(x) /\ \A i \in Holders(x) : Querying(i, x) => i = o)'
    <3>1. CASE x = root
      <4>1. \A o \in Holders(root) : Querying(o, root)' => o = t /\ AllPassed(root)'
        BY <1>17, <1>18
      <4>2. ASSUME NEW o \in Holders(root)', Querying(o, root)'
            PROVE  AllPassed(root)' /\ \A i \in Holders(root)' : Querying(i, root)' => i = o
        <5>1. o \in Holders(root) /\ \A i \in Holders(root)' : i \in Holders(root)
          BY <1>2, Zenon
        <5>2. o = t /\ AllPassed(root)'
          BY <4>1, <4>2, <5>1, Zenon
        <5>3. \A i \in Holders(root)' : Querying(i, root)' => i = t
          BY <4>1, <5>1, Zenon
        <5> QED BY <5>2, <5>3, Zenon
      <4> QED BY <3>1, <4>2
    <3> QED BY <3>1, OtherRoots
  <2> QED BY <2>1 DEF QueryInv
<1>21. GlobalInv'
  <2>1. \A h \in Tid : global'[h] = IF h = g THEN new ELSE global[h]
    BY <1>1, <1>12
  <2>2. \A x \in Vertex : x # root => Global(x)' = Global(x)
    BY OtherRoots
  <2>3. \A h \in Team : Active(h) /\ Root(Start(h)) = root => h = g
    BY <1>1, ActiveFacts
  <2>4. Team' = Team /\ \A h : Active(h)' = Active(h) /\ Root(Start(h))' = Root(Start(h))
    BY <1>1, SameOrder
  <2>5. ASSUME NEW h \in Tid, ~(h \in Team /\ Active(h)) PROVE global'[h] = NoGlobal
    BY <1>1, <2>1, <2>5 DEF GlobalInv
  <2>6. ASSUME NEW h \in Tid, NEW x \in Vertex, h \in Team /\ Active(h) /\ Root(Start(h)) = x
        PROVE  global'[h] = Global(x)'
    BY <1>1, <1>11, <2>1, <2>2, <2>3, <2>6 DEF GlobalInv
  <2>7. NoGlobal' = NoGlobal
    BY DEF NoGlobal
  <2> QED BY <2>4, <2>5, <2>6, <2>7 DEF GlobalInv
<1>22. global' \in [Tid -> GlobalMergeData]
  BY <1>1, <1>2, <1>11, <1>12
<1> QED BY <1>19, <1>20, <1>21, <1>22

\* The first holder says how many threads will merge: all holders.
LEMMA NeededKept ==
  ASSUME InRound, NEW t \in Team, NEW root \in Vertex, root = CurRoot(t), SetNeeded(t)
  PROVE  /\ Moves(t, root) /\ GlobalInv' /\ QueryInv' /\ root \notin Complete /\ root \notin Complete'
         /\ global' \in [Tid -> GlobalMergeData]
<1> DEFINE g == FindLastPartition(t)
           P == {o \in Holders(root) : Passed(o, root)}
<1>1. /\ SharesRight /\ IndexRight /\ SortInv /\ phase = "round" /\ GlobalInv /\ QueryInv /\ RunInv(t)
      /\ num_threads \in ThreadCounts /\ pc \in [Tid -> ThreadPC]
      /\ global \in [Tid -> GlobalMergeData]
  BY DEF InRound, RoundInv, RoundType, SortInv, SortType
<1>2. /\ UNCHANGED <<num_threads, cur_round, lab, merge_instr, thrown, phase, pos>>
      /\ pc[t] = "run" /\ RunEnd(t) = End(t) /\ ~from_left[t] /\ ExitsRight(t)
      /\ pc' = [pc EXCEPT ![t] = "merge"]
      /\ global' = [global EXCEPT ![g].needed = g - t + 1]
  BY DEF SetNeeded, LastRun, ThreadAt, query_vars
<1>3. /\ Team \subseteq Tid /\ Team \subseteq Nat /\ t \in Tid
      /\ t \in Holders(root) /\ Holders(root) \subseteq Team /\ Holders(root)' = Holders(root)
  BY <1>1, <1>2, TeamFacts, RunFacts, HolderFacts, SameOrder
<1>4. /\ g \in Holders(root) /\ g \in Team /\ g \in Tid /\ Active(g) /\ Root(Start(g)) = root
      /\ \A o \in Holders(root) : o <= g
  BY <1>1, <1>2, <1>3, LastShare
<1>5. ~(Left(t) /\ Root(Start(t)) = root)
  <2>1. Start(t) \in Vertex /\ Owner(Start(t)) = t /\ Start(t) \in Nat /\ pos[t] \in Nat /\ Start(t) <= pos[t]
    BY <1>1, OwnerOrder, RunFacts, VertexFacts
  <2>2. Root(Start(t)) = root => pos[t] <= Start(t)
    BY <1>1, <2>1, RunFacts
  <2> QED BY <1>1, <1>2, <2>1, <2>2 DEF RunInv
<1>6. Holders(root) = t .. g
  <2>1. \A o \in Holders(root) : o \in Nat /\ t <= o /\ o <= g
    BY <1>1, <1>3, <1>4, <1>5, HolderFacts
  <2>2. ASSUME NEW o \in t .. g PROVE o \in Holders(root)
    <3>1. o \in Team /\ t <= o /\ o <= g
      BY <1>1, <1>3, <1>4, TeamFacts DEF Team
    <3> QED BY <1>1, <1>3, <1>4, <3>1, HolderFacts
  <2> HIDE DEF g
  <2>3. t \in Nat /\ g \in Nat
    BY <1>3, <1>4
  <2>4. \A o \in Holders(root) : o \in t .. g
    BY <2>1, <2>3
  <2>5. \A o : o \in Holders(root) <=> o \in t .. g
    BY <2>2, <2>4, Zenon
  <2> QED BY <2>5, Zenon
<1>7. Cardinality(Holders(root)) = g - t + 1 /\ g - t + 1 \in Nat
  <2>1. t \in Nat /\ g \in Nat /\ t <= g
    BY <1>3, <1>4
  <2> HIDE DEF g
  <2>2. Cardinality(t .. g) = g - t + 1
    BY <2>1, FS_Interval
  <2> QED BY <1>6, <2>1, <2>2
<1>8. pc'[t] = "merge" /\ (\A o \in Team \ {t} : pc'[o] = pc[o]) /\ Root(pos[t]) = root
      /\ Root(pos[t])' = root
  BY <1>1, <1>2, <1>3 DEF CurRoot, Root
<1>9. \A x : Passed(t, x)' <=> Passed(t, x)
  BY <1>2, <1>8 DEF Passed
<1>10. \A x : Querying(t, x)' <=> Querying(t, x)
  BY <1>2, <1>8 DEF Querying
<1>11. \A x : x # root => (Announced(t, x)' <=> Announced(t, x))
  <2>1. Left(t)' = Left(t) /\ Root(Start(t))' = Root(Start(t))
    BY <1>2, SameOrder
  <2> QED BY <1>8, <1>9, <2>1 DEF Announced
<1>12. Moves(t, root)
  BY <1>2, <1>8, <1>9, <1>10, <1>11 DEF Moves
<1>13. Announced(t, root)'
  <2>1. Left(t)' = Left(t) /\ Root(Start(t))' = Root(Start(t))
    BY <1>2, SameOrder
  <2> QED BY <1>5, <1>8, <2>1 DEF Announced
<1>14. \A o \in Holders(root) : /\ Passed(o, root)' <=> Passed(o, root)
                                /\ Querying(o, root)' <=> Querying(o, root)
  BY <1>9, <1>10, <1>12, OthersStay
<1>15. AllPassed(root)' <=> AllPassed(root)
  BY <1>3, <1>14 DEF AllPassed
<1>16. root \notin Complete /\ root \notin Complete'
  <2>1. root > root => FALSE
    BY VertexFacts
  <2>2. ~AllPassed(root)
    BY <1>2, <1>3, <1>8, <2>1 DEF AllPassed, Passed
  <2> QED BY <1>15, <2>2 DEF Complete
<1>17. QueryInv'
  <2>1. ASSUME NEW x \in Vertex
        PROVE  (\A o \in Holders(x) : Querying(o, x) =>
                  AllPassed(x) /\ \A i \in Holders(x) : Querying(i, x) => i = o)'
    <3>1. CASE x = root
      <4>1. \A o \in Holders(root) : Querying(o, root) =>
              AllPassed(root) /\ \A i \in Holders(root) : Querying(i, root) => i = o
        BY <1>1 DEF QueryInv
      <4>2. ASSUME NEW o \in Holders(root)', Querying(o, root)'
            PROVE  AllPassed(root)' /\ \A i \in Holders(root)' : Querying(i, root)' => i = o
        <5>1. o \in Holders(root) /\ \A i \in Holders(root)' : i \in Holders(root)
          BY <1>3, Zenon
        <5> QED BY <1>14, <1>15, <4>1, <4>2, <5>1, Zenon
      <4> QED BY <3>1, <4>2
    <3> QED BY <1>12, <3>1, OtherRoots
  <2> QED BY <2>1 DEF QueryInv
<1>18. global[g] = Global(root) /\ Global(root) \in GlobalMergeData
  BY <1>1, <1>4, GlobalTyped DEF GlobalInv
<1>19. global' = [global EXCEPT ![g] = [global[g] EXCEPT !.needed = g - t + 1]]
  BY <1>1, <1>2, <1>4 DEF GlobalMergeData
<1> DEFINE new == [global[g] EXCEPT !.needed = g - t + 1]
<1>20. new = Global(root)' /\ new \in GlobalMergeData
  <2>1. P' = P
    BY <1>3, <1>14
  <2>2. Global(root)'.done = Global(root).done
    BY <2>1 DEF Global
  <2>3. Global(root)'.needed = g - t + 1
    BY <1>3, <1>7, <1>13 DEF Global
  <2>4. Global(root)'.sum = Global(root).sum
    <3>1. ASSUME NEW q \in Vertex
          PROVE  Root(q)' = root /\ Passed(Owner(q), root)' <=> Root(q) = root /\ Passed(Owner(q), root)
      <4>1. Owner(q)' = Owner(q) /\ Root(q)' = Root(q)
        BY <1>2, SameOrder
      <4>2. Root(q) = root => Owner(q) \in Holders(root)
        BY <1>1, OwnerOrder, HolderFacts
      <4> QED BY <1>14, <4>1, <4>2 DEF Passed
    <3>2. {q \in Vertex : Root(q) = root /\ Passed(Owner(q), root)}'
            = {q \in Vertex : Root(q) = root /\ Passed(Owner(q), root)}
      BY <3>1
    <3> QED BY <1>2, <3>2 DEF Global
  <2>5. Global(root)' = [sum |-> Global(root)'.sum, needed |-> Global(root)'.needed, done |-> Global(root)'.done]
    BY DEF Global
  <2>6. Global(root).sum \subseteq Vertex /\ Global(root).done \in Nat
    BY <1>18 DEF GlobalMergeData
  <2>7. Global(root)' \in GlobalMergeData
    BY <1>7, <2>2, <2>3, <2>4, <2>5, <2>6 DEF GlobalMergeData
  <2>8. /\ new \in GlobalMergeData /\ new.sum = Global(root).sum
        /\ new.needed = g - t + 1 /\ new.done = Global(root).done
    BY <1>7, <1>18 DEF GlobalMergeData
  <2> HIDE DEF new
  <2> QED BY <2>2, <2>3, <2>4, <2>7, <2>8 DEF GlobalMergeData
<1> HIDE DEF new, g
<1>21. GlobalInv'
  <2>1. \A h \in Tid : global'[h] = IF h = g THEN new ELSE global[h]
    BY <1>1, <1>19 DEF new
  <2>2. \A x \in Vertex : x # root => Global(x)' = Global(x)
    BY <1>12, OtherRoots
  <2>3. \A h \in Team : Active(h) /\ Root(Start(h)) = root => h = g
    BY <1>1, <1>4, ActiveFacts
  <2>4. Team' = Team /\ \A h : Active(h)' = Active(h) /\ Root(Start(h))' = Root(Start(h))
    BY <1>2, SameOrder
  <2>5. ASSUME NEW h \in Tid, ~(h \in Team /\ Active(h)) PROVE global'[h] = NoGlobal
    BY <1>1, <1>4, <2>1, <2>5 DEF GlobalInv
  <2>6. ASSUME NEW h \in Tid, NEW x \in Vertex, h \in Team /\ Active(h) /\ Root(Start(h)) = x
        PROVE  global'[h] = Global(x)'
    <3>1. CASE x = root
      <4>1. h = g
        BY <2>3, <2>6, <3>1
      <4> QED BY <1>20, <2>1, <3>1, <4>1
    <3>2. CASE x # root
      <4>1. h # g
        BY <1>4, <2>6, <3>2
      <4>2. global[h] = Global(x)
        BY <1>1, <2>6 DEF GlobalInv
      <4> QED BY <2>1, <2>2, <3>2, <4>1, <4>2
    <3> QED BY <3>1, <3>2
  <2>7. NoGlobal' = NoGlobal
    BY DEF NoGlobal
  <2> QED BY <2>4, <2>5, <2>6, <2>7 DEF GlobalInv
<1>22. global' \in [Tid -> GlobalMergeData]
  BY <1>1, <1>19, <1>20 DEF new
<1> QED BY <1>12, <1>16, <1>17, <1>21, <1>22

-----------------------------------------------------------------------------
(* The actions of a round *)

LEMMA RunOthers ==
  ASSUME UNCHANGED <<num_threads, lab, merge_instr>>, NEW o, RunInv(o),
         pos'[o] = pos[o], pc'[o] = pc[o], from_left'[o] = from_left[o]
  PROVE  RunInv(o)'
<1>1. Root(pos[o])' = Root(pos[o]) /\ Root(pos[o] - 1)' = Root(pos[o] - 1)
  BY DEF Root
<1> QED BY <1>1, SameOrder DEF RunInv

LEMMA RoundKept ==
  ASSUME InRound, NEW t \in Team, NEW root \in Vertex, Moves(t, root),
         pos' \in [Tid -> 0 .. N], from_left' \in [Tid -> BOOLEAN], pc' \in [Tid -> ThreadPC],
         global' \in [Tid -> GlobalMergeData], local_except' \in [Tid -> BOOLEAN],
         \A o \in Team \ {t} : from_left'[o] = from_left[o], RunInv(t)',
         GlobalInv', QueryInv', SampleInv'
  PROVE  RoundInv'
<1>1. /\ UNCHANGED <<num_threads, cur_round, lab, merge_instr, thrown, phase>> /\ phase = "round"
      /\ \A o \in Team : RunInv(o)
      /\ thrown \in BOOLEAN /\ ~thrown /\ cur_round > 0
  BY DEF InRound, Moves, RoundInv, RoundType
<1>2. RoundType'
  BY <1>1 DEF RoundType
<1>3. \A o \in Team \ {t} : RunInv(o)'
  BY <1>1, RunOthers DEF Moves
<1>4. (\A o \in Team : RunInv(o))'
  <2>1. Team' = Team
    BY <1>1, SameOrder
  <2> QED BY <1>3, <2>1
<1> QED BY <1>1, <1>2, <1>4 DEF RoundInv

\* What all steps of a round have in common.
LEMMA StepFacts ==
  ASSUME InRound, NEW t \in Tid, RoundStep(t)
  PROVE  /\ SharesRight /\ IndexRight /\ SortInv /\ phase = "round" /\ t \in Team /\ RunInv(t)
         /\ num_threads \in ThreadCounts /\ QueryInv /\ GlobalInv
         /\ pos \in [Tid -> 0 .. N] /\ from_left \in [Tid -> BOOLEAN] /\ pc \in [Tid -> ThreadPC]
         /\ global \in [Tid -> GlobalMergeData] /\ local_except \in [Tid -> BOOLEAN]
         /\ UNCHANGED <<num_threads, cur_round, lab, merge_instr, thrown, phase>>
         /\ Team \subseteq Tid /\ CurRoot(t) \in Vertex
<1>1. t \in Team /\ UNCHANGED <<query_vars, phase, merge_instr>>
  BY DEF RoundStep, InnerLocal, InnerGlobal, QueryOwn, LastLocal, SetNeeded, LastGlobal, QueryLast,
         InnerRun, LastRun, ThreadAt
<1>2. /\ SharesRight /\ IndexRight /\ SortInv /\ phase = "round" /\ RunInv(t)
      /\ num_threads \in ThreadCounts /\ QueryInv /\ GlobalInv
      /\ pos \in [Tid -> 0 .. N] /\ from_left \in [Tid -> BOOLEAN] /\ pc \in [Tid -> ThreadPC]
      /\ global \in [Tid -> GlobalMergeData] /\ local_except \in [Tid -> BOOLEAN]
  BY <1>1 DEF InRound, RoundInv, RoundType, SortInv, SortType
<1> QED BY <1>1, <1>2, TeamFacts, RunFacts DEF query_vars

\* A thread reaches the next root of its share.
LEMMA NextRootRun ==
  ASSUME SharesRight, SortInv, phase = "round", NEW t \in Team, RunInv(t), RunEnd(t) < End(t),
         UNCHANGED <<num_threads, lab, merge_instr>>,
         pos'[t] = RunEnd(t), from_left'[t] = FALSE,
         pc'[t] = "run" \/ (pc'[t] = "query_own" /\ Left(t))
  PROVE  RunInv(t)'
<1>1. num_threads \in ThreadCounts
  BY DEF SortInv, SortType
<1>2. /\ RunEnd(t) \in Share(t) /\ RunEnd(t) \in Vertex /\ CurRoot(t) < Root(RunEnd(t))
      /\ Root(RunEnd(t) - 1) = CurRoot(t) /\ CurRoot(t) \in Vertex
      /\ pos[t] \in Vertex /\ Owner(pos[t]) = t /\ pos[t] < RunEnd(t) /\ RunEnd(t) \in Nat
  BY RunFacts
<1>3. Root(RunEnd(t) - 1) # Root(RunEnd(t)) /\ RunEnd(t) # Start(t)
  <2>1. CurRoot(t) \in Nat /\ Root(RunEnd(t)) \in Nat /\ pos[t] \in Nat
    BY <1>2, Sorted, VertexFacts
  <2>2. Start(t) <= pos[t] /\ Start(t) \in Nat
    BY <1>1, <1>2, OwnerOrder, ShareFacts
  <2> QED BY <1>2, <2>1, <2>2
<1>4. Root(pos[t])' = Root(RunEnd(t)) /\ Root(pos[t] - 1)' = Root(RunEnd(t) - 1)
  BY DEF Root
<1> QED BY <1>2, <1>3, <1>4, SameOrder DEF RunInv

\* A thread at its last supernode.
LEMMA LastRootRun ==
  ASSUME SharesRight, SortInv, phase = "round", NEW t \in Team, RunInv(t), RunEnd(t) = End(t),
         UNCHANGED <<num_threads, lab, merge_instr, pos, from_left>>,
         pc'[t] \in {"merge", "query", "done"},
         pc'[t] = "merge" => ~from_left[t] /\ ExitsRight(t),
         pc'[t] = "query" => from_left[t] \/ ExitsRight(t)
  PROVE  RunInv(t)'
<1>1. Root(End(t) - 1) = Root(pos[t])
  BY RunFacts DEF CurRoot
<1>2. Root(pos[t])' = Root(pos[t]) /\ Root(pos[t] - 1)' = Root(pos[t] - 1)
  BY DEF Root
<1> QED BY <1>1, <1>2, SameOrder DEF RunInv

\* A supernode that neither comes from the left nor exits right.
LEMMA OneHolder ==
  ASSUME SharesRight, SortInv, phase = "round", NEW t \in Team, RunInv(t), NEW root \in Vertex,
         root = CurRoot(t), ~from_left[t], RunEnd(t) < End(t) \/ ~ExitsRight(t)
  PROVE  /\ Holders(root) = {t}
         /\ cur_round < NumSamples => LocalSum(t) = Members(root)
<1>1. num_threads \in ThreadCounts
  BY DEF SortInv, SortType
<1>2. t \in Holders(root) /\ Holders(root) \subseteq Team /\ Team \subseteq Nat
  BY <1>1, RunFacts, HolderFacts, TeamFacts
<1>3. ~(Left(t) /\ Root(Start(t)) = root)
  <2>1. Start(t) \in Vertex /\ Owner(Start(t)) = t /\ Start(t) \in Nat /\ pos[t] \in Nat /\ Start(t) <= pos[t]
    BY <1>1, OwnerOrder, RunFacts, VertexFacts
  <2>2. Root(Start(t)) = root => pos[t] <= Start(t)
    BY <2>1, RunFacts
  <2> QED BY <2>1, <2>2 DEF RunInv
<1>4. ~(ExitsRight(t) /\ Root(End(t) - 1) = root)
  <2>1. RunEnd(t) < End(t) => Root(End(t) - 1) # root
    <3>1. RunEnd(t) \in Nat /\ End(t) \in Nat
      BY <1>1, RunFacts, ShareFacts
    <3> QED BY <3>1, RunFacts
  <2> QED BY <2>1
<1>5. ASSUME NEW o \in Holders(root) PROVE o = t
  <2>1. ~(o < t) /\ ~(t < o)
    BY <1>2, <1>3, <1>4, HolderFacts
  <2> QED BY <1>2, <2>1
<1>6. Holders(root) = {t}
  BY <1>2, <1>5
<1>7. ASSUME cur_round < NumSamples PROVE LocalSum(t) = Members(root)
  <2>1. \A q \in Vertex : Root(q) = root => Owner(q) = t
    BY <1>1, <1>6, HolderFacts, OwnerOrder
  <2>2. {q \in Vertex : Root(q) = root /\ Owner(q) = t} = {q \in Vertex : Root(q) = root}
    BY <2>1
  <2>3. LocalSum(t) = {merge_instr[p].child : p \in {q \in Vertex : Root(q) = root /\ Owner(q) = t}}
    BY <1>7, LocalSumFacts
  <2>4. Members(root) = {merge_instr[p].child : p \in {q \in Vertex : Root(q) = root}}
    BY MembersFacts
  <2> QED BY <2>2, <2>3, <2>4
<1> QED BY <1>6, <1>7

LEMMA KeepInnerLocal ==
  ASSUME InRound, NEW t \in Tid, InnerLocal(t)
  PROVE  RoundInv' /\ RoundsStep
<1>1. RoundStep(t)
  BY DEF RoundStep
<1>2. PICK root \in Vertex : root = CurRoot(t)
  BY <1>1, StepFacts
<1>3. /\ pc[t] = "run" /\ RunEnd(t) < End(t) /\ ~from_left[t] /\ SampleSupernode(t, LocalSum(t))
      /\ pos' = [pos EXCEPT ![t] = RunEnd(t)] /\ UNCHANGED <<from_left, pc, global>>
  BY DEF InnerLocal, InnerRun, ThreadAt, NextRoot
<1>4. pos'[t] = RunEnd(t) /\ \A o \in Team \ {t} : pos'[o] = pos[o]
  BY <1>1, <1>3, StepFacts
<1>5. /\ Moves(t, root) /\ ~Passed(t, root) /\ Passed(t, root)'
      /\ Querying(t, root)' <=> pc'[t] \in {"query", "query_own"}
  BY <1>1, <1>2, <1>3, <1>4, StepFacts, PassFacts
<1>6. Holders(root) = {t} /\ (cur_round < NumSamples => LocalSum(t) = Members(root))
  BY <1>1, <1>2, <1>3, StepFacts, OneHolder
<1>7. GlobalInv' /\ QueryInv' /\ root \notin Complete /\ root \in Complete'
  BY <1>1, <1>3, <1>5, <1>6, StepFacts, AloneKept
<1>8. SampleInv' /\ RoundsStep /\ local_except' \in [Tid -> BOOLEAN]
  BY <1>1, <1>3, <1>5, <1>6, <1>7, StepFacts, SampleKept
<1>9. RunInv(t)'
  BY <1>1, <1>3, <1>4, StepFacts, NextRootRun
<1>10. pos' \in [Tid -> 0 .. N]
  <2>1. RunEnd(t) \in 0 .. N
    BY <1>1, <1>3, StepFacts, RunFacts, VertexFacts DEF Vertex
  <2> QED BY <1>1, <1>3, <2>1, StepFacts
<1> QED BY <1>1, <1>3, <1>5, <1>7, <1>8, <1>9, <1>10, StepFacts, RoundKept

LEMMA KeepInnerGlobal ==
  ASSUME InRound, NEW t \in Tid, InnerGlobal(t)
  PROVE  RoundInv' /\ RoundsStep
<1>1. RoundStep(t)
  BY DEF RoundStep
<1>2. PICK root \in Vertex : root = CurRoot(t)
  BY <1>1, StepFacts
<1>3. /\ pc[t] = "run" /\ RunEnd(t) < End(t) /\ from_left[t] /\ MergeGlobal(t, t, "query_own", "run")
      /\ from_left' = [from_left EXCEPT ![t] = FALSE]
      /\ pos' = [pos EXCEPT ![t] = RunEnd(t)] /\ UNCHANGED sample_vars
  BY DEF InnerGlobal, InnerRun, ThreadAt, NextRoot
<1>4. pos'[t] = RunEnd(t) /\ from_left'[t] = FALSE
      /\ \A o \in Team \ {t} : pos'[o] = pos[o] /\ from_left'[o] = from_left[o]
  BY <1>1, <1>3, StepFacts
<1>5. /\ pc' \in [Tid -> ThreadPC] /\ pc'[t] \in {"query_own", "run"}
      /\ \A o \in Team \ {t} : pc'[o] = pc[o]
  <2>1. PICK next \in {"query_own", "run"} : pc' = [pc EXCEPT ![t] = next]
    BY <1>3 DEF MergeGlobal
  <2> QED BY <1>1, <2>1, StepFacts DEF ThreadPC
<1>6. /\ Moves(t, root) /\ ~Passed(t, root) /\ Passed(t, root)'
      /\ Querying(t, root)' <=> pc'[t] \in {"query", "query_own"}
  BY <1>1, <1>2, <1>3, <1>4, <1>5, StepFacts, PassFacts
<1>7. Left(t) /\ Root(Start(t)) = root /\ Active(t)
  <2>1. Left(t) /\ Root(Start(t)) = root
    BY <1>1, <1>2, <1>3, StepFacts DEF RunInv, CurRoot
  <2>2. ASSUME NEW p \in Vertex, Root(p) = root PROVE Owner(p) <= t
    <3>1. RunEnd(t) \in Vertex /\ p < RunEnd(t) /\ RunEnd(t) \in Share(t)
      BY <1>1, <1>2, <1>3, <2>2, StepFacts, RunFacts
    <3>2. p <= RunEnd(t)
      <4>1. p \in Nat /\ RunEnd(t) \in Nat
        BY <3>1, VertexFacts
      <4> QED BY <3>1, <4>1
    <3> QED BY <1>1, <3>1, <3>2, StepFacts, OwnerOrder
  <2> QED BY <2>1, <2>2 DEF Active
<1>8. /\ GlobalInv' /\ QueryInv' /\ root \notin Complete /\ root \notin Complete'
      /\ global' \in [Tid -> GlobalMergeData]
  BY <1>1, <1>2, <1>3, <1>6, <1>7, StepFacts, MergeKept
<1>9. SampleInv' /\ RoundsStep
  BY <1>1, <1>3, <1>6, <1>8, StepFacts, NoSample
<1>10. RunInv(t)'
  BY <1>1, <1>3, <1>4, <1>5, <1>7, StepFacts, NextRootRun
<1>11. pos' \in [Tid -> 0 .. N] /\ from_left' \in [Tid -> BOOLEAN]
  <2>1. RunEnd(t) \in 0 .. N
    BY <1>1, <1>3, StepFacts, RunFacts, VertexFacts DEF Vertex
  <2> QED BY <1>1, <1>3, <2>1, StepFacts
<1>12. local_except' \in [Tid -> BOOLEAN]
  BY <1>1, <1>3, StepFacts DEF sample_vars
<1> QED BY <1>1, <1>4, <1>5, <1>6, <1>8, <1>9, <1>10, <1>11, <1>12, StepFacts, RoundKept

LEMMA KeepQueryOwn ==
  ASSUME InRound, NEW t \in Tid, QueryOwn(t)
  PROVE  RoundInv' /\ RoundsStep
<1>1. RoundStep(t)
  BY DEF RoundStep
<1>2. /\ pc[t] = "query_own" /\ SampleSupernode(t, global[t].sum)
      /\ pc' = [pc EXCEPT ![t] = "run"] /\ UNCHANGED <<pos, from_left, global>>
  BY DEF QueryOwn, ThreadAt
<1>3. PICK root \in Vertex : root = Root(Start(t))
  BY <1>1, StepFacts, OwnerOrder, Sorted
<1>4. pc' \in [Tid -> ThreadPC] /\ pc'[t] = "run" /\ \A o \in Team \ {t} : pc'[o] = pc[o]
  BY <1>1, <1>2, StepFacts DEF ThreadPC
<1>5. Root(pos[t])' = Root(pos[t]) /\ Left(t)' = Left(t) /\ Root(Start(t))' = Root(Start(t))
  <2>1. Root(pos[t])' = Root(pos[t])
    BY <1>1, <1>2, StepFacts DEF Root
  <2> QED BY <1>1, <2>1, StepFacts, SameOrder
<1>6. \A x : Passed(t, x)' <=> Passed(t, x)
  BY <1>2, <1>4, <1>5 DEF Passed
<1>7. \A x : Announced(t, x)' <=> Announced(t, x)
  BY <1>2, <1>4, <1>5, <1>6 DEF Announced
<1>8. (\A x : Querying(t, x) <=> x = root) /\ (\A x : ~Querying(t, x)')
  BY <1>2, <1>3, <1>4 DEF Querying
<1>9. Moves(t, root)
  BY <1>1, <1>2, <1>4, <1>6, <1>7, <1>8, StepFacts DEF Moves
<1>10. Left(t) /\ pos[t] # Start(t) /\ t \in Holders(root)
  <2>1. Left(t) /\ pos[t] # Start(t)
    BY <1>1, <1>2, StepFacts DEF RunInv
  <2> QED BY <1>1, <1>3, <2>1, StepFacts, HolderFacts
<1>11. /\ GlobalInv' /\ QueryInv' /\ root \notin Complete /\ root \in Complete' /\ AllPassed(root)
  BY <1>1, <1>2, <1>6, <1>7, <1>8, <1>9, <1>10, StepFacts, QueryKept
<1>12. Active(t)
  <2>1. ASSUME NEW p \in Vertex, Root(p) = root PROVE Owner(p) <= t
    <3>1. /\ pos[t] \in Vertex /\ Owner(pos[t]) = t /\ Start(t) <= pos[t] /\ Start(t) \in Vertex
          /\ Root(pos[t] - 1) # Root(pos[t])
      BY <1>1, <1>10, StepFacts, RunFacts, OwnerOrder DEF RunInv
    <3>2. pos[t] - 1 \in Vertex /\ Start(t) <= pos[t] - 1 /\ pos[t] - 1 <= pos[t]
      BY <1>10, <3>1, VertexFacts DEF Vertex
    <3>3. Root(Start(t)) <= Root(pos[t] - 1) /\ Root(pos[t] - 1) <= Root(pos[t])
      BY <1>1, <3>1, <3>2, StepFacts, Sorted
    <3>4. Root(Start(t)) \in Nat /\ Root(pos[t] - 1) \in Nat /\ Root(pos[t]) \in Nat
      BY <1>1, <3>1, <3>2, StepFacts, Sorted, VertexFacts
    <3>5. root < Root(pos[t])
      BY <1>3, <3>1, <3>3, <3>4
    <3>6. pos[t] <= p => Root(pos[t]) <= Root(p)
      BY <1>1, <3>1, StepFacts, Sorted
    <3>7. p <= pos[t]
      <4>1. p \in Nat /\ pos[t] \in Nat /\ root \in Nat
        BY <3>1, VertexFacts
      <4> QED BY <2>1, <3>4, <3>5, <3>6, <4>1
    <3> QED BY <1>1, <3>1, <3>7, StepFacts, OwnerOrder
  <2> QED BY <1>3, <1>10, <2>1 DEF Active
<1>13. cur_round < NumSamples => global[t].sum = Members(root)
  <2>1. global[t] = Global(root)
    BY <1>1, <1>3, <1>12, StepFacts DEF GlobalInv
  <2> QED BY <1>1, <1>11, <2>1, StepFacts, GlobalTyped
<1>14. SampleInv' /\ RoundsStep /\ local_except' \in [Tid -> BOOLEAN]
  <2>1. Holders(root) # {}
    BY <1>10
  <2> QED BY <1>1, <1>2, <1>9, <1>11, <1>13, <2>1, StepFacts, SampleKept
<1>15. RunInv(t)'
  <2>1. Root(pos[t] - 1)' = Root(pos[t] - 1)
    BY <1>1, <1>2, StepFacts DEF Root
  <2> QED BY <1>1, <1>2, <1>4, <1>5, <2>1, StepFacts, SameOrder DEF RunInv
<1> QED BY <1>1, <1>2, <1>4, <1>9, <1>11, <1>14, <1>15, StepFacts, RoundKept

LEMMA KeepLastLocal ==
  ASSUME InRound, NEW t \in Tid, LastLocal(t)
  PROVE  RoundInv' /\ RoundsStep
<1>1. RoundStep(t)
  BY DEF RoundStep
<1>2. PICK root \in Vertex : root = CurRoot(t)
  BY <1>1, StepFacts
<1>3. /\ pc[t] = "run" /\ RunEnd(t) = End(t) /\ ~from_left[t] /\ ~ExitsRight(t)
      /\ SampleSupernode(t, LocalSum(t))
      /\ pc' = [pc EXCEPT ![t] = "done"] /\ UNCHANGED <<pos, from_left, global>>
  BY DEF LastLocal, LastRun, ThreadAt
<1>4. pc' \in [Tid -> ThreadPC] /\ pc'[t] = "done" /\ \A o \in Team \ {t} : pc'[o] = pc[o]
  BY <1>1, <1>3, StepFacts DEF ThreadPC
<1>5. /\ Moves(t, root) /\ ~Passed(t, root) /\ Passed(t, root)'
      /\ Querying(t, root)' <=> pc'[t] \in {"query", "query_own"}
  BY <1>1, <1>2, <1>3, <1>4, StepFacts, PassFacts
<1>6. Holders(root) = {t} /\ (cur_round < NumSamples => LocalSum(t) = Members(root))
  BY <1>1, <1>2, <1>3, StepFacts, OneHolder
<1>7. GlobalInv' /\ QueryInv' /\ root \notin Complete /\ root \in Complete'
  BY <1>1, <1>3, <1>4, <1>5, <1>6, StepFacts, AloneKept
<1>8. SampleInv' /\ RoundsStep /\ local_except' \in [Tid -> BOOLEAN]
  BY <1>1, <1>3, <1>5, <1>6, <1>7, StepFacts, SampleKept
<1>9. RunInv(t)'
  BY <1>1, <1>3, <1>4, StepFacts, LastRootRun
<1> QED BY <1>1, <1>3, <1>4, <1>5, <1>7, <1>8, <1>9, StepFacts, RoundKept

LEMMA KeepSetNeeded ==
  ASSUME InRound, NEW t \in Tid, SetNeeded(t)
  PROVE  RoundInv' /\ RoundsStep
<1>1. RoundStep(t)
  BY DEF RoundStep
<1>2. PICK root \in Vertex : root = CurRoot(t)
  BY <1>1, StepFacts
<1>3. /\ pc[t] = "run" /\ RunEnd(t) = End(t) /\ ~from_left[t] /\ ExitsRight(t)
      /\ pc' = [pc EXCEPT ![t] = "merge"] /\ UNCHANGED <<pos, from_left, sample_vars>>
  BY DEF SetNeeded, LastRun, ThreadAt
<1>4. pc' \in [Tid -> ThreadPC] /\ pc'[t] = "merge"
  BY <1>1, <1>3, StepFacts DEF ThreadPC
<1>5. /\ Moves(t, root) /\ GlobalInv' /\ QueryInv' /\ root \notin Complete /\ root \notin Complete'
      /\ global' \in [Tid -> GlobalMergeData]
  BY <1>1, <1>2, StepFacts, NeededKept
<1>6. SampleInv' /\ RoundsStep
  BY <1>1, <1>3, <1>5, StepFacts, NoSample
<1>7. RunInv(t)'
  BY <1>1, <1>3, <1>4, StepFacts, LastRootRun
<1>8. local_except' \in [Tid -> BOOLEAN]
  BY <1>1, <1>3, StepFacts DEF sample_vars
<1> QED BY <1>1, <1>3, <1>4, <1>5, <1>6, <1>7, <1>8, StepFacts, RoundKept

LEMMA KeepLastGlobal ==
  ASSUME InRound, NEW t \in Tid, LastGlobal(t)
  PROVE  RoundInv' /\ RoundsStep
<1>1. RoundStep(t)
  BY DEF RoundStep
<1>2. PICK root \in Vertex : root = CurRoot(t)
  BY <1>1, StepFacts
<1>3. /\ (pc[t] = "run" /\ RunEnd(t) = End(t) /\ from_left[t]) \/ pc[t] = "merge"
      /\ MergeGlobal(t, FindLastPartition(t), "query", "done")
      /\ UNCHANGED <<pos, from_left, sample_vars>>
  BY DEF LastGlobal, LastRun, ThreadAt
<1>4. RunEnd(t) = End(t) /\ (from_left[t] \/ (pc[t] = "merge" /\ ExitsRight(t)))
  <2>1. pc[t] = "merge" => Root(End(t) - 1) = CurRoot(t) /\ ExitsRight(t)
    BY <1>1, StepFacts DEF RunInv, CurRoot
  <2> QED BY <1>1, <1>3, <2>1, StepFacts, RunFacts
<1>5. PICK g \in Team : g = FindLastPartition(t) /\ Active(g) /\ Root(Start(g)) = root
  BY <1>1, <1>2, <1>4, StepFacts, LastShare
<1>6. /\ pc' \in [Tid -> ThreadPC] /\ pc'[t] \in {"query", "done"}
      /\ \A o \in Team \ {t} : pc'[o] = pc[o]
  <2>1. PICK next \in {"query", "done"} : pc' = [pc EXCEPT ![t] = next]
    BY <1>3 DEF MergeGlobal
  <2> QED BY <1>1, <2>1, StepFacts DEF ThreadPC
<1>7. /\ Moves(t, root) /\ ~Passed(t, root) /\ Passed(t, root)'
      /\ Querying(t, root)' <=> pc'[t] \in {"query", "query_own"}
  BY <1>1, <1>2, <1>3, <1>4, <1>6, StepFacts, PassFacts
<1>8. pc[t] = "merge" \/ (Left(t) /\ Root(Start(t)) = root)
  BY <1>1, <1>2, <1>4, StepFacts DEF RunInv, CurRoot
<1>9. /\ GlobalInv' /\ QueryInv' /\ root \notin Complete /\ root \notin Complete'
      /\ global' \in [Tid -> GlobalMergeData]
  <2>1. MergeGlobal(t, g, "query", "done")
    BY <1>3, <1>5
  <2> QED BY <1>1, <1>2, <1>5, <1>7, <1>8, <2>1, StepFacts, MergeKept
<1>10. SampleInv' /\ RoundsStep
  BY <1>1, <1>3, <1>7, <1>9, StepFacts, NoSample
<1>11. RunInv(t)'
  BY <1>1, <1>3, <1>4, <1>6, StepFacts, LastRootRun
<1>12. local_except' \in [Tid -> BOOLEAN]
  BY <1>1, <1>3, StepFacts DEF sample_vars
<1> QED BY <1>1, <1>3, <1>6, <1>7, <1>9, <1>10, <1>11, <1>12, StepFacts, RoundKept

LEMMA KeepQueryLast ==
  ASSUME InRound, NEW t \in Tid, QueryLast(t)
  PROVE  RoundInv' /\ RoundsStep
<1>1. RoundStep(t)
  BY DEF RoundStep
<1>2. PICK root \in Vertex : root = CurRoot(t)
  BY <1>1, StepFacts
<1>3. /\ pc[t] = "query" /\ SampleSupernode(t, global[FindLastPartition(t)].sum)
      /\ pc' = [pc EXCEPT ![t] = "done"] /\ UNCHANGED <<pos, from_left, global>>
  BY DEF QueryLast, ThreadAt
<1>4. RunEnd(t) = End(t) /\ (from_left[t] \/ ExitsRight(t)) /\ t \in Holders(root)
  <2>1. Root(End(t) - 1) = CurRoot(t) /\ (from_left[t] \/ ExitsRight(t))
    BY <1>1, <1>3, StepFacts DEF RunInv, CurRoot
  <2> QED BY <1>1, <1>2, <2>1, StepFacts, RunFacts
<1>5. PICK g \in Team : g = FindLastPartition(t) /\ Active(g) /\ Root(Start(g)) = root
  BY <1>1, <1>2, <1>4, StepFacts, LastShare
<1>6. pc' \in [Tid -> ThreadPC] /\ pc'[t] = "done" /\ \A o \in Team \ {t} : pc'[o] = pc[o]
  BY <1>1, <1>3, StepFacts DEF ThreadPC
<1>7. /\ Root(pos[t])' = Root(pos[t]) /\ Left(t)' = Left(t) /\ Root(Start(t))' = Root(Start(t))
      /\ Root(pos[t]) = root
  <2>1. Root(pos[t])' = Root(pos[t]) /\ Root(pos[t]) = root
    BY <1>1, <1>2, <1>3, StepFacts DEF Root, CurRoot
  <2> QED BY <1>1, <2>1, StepFacts, SameOrder
<1>8. \A x : Passed(t, x)' <=> Passed(t, x)
  BY <1>3, <1>6, <1>7 DEF Passed
<1>9. \A x : Announced(t, x)' <=> Announced(t, x)
  BY <1>3, <1>6, <1>7, <1>8 DEF Announced
<1>10. (\A x : Querying(t, x) <=> x = root) /\ (\A x : ~Querying(t, x)')
  BY <1>3, <1>6, <1>7 DEF Querying
<1>11. Moves(t, root)
  BY <1>1, <1>3, <1>6, <1>8, <1>9, <1>10, StepFacts DEF Moves
<1>12. /\ GlobalInv' /\ QueryInv' /\ root \notin Complete /\ root \in Complete' /\ AllPassed(root)
  BY <1>1, <1>3, <1>4, <1>8, <1>9, <1>10, <1>11, StepFacts, QueryKept
<1>13. cur_round < NumSamples => global[g].sum = Members(root)
  <2>1. global[g] = Global(root)
    BY <1>1, <1>5, StepFacts DEF GlobalInv
  <2> QED BY <1>1, <1>12, <2>1, StepFacts, GlobalTyped
<1>14. SampleInv' /\ RoundsStep /\ local_except' \in [Tid -> BOOLEAN]
  <2>1. Holders(root) # {} /\ SampleSupernode(t, global[g].sum)
    BY <1>3, <1>4, <1>5
  <2> QED BY <1>1, <1>11, <1>12, <1>13, <2>1, StepFacts, SampleKept
<1>15. RunInv(t)'
  BY <1>1, <1>3, <1>4, <1>6, StepFacts, LastRootRun
<1> QED BY <1>1, <1>3, <1>6, <1>11, <1>12, <1>14, <1>15, StepFacts, RoundKept

-----------------------------------------------------------------------------
(* The steps between rounds *)

LEMMA NoGlobalTyped == NoGlobal \in GlobalMergeData
  BY DEF NoGlobal, GlobalMergeData, Unset

LEMMA RoundInit == Init => RoundInv /\ Rounds!RInit
<1> SUFFICES ASSUME Init PROVE RoundInv /\ Rounds!RInit
  OBVIOUS
<1>1. RoundType
  <2>1. 0 \in 0 .. N /\ "done" \in ThreadPC
    BY VertexFacts DEF ThreadPC
  <2>2. pos \in [Tid -> 0 .. N] /\ pc \in [Tid -> ThreadPC] /\ global \in [Tid -> GlobalMergeData]
    BY <2>1, NoGlobalTyped DEF Init, Zeros
  <2> QED BY <2>2 DEF Init, RoundType
<1>2. RoundInv
  BY <1>1 DEF RoundInv, Init
<1>3. Rounds!RInit
  BY DEF Init, Rounds!RInit
<1> QED BY <1>2, <1>3

\* Steps of create_merge_instructions and steps that change nothing.
LEMMA RoundIdle ==
  ASSUME RoundInv, UNCHANGED <<query_vars, round_vars>>,
         phase \notin {"between", "round"}, phase' \notin {"between", "round"}
  PROVE  RoundInv' /\ RoundsStep
<1>1. UNCHANGED <<num_threads, cur_round, lab, thrown, pos, from_left, pc, global, local_except, sampled, taken>>
  BY DEF query_vars, round_vars, sample_vars
<1>2. RoundType'
  BY <1>1 DEF RoundInv, RoundType
<1>3. RoundInv'
  BY <1>1, <1>2 DEF RoundInv
<1>4. UNCHANGED Rounds!rvars
  BY <1>1 DEF Rounds!rvars
<1> QED BY <1>3, <1>4 DEF RoundsStep

LEMMA RoundStutter ==
  ASSUME RoundInv, UNCHANGED vars
  PROVE  RoundInv' /\ RoundsStep
<1>1. UNCHANGED <<num_threads, cur_round, lab, thrown, phase, merge_instr, cc_prefix, range_sums,
                  local_cc_idx, pos, from_left, pc, global, local_except, sampled, taken>>
  BY DEF vars, query_vars, sort_vars, round_vars, sample_vars
<1>2. UNCHANGED Rounds!rvars
  BY <1>1 DEF Rounds!rvars
<1>3. UNCHANGED <<num_threads, lab, merge_instr>>
  BY <1>1
<1>4. RoundType'
  BY <1>1 DEF RoundInv, RoundType
<1>5. \A t, x : (Passed(t, x)' <=> Passed(t, x)) /\ (Querying(t, x)' <=> Querying(t, x))
  <2>1. \A t : Root(pos[t])' = Root(pos[t])
    BY <1>1 DEF Root
  <2> QED BY <1>1, <1>3, <2>1, SameOrder DEF Passed, Querying
<1>6. \A t, x : Announced(t, x)' <=> Announced(t, x)
  <2>1. \A t : Root(pos[t])' = Root(pos[t])
    BY <1>1 DEF Root
  <2> QED BY <1>1, <1>3, <1>5, <2>1, SameOrder DEF Announced
<1>7. \A x : AllPassed(x)' <=> AllPassed(x)
  BY <1>3, <1>5, SameOrder DEF AllPassed
<1>8. Complete' = Complete
  BY <1>3, <1>5, <1>7, SameOrder DEF Complete
<1>9. \A x : Global(x)' = Global(x)
  <2>1. ASSUME NEW x
        PROVE  {q \in Vertex : Root(q) = x /\ Passed(Owner(q), x)}'
                 = {q \in Vertex : Root(q) = x /\ Passed(Owner(q), x)}
    <3>1. \A q : Passed(Owner(q), x)' <=> Passed(Owner(q), x)
      <4>1. \A q : Owner(q)' = Owner(q) /\ Root(q)' = Root(q)
        BY <1>3, SameOrder
      <4> QED BY <1>5, <4>1 DEF Passed
    <3> QED BY <1>3, <3>1, SameOrder
  <2>2. \A x : {t \in Holders(x) : Passed(t, x)}' = {t \in Holders(x) : Passed(t, x)}
    BY <1>3, <1>5, SameOrder
  <2>3. \A x : (\E t \in Holders(x) : Announced(t, x))' <=> \E t \in Holders(x) : Announced(t, x)
    BY <1>3, <1>6, SameOrder
  <2> QED BY <1>1, <1>3, <2>1, <2>2, <2>3, SameOrder DEF Global
<1>10. GlobalInv' <=> GlobalInv
  BY <1>1, <1>3, <1>9, SameOrder DEF GlobalInv
<1>11. QueryInv => QueryInv'
  BY <1>3, <1>5, <1>7, SameOrder DEF QueryInv
<1>12. SampleInv' <=> SampleInv
  <2>1. Except' <=> Except
    BY <1>1, SameOrder DEF Except
  <2> QED BY <1>1, <1>3, <1>8, <2>1, SameOrder DEF SampleInv
<1>13. (\A t \in Team : RunInv(t)) => (\A t \in Team : RunInv(t))'
  BY <1>1, <1>3, RunOthers, SameOrder
<1> QED BY <1>1, <1>2, <1>4, <1>10, <1>11, <1>12, <1>13 DEF RoundInv, RoundsStep

LEMMA RoundCreate ==
  ASSUME SortInv, SortInv', RoundInv, CreateMergeInstructions
  PROVE  RoundInv' /\ RoundsStep
<1>1. /\ phase = "between" /\ phase' \in {"capture", "undefined"}
      /\ ~thrown /\ cur_round < NumSamples /\ cur_round' = cur_round + 1
      /\ lab' \in Labelings[cur_round'] /\ UNCHANGED <<num_threads, merge_instr, round_vars, thrown>>
  BY DEF CreateMergeInstructions, Advance
<1>2. /\ UNCHANGED <<pos, from_left, pc, global, local_except, sampled, taken>>
      /\ sampled = {} /\ taken = 0
  BY <1>1 DEF round_vars, sample_vars, RoundInv
<1>3. cur_round' \in Nat /\ NumSamples \in Nat /\ cur_round' # 0
  <2>1. cur_round \in 0 .. NumSamples /\ cur_round' \in 0 .. NumSamples /\ NumSamples \in Nat
    BY LabelAssumption DEF SortInv, SortType
  <2> QED BY <1>1, <2>1
<1>4. RoundType'
  BY <1>1, <1>2 DEF RoundInv, RoundType
<1>5. RoundInv'
  BY <1>1, <1>2, <1>3, <1>4 DEF RoundInv
<1> DEFINE Sup == {{x \in Vertex : lab[x] = lab[v]} : v \in Vertex}
<1>6. /\ (IF phase = "between" \/ cur_round = 0 THEN {} ELSE Sup \ sampled) = {}
      /\ (IF phase = "between" \/ cur_round = 0 THEN {} ELSE Sup \ sampled)' = Sup'
  BY <1>1, <1>2, <1>3
<1>7. Rounds!BeginRound
  <2>1. Sup' = Rounds!Supernodes(lab')
    BY DEF Rounds!Supernodes
  <2>2. \E labels \in Labelings[cur_round'] :
          (IF phase = "between" \/ cur_round = 0 THEN {} ELSE Sup \ sampled)' = Rounds!Supernodes(labels)
    BY <1>1, <1>6, <2>1
  <2> QED BY <1>1, <1>2, <1>6, <2>2 DEF Rounds!BeginRound
<1> QED BY <1>5, <1>7 DEF RoundsStep, Rounds!RNext

LEMMA RoundNewQuery ==
  ASSUME RoundInv, NewQuery
  PROVE  RoundInv' /\ RoundsStep
<1>1. /\ phase = "between" /\ phase' = "between" /\ cur_round' = 0 /\ thrown' = FALSE
      /\ global' = [t \in Tid |-> NoGlobal]
      /\ UNCHANGED <<pos, from_left, pc, local_except, sampled, taken>>
  BY DEF NewQuery, sample_vars
<1>2. RoundType'
  BY <1>1, NoGlobalTyped DEF RoundInv, RoundType
<1>3. RoundInv'
  BY <1>1, <1>2 DEF RoundInv
<1>4. Rounds!NewQuery
  BY <1>1 DEF Rounds!NewQuery
<1> QED BY <1>3, <1>4 DEF RoundsStep, Rounds!RNext

\* No thread has passed a supernode, and the cleared globals say so.
LEMMA RoundBegin ==
  ASSUME SharesRight, SortInv, SortInv', RoundInv, BeginRound
  PROVE  RoundInv' /\ RoundsStep
<1>1. /\ UNCHANGED <<num_threads, cur_round, lab, thrown, merge_instr, local_except, sampled, taken>>
      /\ phase = "begin" /\ phase' = "round" /\ num_threads \in ThreadCounts
  <2>1. num_threads \in ThreadCounts
    BY DEF SortInv, SortType
  <2>2. \A t \in Team : EdgeReads(t) \subseteq Vertex
    BY <2>1, EdgeReadsInside
  <2> QED BY <2>1, <2>2 DEF BeginRound, Advance, query_vars, sample_vars
<1>2. UNCHANGED <<num_threads, lab, merge_instr>>
  BY <1>1
<1>3. /\ global' = [t \in Tid |-> NoGlobal]
      /\ pos' = [t \in Tid |-> IF t \in Team THEN Start(t) ELSE 0]
      /\ pc' = [t \in Tid |-> IF t \in Team THEN "run" ELSE "done"]
      /\ from_left' = [t \in Tid |-> t \in Team /\ phase' = "round" /\ Start(t) > 0
                                     /\ Root(Start(t) - 1) = Root(Start(t))]
  BY DEF BeginRound, ClearGlobals
<1>4. \A t \in Team : t \in Tid /\ Start(t) \in Share(t) /\ Start(t) \in Vertex /\ Start(t) \in 0 .. N
  BY <1>1, TeamFacts, ShareFacts, OwnerOrder, VertexFacts DEF Vertex
<1>5. \A t \in Team : /\ pos'[t] = Start(t) /\ pc'[t] = "run" /\ from_left'[t] \in BOOLEAN
                      /\ (from_left'[t] <=> Left(t))
  BY <1>1, <1>3, <1>4 DEF Left
<1>6. RoundType'
  <2>1. 0 \in 0 .. N /\ "done" \in ThreadPC /\ "run" \in ThreadPC
    BY VertexFacts DEF ThreadPC
  <2>2. pos' \in [Tid -> 0 .. N]
    BY <1>3, <1>4, <2>1
  <2>3. pc' \in [Tid -> ThreadPC] /\ global' \in [Tid -> GlobalMergeData] /\ from_left' \in [Tid -> BOOLEAN]
    BY <1>3, <2>1, NoGlobalTyped
  <2> QED BY <1>1, <2>2, <2>3 DEF RoundInv, RoundType
<1>7. /\ Team' = Team /\ \A t : Start(t)' = Start(t) /\ Share(t)' = Share(t) /\ Left(t)' = Left(t)
      /\ \A x : Holders(x)' = Holders(x) /\ Holders(x) \subseteq Team
  BY <1>2, SameOrder DEF Holders
<1>8. ASSUME NEW t \in Team PROVE RunInv(t)'
  BY <1>4, <1>5, <1>7 DEF RunInv
<1>9. ASSUME NEW x \in Vertex, NEW t \in Holders(x)
      PROVE  ~Passed(t, x)' /\ ~Announced(t, x)' /\ ~Querying(t, x)'
  <2>1. t \in Team /\ Start(t) \in Vertex /\ x \in Nat
    BY <1>4, <1>7, VertexFacts
  <2>2. PICK p \in Share(t) : Root(p) = x
    BY DEF Holders
  <2>3. p \in Vertex /\ Start(t) <= p
    BY <1>1, <2>1, ShareFacts DEF Share
  <2>4. Root(Start(t)) <= x /\ Root(Start(t)) \in Nat
    BY <1>1, <2>1, <2>2, <2>3, Sorted, VertexFacts
  <2>5. Root(pos[t])' = Root(Start(t))
    BY <1>1, <1>5, <2>1 DEF Root
  <2>6. ~Passed(t, x)'
    BY <1>5, <2>1, <2>4, <2>5 DEF Passed
  <2> QED BY <1>5, <2>1, <2>6 DEF Announced, Querying
<1>10. Complete' = {}
  BY <1>7, <1>9 DEF Complete, AllPassed
<1>11. QueryInv'
  BY <1>7, <1>9 DEF QueryInv
<1>12. SampleInv'
  <2>1. sampled = {} /\ taken = 0 /\ \A t \in Tid : ~local_except[t]
    BY <1>1 DEF RoundInv
  <2>2. Cardinality({}) = 0
    BY FS_EmptySet
  <2> QED BY <1>1, <1>10, <2>1, <2>2 DEF SampleInv
<1>13. ASSUME NEW x \in Vertex PROVE Global(x)' = NoGlobal
  <2>1. {t \in Holders(x) : Passed(t, x)}' = {}
    BY <1>7, <1>9
  <2>2. ~(\E t \in Holders(x) : Announced(t, x))'
    BY <1>7, <1>9
  <2>3. {q \in Vertex : Root(q) = x /\ Passed(Owner(q), x)}' = {}
    <3>1. ASSUME NEW q \in Vertex, Root(q)' = x PROVE ~Passed(Owner(q), x)'
      <4>1. Owner(q)' = Owner(q) /\ Root(q) = x
        BY <1>2, <3>1, SameOrder
      <4>2. Owner(q) \in Holders(x)
        BY <1>1, <4>1, OwnerFacts DEF Holders
      <4> QED BY <1>9, <4>1, <4>2 DEF Passed
    <3> QED BY <3>1
  <2>4. Cardinality({}) = 0
    BY FS_EmptySet
  <2> QED BY <2>1, <2>2, <2>3, <2>4 DEF Global, NoGlobal
<1>14. GlobalInv'
  <2>1. \A g \in Tid : global'[g] = NoGlobal
    BY <1>3
  <2>2. NoGlobal' = NoGlobal
    BY DEF NoGlobal
  <2> QED BY <1>13, <2>1, <2>2 DEF GlobalInv
<1>15. RoundInv'
  BY <1>1, <1>6, <1>7, <1>8, <1>11, <1>12, <1>14 DEF RoundInv
<1>16. UNCHANGED Rounds!rvars
  BY <1>1 DEF Rounds!rvars
<1> QED BY <1>15, <1>16 DEF RoundsStep

\* When all threads are done, all supernodes are complete.
LEMMA AllComplete ==
  ASSUME InRound, \A t \in Team : pc[t] = "done"
  PROVE  Complete = {root \in Vertex : Holders(root) # {}} /\ Complete # {}
<1>1. SharesRight /\ SortInv /\ phase = "round" /\ num_threads \in ThreadCounts /\ \A t \in Team : RunInv(t)
  BY DEF InRound, RoundInv, SortInv, SortType
<1>2. ASSUME NEW root \in Vertex, NEW t \in Holders(root)
      PROVE  Passed(t, root) /\ ~Querying(t, root)
  <2>1. t \in Team /\ root \in Nat
    BY VertexFacts DEF Holders
  <2>2. PICK p \in Share(t) : Root(p) = root
    BY DEF Holders
  <2>3. p \in Vertex /\ End(t) - 1 \in Vertex /\ p <= End(t) - 1
    BY <1>1, <2>1, ShareFacts, OwnerOrder DEF Share
  <2>4. root <= Root(End(t) - 1) /\ Root(End(t) - 1) \in Nat /\ Root(End(t) - 1) = Root(pos[t])
    BY <1>1, <2>1, <2>2, <2>3, Sorted, VertexFacts DEF RunInv
  <2> QED BY <2>1, <2>4 DEF Passed, Querying
<1>3. Complete = {root \in Vertex : Holders(root) # {}}
  BY <1>2 DEF Complete, AllPassed
<1>4. Root(0) \in Vertex /\ Holders(Root(0)) # {}
  BY <1>1, VertexFacts, Sorted, OwnerFacts DEF Holders
<1> QED BY <1>3, <1>4

LEMMA RoundEnd ==
  ASSUME SharesRight, IndexRight, SortInv, RoundInv, EndRound
  PROVE  RoundInv' /\ RoundsStep
<1>1. /\ phase = "round" /\ phase' = "between" /\ \A t \in Team : pc[t] = "done"
      /\ thrown' = Except /\ pos' = Zeros(Tid) /\ from_left' = [t \in Tid |-> FALSE]
      /\ local_except' = [t \in Tid |-> FALSE] /\ sampled' = {} /\ taken' = 0
      /\ UNCHANGED <<pc, cur_round, global>>
  BY DEF EndRound, Advance, JoinThreads
<1>2. Complete = {root \in Vertex : Holders(root) # {}} /\ Complete # {}
  BY <1>1, AllComplete DEF InRound
<1>3. SampleInv /\ ~thrown /\ cur_round > 0 /\ RoundType /\ cur_round \in 0 .. NumSamples /\ NumSamples \in Nat
  BY <1>1, LabelAssumption DEF RoundInv, SortInv, SortType
<1>4. RoundType'
  <2>1. 0 \in 0 .. N /\ thrown' \in BOOLEAN
    BY <1>1, VertexFacts DEF Except
  <2> QED BY <1>1, <1>3, <2>1 DEF RoundType, Zeros
<1>5. RoundInv'
  BY <1>1, <1>4 DEF RoundInv
<1> DEFINE Sup == {{x \in Vertex : lab[x] = lab[v]} : v \in Vertex}
<1>6. Sup = {Members(root) : root \in Complete}
  BY <1>1, <1>2, TodoFacts
<1>7. /\ (IF phase = "between" \/ cur_round = 0 THEN {} ELSE Sup \ sampled) = Sup \ sampled
      /\ (IF phase = "between" \/ cur_round = 0 THEN {} ELSE Sup \ sampled)' = {}
  BY <1>1, <1>3
<1>8. CASE cur_round < NumSamples
  <2>1. sampled = {Members(root) : root \in Complete} /\ \A t \in Tid : ~local_except[t]
    BY <1>3, <1>8 DEF SampleInv
  <2>2. Sup \ sampled = {}
    BY <1>6, <2>1
  <2>3. thrown' = FALSE
    <3>1. Team \subseteq Tid
      BY TeamFacts DEF SortInv, SortType
    <3> QED BY <1>1, <2>1, <3>1 DEF Except
  <2>4. thrown = FALSE
    BY <1>3 DEF RoundType
  <2>5. Rounds!EndRound
    BY <1>1, <1>7, <2>2, <2>3, <2>4 DEF Rounds!EndRound
  <2> QED BY <1>5, <2>5 DEF RoundsStep, Rounds!RNext
<1>9. CASE ~(cur_round < NumSamples)
  <2>1. Except /\ cur_round = NumSamples
    BY <1>2, <1>3, <1>9 DEF SampleInv
  <2>2. thrown' = TRUE
    BY <1>1, <2>1 DEF Except
  <2>3. Rounds!Throw
    BY <1>1, <1>7, <2>1, <2>2 DEF Rounds!Throw
  <2> QED BY <1>5, <2>3 DEF RoundsStep, Rounds!RNext
<1> QED BY <1>8, <1>9

-----------------------------------------------------------------------------
(* Theorems *)

LEMMA RoundNext ==
  ASSUME SharesRight, IndexRight, SortInv, SortInv', RoundInv, [Next]_vars
  PROVE  RoundInv' /\ RoundsStep
<1>0. phase' # "undefined"
  BY DEF SortInv, NoWildAccess
<1>1. CASE UNCHANGED vars
  BY <1>1, RoundStutter
<1>2. ASSUME NEW t \in Tid, RoundStep(t) PROVE RoundInv' /\ RoundsStep
  <2>1. phase = "round"
    BY <1>2 DEF RoundStep, InnerLocal, InnerGlobal, QueryOwn, LastLocal, SetNeeded, LastGlobal,
                QueryLast, InnerRun, LastRun, ThreadAt
  <2>2. InRound
    BY <2>1 DEF InRound
  <2> QED BY <1>2, <2>2, KeepInnerLocal, KeepInnerGlobal, KeepQueryOwn, KeepLastLocal,
             KeepSetNeeded, KeepLastGlobal, KeepQueryLast DEF RoundStep
<1>3. ASSUME NEW t \in Tid, CaptureStep(t) PROVE RoundInv' /\ RoundsStep
  <2>1. phase = "capture" /\ phase' = "capture" /\ UNCHANGED <<query_vars, round_vars>>
    BY <1>3 DEF CaptureStep, Capture
  <2> QED BY <2>1, RoundIdle
<1>4. CASE Barrier \/ PrefixSum \/ RangeSums \/ FinishSums \/ WriteInstructions
  <2>1. /\ phase \in {"capture", "sum", "range", "finish", "write"}
        /\ phase' \in {"sum", "range", "finish", "write", "begin", "undefined"}
        /\ UNCHANGED <<query_vars, round_vars>>
    BY <1>4 DEF Barrier, PrefixSum, RangeSums, FinishSums, WriteInstructions, Advance
  <2> QED BY <2>1, RoundIdle
<1>5. CASE TeamStep
  BY <1>4, <1>5, RoundBegin, RoundEnd DEF TeamStep
<1> QED BY <1>1, <1>2, <1>3, <1>5, RoundCreate, RoundNewQuery DEF Next, ThreadStep

\* The invariant of a round: each thread goes through its share supernode by
\* supernode, each global holds the parts of the threads that have passed, and
\* what is sampled are the supernodes that all their threads have passed.
THEOREM RoundInvariant ==
  ASSUME SharesRight, IndexRight
  PROVE  Spec => []RoundInv
<1>1. Init => RoundInv
  BY RoundInit
<1>2. SortInv /\ SortInv' /\ RoundInv /\ [Next]_vars => RoundInv'
  BY RoundNext
<1> QED BY <1>1, <1>2, SortInvariant, PTL DEF Spec

\* However the threads of a round interleave, merge_global never counts more
\* merges than the first thread of the supernode announced, and when it has
\* counted them all, the global holds exactly the vertices of one supernode.
THEOREM GlobalsAlwaysComplete ==
  ASSUME SharesRight, IndexRight
  PROVE  Spec => []GlobalsComplete
<1>1. ASSUME SortInv, RoundInv PROVE GlobalsComplete
  <2>1. SUFFICES ASSUME phase = "round", NEW g \in Team, global[g].needed # Unset
                 PROVE  /\ global[g].done <= global[g].needed
                        /\ global[g].done = global[g].needed /\ cur_round < NumSamples =>
                             global[g].sum \in {{x \in Vertex : lab[x] = lab[v]} : v \in Vertex}
    BY DEF GlobalsComplete
  <2>2. num_threads \in ThreadCounts /\ GlobalInv
    BY <1>1, <2>1 DEF SortInv, SortType, RoundInv
  <2>3. g \in Tid /\ Start(g) \in Vertex
    BY <2>2, TeamFacts, OwnerOrder
  <2>4. Active(g)
    BY <2>1, <2>2, <2>3 DEF GlobalInv, NoGlobal
  <2>5. PICK root \in Vertex : root = Root(Start(g))
    BY <1>1, <2>1, <2>3, Sorted
  <2>6. global[g] = Global(root)
    BY <2>2, <2>3, <2>4, <2>5 DEF GlobalInv
  <2>7. Global(root).needed = Cardinality(Holders(root))
    BY <2>1, <2>6 DEF Global
  <2>8. Global(root).done <= Cardinality(Holders(root)) /\ Cardinality(Holders(root)) \in Nat
    BY <1>1, <2>1, GlobalTyped
  <2>9. ASSUME global[g].done = global[g].needed, cur_round < NumSamples
        PROVE  global[g].sum \in {{x \in Vertex : lab[x] = lab[v]} : v \in Vertex}
    <3>1. AllPassed(root)
      BY <1>1, <2>1, <2>6, <2>7, <2>8, <2>9, GlobalTyped
    <3>2. global[g].sum = Members(root)
      BY <1>1, <2>1, <2>6, <2>9, <3>1, GlobalTyped
    <3>3. merge_instr[Start(g)].child \in Vertex /\ lab[merge_instr[Start(g)].child] = root
      BY <1>1, <2>1, <2>3, <2>5 DEF SortInv, SortType, InstructionsRight, MergeInstr, Root
    <3>4. global[g].sum = {x \in Vertex : lab[x] = lab[merge_instr[Start(g)].child]}
      BY <3>2, <3>3 DEF Members
    <3> QED BY <3>3, <3>4
  <2> QED BY <2>6, <2>7, <2>8, <2>9
<1> QED BY <1>1, SortInvariant, RoundInvariant, PTL

\* The rounds of the threads are those of BoruvkaRounds: each samples every
\* supernode once and whole, or ends with the exception of sketches that have no
\* samples left (the safety part of RoundsImplemented).
THEOREM RoundsRefined ==
  ASSUME SharesRight, IndexRight
  PROVE  Spec => Rounds!RInit /\ [][Rounds!RNext]_(Rounds!rvars)
<1>1. Init => Rounds!RInit
  BY RoundInit
<1>2. SortInv /\ SortInv' /\ RoundInv /\ [Next]_vars => [Rounds!RNext]_(Rounds!rvars)
  BY RoundNext DEF RoundsStep
<1> QED BY <1>1, <1>2, SortInvariant, RoundInvariant, PTL DEF Spec

\* The two arrays of create_merge_instructions that SortInv does not bound.
SumsBounded ==
  /\ range_sums \in [Tid -> 0 .. N]
  /\ local_cc_idx \in [Tid -> [Vertex -> 0 .. N \cup {None}]]

LEMMA PrefixBounded ==
  ASSUME SortInv
  PROVE  cc_prefix \in [Vertex -> 0 .. N]
<1>1. \A S \in SUBSET Vertex : Cardinality(S) \in 0 .. N
  BY Counting, VertexFacts
<1>2. \A root : Placed(root) \in SUBSET Vertex /\ Labelled({root}) \in SUBSET Vertex
  BY DEF Placed, Labelled
<1>3. \A S : Labelled(S) \in SUBSET Vertex
  BY DEF Labelled
<1>4. 0 \in 0 .. N
  BY VertexFacts
<1>5. ASSUME NEW i \in Vertex PROVE cc_prefix[i] \in 0 .. N
  <2>1. CASE phase \notin Sorting
    BY <1>4, <2>1 DEF SortInv, Zeros
  <2>2. CASE phase \in {"capture", "sum"}
    BY <1>1, <1>2, <2>2 DEF SortInv, Counts
  <2>3. CASE phase \in {"range", "finish", "write"}
    BY <1>1, <1>3, <2>3 DEF SortInv, Counts
  <2> QED BY <2>1, <2>2, <2>3 DEF Sorting
<1> QED BY <1>5 DEF SortInv, SortType

LEMMA BoundedNext ==
  ASSUME SortInv, SortInv', SumsBounded, [Next]_vars
  PROVE  SumsBounded'
<1>1. ASSUME UNCHANGED <<range_sums, local_cc_idx>> PROVE SumsBounded'
  BY <1>1 DEF SumsBounded
<1>2. ASSUME NEW t \in Tid, CaptureStep(t) PROVE SumsBounded'
  <2>1. PICK root \in Vertex : Capture(t, root)
    BY <1>2 DEF CaptureStep
  <2>2. cc_prefix[root] \in 0 .. N
    BY PrefixBounded
  <2> QED BY <2>1, <2>2 DEF Capture, Captured, SumsBounded
<1>3. CASE RangeSums
  <2>1. /\ phase' = "finish" /\ UNCHANGED <<local_cc_idx, num_threads>>
        /\ \A t \in Tid \ Team : range_sums'[t] = range_sums[t]
        /\ DOMAIN range_sums' = Tid /\ range_sums' = [t \in Tid |-> range_sums'[t]]
    BY <1>3 DEF RangeSums, Advance, query_vars
  <2>2. \A S \in SUBSET Vertex : Cardinality(S) \in 0 .. N
    BY Counting, VertexFacts
  <2>3. \A t \in Team' : range_sums'[t] = Cardinality(Labelled(0 .. Start(t) - 1))'
    BY <2>1 DEF SortInv, Counts
  <2>4. \A t : Labelled(0 .. Start(t) - 1)' \in SUBSET Vertex
    BY DEF Labelled
  <2>5. Team' = Team
    BY <2>1 DEF Team
  <2>6. \A t \in Tid : range_sums'[t] \in 0 .. N
    BY <2>1, <2>2, <2>3, <2>4, <2>5 DEF SumsBounded
  <2> QED BY <2>1, <2>6 DEF SumsBounded
<1>4. CASE WriteInstructions
  <2>1. range_sums' = Zeros(Tid) /\ local_cc_idx' = NoCapture /\ 0 \in 0 .. N
    BY <1>4, VertexFacts DEF WriteInstructions
  <2> QED BY <2>1 DEF SumsBounded, Zeros, NoCapture
<1>5. ASSUME NEW t \in Tid, RoundStep(t) PROVE UNCHANGED sort_vars
  BY <1>5 DEF RoundStep, InnerLocal, InnerGlobal, QueryOwn, LastLocal, SetNeeded, LastGlobal, QueryLast
<1>6. CASE TeamStep \/ CreateMergeInstructions \/ NewQuery \/ UNCHANGED vars
  BY <1>1, <1>3, <1>4, <1>6 DEF TeamStep, Barrier, PrefixSum, FinishSums, BeginRound, EndRound,
       CreateMergeInstructions, NewQuery, vars, sort_vars
<1> QED BY <1>1, <1>2, <1>5, <1>6 DEF Next, ThreadStep, sort_vars

\* The variables of the rounds keep their types; no counter of the sort exceeds
\* the number of vertices.
THEOREM TypeCorrect ==
  ASSUME SharesRight, IndexRight
  PROVE  Spec => []TypeOK
<1>1. Init => SumsBounded
  <2>1. 0 \in 0 .. N
    BY VertexFacts
  <2> QED BY <2>1 DEF Init, SumsBounded, Zeros, NoCapture
<1>2. SortInv /\ SortInv' /\ SumsBounded /\ [Next]_vars => SumsBounded'
  BY BoundedNext
<1>3. ASSUME SortInv, RoundInv, SumsBounded PROVE TypeOK
  <2>1. sampled \in SUBSET SUBSET Vertex /\ taken \in 0 .. N
    <3>1. CASE sampled = {} /\ taken = 0
      BY <3>1, VertexFacts
    <3>2. CASE phase = "round" /\ cur_round < NumSamples
      <4>1. sampled = {Members(x) : x \in Complete} /\ taken = Cardinality(sampled)
        BY <1>3, <3>2 DEF RoundInv, SampleInv
      <4>2. Complete \in SUBSET Vertex
        BY DEF Complete
      <4>3. \A x : Members(x) \in SUBSET Vertex
        BY DEF Members
      <4> QED BY <4>1, <4>2, <4>3, SampledFinite
    <3> QED BY <1>3, <3>1, <3>2 DEF RoundInv, SampleInv
  <2> QED BY <1>3, <2>1, PrefixBounded DEF TypeOK, SortInv, SortType, RoundInv, RoundType, SumsBounded
<1> QED BY <1>1, <1>2, <1>3, SortInvariant, RoundInvariant, PTL DEF Spec
=============================================================================
