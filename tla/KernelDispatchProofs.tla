------------------------- MODULE KernelDispatchProofs -------------------------
(***************************************************************************)
(* Proofs about KernelDispatch, for any number of kernels, slots, clusters *)
(* and cores.  A cycle of issue_block2core() is a loop over the clusters;  *)
(* Issued is its loop invariant, and the induction over the clusters is an *)
(* argument about the least cluster at which it fails.  At the end, proofs *)
(* about CompressionPredictor, below which the dispatch goes on unchanged. *)
(***************************************************************************)
EXTENDS CompressionPredictor, FiniteSetTheorems, WellFoundedInduction,
        SequenceTheorems, TLAPS

\* A kernel that was not launched has neither CTAs nor cores.
FreshAreDone == \A k \in Kernels : k > launched => Done(k)

IInv ==
  /\ TypeOK
  /\ CountsMatchCores
  /\ WorkHasSlot
  /\ FreshAreDone

\* The states the loop over the clusters goes through.
IssueState ==
  [left : [Kernels -> 0 .. MaxGrid],
   running : [Kernels -> 0 .. Cardinality(Cores)],
   kernelOf : [Cores -> Kernels \cup {None}],
   ctas : [Cores -> 0 .. MaxCta],
   lastKernel : 0 .. Slots - 1,
   lastCluster : 0 .. Clusters - 1,
   nextCore : [0 .. Clusters - 1 -> 0 .. CoresPer - 1]]

BoundIn(g, k) == {core \in Cores : g.kernelOf[core] = k}

\* The loop invariant: issuing a CTA keeps the counts, and no kernel becomes
\* done or ceases to be; a core that has a kernel keeps it.
KeepsBound(g) == \A core \in Cores :
  kernelOf[core] # None => g.kernelOf[core] = kernelOf[core]

Issued(g) ==
  /\ g \in IssueState
  /\ \A k \in Kernels : g.running[k] = Cardinality(BoundIn(g, k))
  /\ \A core \in Cores : g.kernelOf[core] = None <=> g.ctas[core] = 0
  /\ \A k \in Kernels : g.left[k] = 0 /\ g.running[k] = 0 <=> Done(k)
  /\ KeepsBound(g)

SlotsOf(k) == {n \in DOMAIN slots : slots[n] = k}

-----------------------------------------------------------------------------
\* Every non-empty set of natural numbers has a least element: the intervals
\* up to its elements, below one of them, are ordered by inclusion.
LEMMA LeastNatural ==
  ASSUME NEW T \in SUBSET Nat, T # {}
  PROVE  \E n \in T : \A m \in T : n <= m
<1>1. PICK top \in T : TRUE
  OBVIOUS
<1>2. IsWellFoundedOn(StrictSubsetOrdering(0 .. top), SUBSET (0 .. top))
  <2>1. IsFiniteSet(0 .. top)
    BY FS_Interval
  <2> QED BY <2>1, FS_StrictSubsetOrderingWellFounded, FS_FiniteSubsetsOfFinite
<1>3. PICK M : M = {0 .. m : m \in {k \in T : k <= top}}
  OBVIOUS
<1>4. M # {} /\ M \subseteq SUBSET (0 .. top)
  BY <1>3
<1>5. PICK x \in M :
        \A y \in M : ~(<<y, x>> \in StrictSubsetOrdering(0 .. top))
  BY <1>2, <1>4, WFMin
<1>6. PICK n \in T : n <= top /\ x = 0 .. n
  BY <1>3
<1>7. ASSUME NEW m \in T, m < n PROVE FALSE
  <2>1. 0 .. m \in M
    BY <1>3, <1>6, <1>7
  <2>2. 0 .. m \subseteq 0 .. n /\ n \in 0 .. n /\ n \notin 0 .. m
    BY <1>7
  <2>3. 0 .. m \in SUBSET (0 .. top) /\ 0 .. n \in SUBSET (0 .. top)
    BY <1>6, <1>7
  <2> QED BY <1>5, <1>6, <2>1, <2>2, <2>3 DEF StrictSubsetOrdering
<1> QED BY <1>7

LEMMA MinIsLeast ==
  ASSUME NEW T \in SUBSET Nat, T # {}
  PROVE  Min(T) \in T /\ \A n \in T : Min(T) <= n
BY LeastNatural DEF Min

\* The kernel table has a slot for every turn of a round robin.
LEMMA TurnsType ==
  ASSUME NEW last \in Nat, NEW size \in Nat \ {0}
  PROVE  /\ Turns(last, size) \in Seq(0 .. size - 1)
         /\ Len(Turns(last, size)) = size
BY DEF Turns

LEMMA CoresFinite == IsFiniteSet(Cores)
<1>1. Clusters \in Nat /\ CoresPer \in Nat
  BY DispatchAssumption
<1>2. IsFiniteSet(0 .. Clusters - 1) /\ IsFiniteSet(0 .. CoresPer - 1)
  BY <1>1, FS_Interval
<1> QED BY <1>2, FS_Product DEF Cores

\* select_kernel() returns a slot with CTAs left, or none.
LEMMA SelectHasWork ==
  ASSUME NEW g, g.lastKernel \in 0 .. Slots - 1, Select(g) # None
  PROVE  Select(g) \in 0 .. Slots - 1 /\ HasWork(Select(g), g)
<1>1. PICK turns : turns = Turns(g.lastKernel, Slots)
  OBVIOUS
<1>2. turns \in Seq(0 .. Slots - 1)
  BY <1>1, TurnsType, DispatchAssumption
<1>3. PICK I : I = {i \in 1 .. Len(turns) : HasWork(turns[i], g)}
  OBVIOUS
<1>4. I \in SUBSET Nat /\ Len(turns) \in Nat
  BY <1>2, <1>3
<1>5. I # {} => Min(I) \in I
  BY <1>4, MinIsLeast
<1>6. Select(g) = IF I = {} THEN None ELSE turns[Min(I)]
  <2>1. I # {} => Min(I) # 0
    BY <1>3, <1>5
  <2> QED BY <1>1, <1>3, <2>1 DEF Select, FirstWithWork, SelectInSeq
<1>7. PICK i \in I : Select(g) = turns[i]
  BY <1>5, <1>6
<1>8. i \in 1 .. Len(turns)
  BY <1>3
<1>9. HasWork(turns[i], g)
  BY <1>3
<1>10. turns[i] \in 0 .. Slots - 1
  BY <1>2, <1>8, ElementOfSeq
<1> QED BY <1>7, <1>9, <1>10

\* A cluster issues a CTA to one of its cores that takes it, or none.
LEMMA ClusterIssueCases ==
  ASSUME TypeOK, NEW c \in 0 .. Clusters - 1, NEW g
  PROVE  \/ ClusterIssue(g, c) = g
         \/ \E core \in Cores : /\ Takes(core, g)
                                /\ ClusterIssue(g, c) = Give(core, g)
<1>1. PICK turns : turns = Turns(nextCore[c], CoresPer)
  OBVIOUS
<1>2. turns \in Seq(0 .. CoresPer - 1)
  <2>1. CoresPer \in Nat \ {0}
    BY DispatchAssumption
  <2>2. nextCore[c] \in 0 .. CoresPer - 1
    BY DEF TypeOK
  <2> QED BY <1>1, <2>1, <2>2, TurnsType
<1>3. PICK I : I = {i \in 1 .. Len(turns) : Takes(<<c, turns[i]>>, g)}
  OBVIOUS
<1>4. I \in SUBSET Nat /\ Len(turns) \in Nat
  BY <1>2, <1>3
<1>5. I # {} => Min(I) \in I
  BY <1>4, MinIsLeast
<1>6. I # {} => Min(I) # 0
  BY <1>3, <1>5
<1>7. ClusterIssue(g, c) = IF I = {} THEN g
                           ELSE Give(<<c, turns[Min(I)]>>, g)
  BY <1>1, <1>3, <1>6 DEF ClusterIssue, SelectInSeq
<1>8. ASSUME NEW i \in I PROVE <<c, turns[i]>> \in Cores
  <2>1. i \in 1 .. Len(turns)
    BY <1>3
  <2> QED BY <1>2, <2>1, ElementOfSeq DEF Cores
<1>9. ASSUME NEW i \in I PROVE Takes(<<c, turns[i]>>, g)
  BY <1>3
<1> QED BY <1>5, <1>7, <1>8, <1>9

LEMMA KernelForType ==
  ASSUME TypeOK, NEW g \in IssueState, NEW core \in Cores,
         KernelFor(core, g) # None
  PROVE  /\ KernelFor(core, g) \in Kernels
         /\ g.kernelOf[core] \in {KernelFor(core, g), None}
         /\ g.kernelOf[core] = None =>
              g.ctas[core] = 0 /\ Select(g) \in 0 .. Slots - 1
<1>1. g.kernelOf[core] \in Kernels \cup {None}
  BY DEF IssueState
<1>2. CASE g.kernelOf[core] # None
  BY <1>1, <1>2 DEF KernelFor
<1>3. CASE g.kernelOf[core] = None
  <2>1. g.ctas[core] = 0 /\ Select(g) # None
        /\ KernelFor(core, g) = slots[Select(g)]
    BY <1>3 DEF KernelFor
  <2>2. Select(g) \in 0 .. Slots - 1
    BY <2>1, SelectHasWork DEF IssueState
  <2>3. slots[Select(g)] \in Kernels \cup {None}
    BY <2>2 DEF TypeOK
  <2> QED BY <1>3, <2>1, <2>2, <2>3
<1> QED BY <1>2, <1>3

\* Issuing one CTA preserves the loop invariant.
LEMMA GiveIssued ==
  ASSUME TypeOK, NEW g, Issued(g), NEW core \in Cores, Takes(core, g)
  PROVE  Issued(Give(core, g))
<1>1. PICK k : k = KernelFor(core, g)
  OBVIOUS
<1>2. PICK h : h = Give(core, g)
  OBVIOUS
<1>3. g \in IssueState
  BY DEF Issued
<1>4. /\ k \in Kernels
      /\ g.kernelOf[core] \in {k, None}
      /\ g.kernelOf[core] = None =>
           g.ctas[core] = 0 /\ Select(g) \in 0 .. Slots - 1
  BY <1>1, <1>3, KernelForType DEF Takes
<1>5. g.left[k] > 0 /\ g.ctas[core] < MaxCta
  BY <1>1 DEF Takes
<1>6. /\ h.kernelOf = [g.kernelOf EXCEPT ![core] = k]
      /\ h.left = [g.left EXCEPT ![k] = g.left[k] - 1]
      /\ h.ctas = [g.ctas EXCEPT ![core] = g.ctas[core] + 1]
      /\ h.running = [g.running EXCEPT ![k] =
           IF g.kernelOf[core] = None THEN g.running[k] + 1 ELSE g.running[k]]
  BY <1>1, <1>2, <1>3 DEF Give, IssueState
<1>7. /\ h = [left |-> h.left, running |-> h.running,
              kernelOf |-> h.kernelOf, ctas |-> h.ctas,
              lastKernel |-> h.lastKernel, lastCluster |-> h.lastCluster,
              nextCore |-> h.nextCore]
      /\ h.lastKernel = IF g.kernelOf[core] = None THEN Select(g)
                                                   ELSE g.lastKernel
      /\ h.lastCluster = core[1]
      /\ h.nextCore = [g.nextCore EXCEPT ![core[1]] = core[2]]
  BY <1>1, <1>2, <1>3 DEF Give, IssueState
<1>8. \A j \in Kernels : /\ IsFiniteSet(BoundIn(h, j))
                          /\ h.running[j] = Cardinality(BoundIn(h, j))
                          /\ h.running[j] \in 0 .. Cardinality(Cores)
  <2> SUFFICES ASSUME NEW j \in Kernels
               PROVE  /\ IsFiniteSet(BoundIn(h, j))
                      /\ h.running[j] = Cardinality(BoundIn(h, j))
                      /\ h.running[j] \in 0 .. Cardinality(Cores)
    OBVIOUS
  <2>1. /\ IsFiniteSet(BoundIn(g, j)) /\ IsFiniteSet(BoundIn(h, j))
        /\ Cardinality(BoundIn(h, j)) \in 0 .. Cardinality(Cores)
    <3>1. BoundIn(g, j) \in SUBSET Cores /\ BoundIn(h, j) \in SUBSET Cores
      BY DEF BoundIn
    <3> QED BY <3>1, CoresFinite, FS_Subset, FS_CardinalityType
  <2>2. g.running[j] = Cardinality(BoundIn(g, j))
    BY DEF Issued
  <2>3. g.kernelOf \in [Cores -> Kernels \cup {None}] /\ DOMAIN g.running = Kernels
    BY <1>3 DEF IssueState
  <2>4. k # None
    BY <1>4, DispatchAssumption DEF Kernels
  <2>5. CASE j # k
    <3>1. BoundIn(h, j) = BoundIn(g, j)
      BY <1>4, <1>6, <2>3, <2>5, DispatchAssumption DEF BoundIn, Kernels
    <3>2. h.running[j] = g.running[j]
      BY <1>6, <2>3, <2>5
    <3> QED BY <2>1, <2>2, <3>1, <3>2
  <2>6. CASE j = k
    <3>1. BoundIn(h, k) = BoundIn(g, k) \cup {core}
      BY <1>6, <2>3 DEF BoundIn
    <3>2. core \in BoundIn(g, k) <=> g.kernelOf[core] # None
      BY <1>4, <2>4 DEF BoundIn
    <3>3. Cardinality(BoundIn(h, k)) = IF g.kernelOf[core] = None
            THEN Cardinality(BoundIn(g, k)) + 1 ELSE Cardinality(BoundIn(g, k))
      BY <2>1, <2>6, <3>1, <3>2, FS_AddElement
    <3>4. h.running[k] = IF g.kernelOf[core] = None
                         THEN g.running[k] + 1 ELSE g.running[k]
      BY <1>4, <1>6, <2>3
    <3> QED BY <2>1, <2>2, <2>6, <3>3, <3>4
  <2> QED BY <2>5, <2>6
<1>9. \A c \in Cores : h.kernelOf[c] = None <=> h.ctas[c] = 0
  <2>1. \A c \in Cores : g.kernelOf[c] = None <=> g.ctas[c] = 0
    BY DEF Issued
  <2>2. DOMAIN g.kernelOf = Cores /\ DOMAIN g.ctas = Cores
        /\ g.ctas[core] \in Nat
    BY <1>3 DEF IssueState
  <2>3. h.kernelOf[core] # None /\ h.ctas[core] # 0
    BY <1>4, <1>6, <2>2, DispatchAssumption DEF Kernels
  <2>4. ASSUME NEW c \in Cores, c # core
        PROVE  h.kernelOf[c] = g.kernelOf[c] /\ h.ctas[c] = g.ctas[c]
    BY <1>6, <2>2, <2>4
  <2> QED BY <2>1, <2>3, <2>4
<1>10. \A j \in Kernels : h.left[j] = 0 /\ h.running[j] = 0 <=> Done(j)
  <2> SUFFICES ASSUME NEW j \in Kernels
               PROVE  h.left[j] = 0 /\ h.running[j] = 0 <=> Done(j)
    OBVIOUS
  <2>1. g.left[j] = 0 /\ g.running[j] = 0 <=> Done(j)
    BY DEF Issued
  <2>2. CASE j # k
    BY <1>3, <1>6, <2>1, <2>2 DEF IssueState
  <2>3. CASE j = k
    <3>1. core \in BoundIn(h, k)
      BY <1>3, <1>6 DEF BoundIn, IssueState
    <3>2. h.running[k] # 0
      BY <1>4, <1>8, <3>1, FS_EmptySet
    <3> QED BY <1>5, <2>1, <2>3, <3>2
  <2> QED BY <2>2, <2>3
<1>11. h \in IssueState
  <2>1. h.left \in [Kernels -> 0 .. MaxGrid]
    <3>1. g.left \in [Kernels -> 0 .. MaxGrid] /\ MaxGrid \in Nat
      BY <1>3, DispatchAssumption DEF IssueState
    <3>2. g.left[k] - 1 \in 0 .. MaxGrid
      BY <1>4, <1>5, <3>1
    <3> QED BY <1>6, <3>1, <3>2
  <2>2. h.running \in [Kernels -> 0 .. Cardinality(Cores)]
    BY <1>3, <1>6, <1>8 DEF IssueState
  <2>3. h.kernelOf \in [Cores -> Kernels \cup {None}]
    BY <1>3, <1>4, <1>6 DEF IssueState
  <2>4. h.ctas \in [Cores -> 0 .. MaxCta]
    <3>1. g.ctas \in [Cores -> 0 .. MaxCta] /\ MaxCta \in Nat
      BY <1>3, DispatchAssumption DEF IssueState
    <3>2. g.ctas[core] + 1 \in 0 .. MaxCta
      BY <1>5, <3>1
    <3> QED BY <1>6, <3>1, <3>2
  <2>5. h.lastKernel \in 0 .. Slots - 1
    BY <1>3, <1>4, <1>7 DEF IssueState
  <2>6. core[1] \in 0 .. Clusters - 1 /\ core[2] \in 0 .. CoresPer - 1
    BY DEF Cores
  <2>7. h.nextCore \in [0 .. Clusters - 1 -> 0 .. CoresPer - 1]
    BY <1>3, <1>7, <2>6 DEF IssueState
  <2> QED BY <1>7, <2>1, <2>2, <2>3, <2>4, <2>5, <2>6, <2>7 DEF IssueState
<1>12. KeepsBound(h)
  <2> SUFFICES ASSUME NEW c \in Cores, kernelOf[c] # None
               PROVE  h.kernelOf[c] = kernelOf[c]
    BY DEF KeepsBound
  <2>1. g.kernelOf[c] = kernelOf[c]
    BY DEF Issued, KeepsBound
  <2>2. g.kernelOf \in [Cores -> Kernels \cup {None}]
    BY <1>3 DEF IssueState
  <2> QED BY <1>4, <1>6, <2>1, <2>2
<1> QED BY <1>2, <1>8, <1>9, <1>10, <1>11, <1>12 DEF Issued

\* The recursion over the clusters is well defined: for every n there is a
\* function that satisfies it up to n, and Pass is one for all clusters.
LEMMA PassDef ==
  Pass = [n \in 0 .. Clusters |->
            IF n = 0 THEN Now
            ELSE ClusterIssue(Pass[n - 1], Turns(lastCluster, Clusters)[n])]
<1> DEFINE turns == Turns(lastCluster, Clusters)
           Step(f, n) == IF n = 0 THEN Now ELSE ClusterIssue(f[n - 1], turns[n])
           Solves(f, m) == f = [n \in 0 .. m |-> Step(f, n)]
<1>1. \A m \in Nat : \E f : Solves(f, m)
  <2> SUFFICES ASSUME NEW bad \in Nat, ~ \E f : Solves(f, bad)
               PROVE  FALSE
    OBVIOUS
  <2>1. PICK T : T = {m \in Nat : ~ \E f : Solves(f, m)}
    OBVIOUS
  <2>2. PICK m \in T : \A l \in T : m <= l
    <3>1. T \in SUBSET Nat /\ T # {}
      BY <2>1
    <3> QED BY <3>1, LeastNatural
  <2>3. m \in Nat /\ ~ \E f : Solves(f, m)
    BY <2>1
  <2>4. m # 0
    <3>1. Solves([n \in 0 .. 0 |-> Now], 0)
      OBVIOUS
    <3> QED BY <2>3, <3>1
  <2>5. PICK f : Solves(f, m - 1)
    <3>1. m - 1 \in Nat /\ m - 1 \notin T
      BY <2>2, <2>3, <2>4
    <3> QED BY <2>1, <3>1
  <2>6. PICK e : e = [n \in 0 .. m |-> IF n < m THEN f[n] ELSE Step(f, m)]
    OBVIOUS
  <2>7. ASSUME NEW n \in 0 .. m PROVE e[n] = Step(e, n)
    <3>1. CASE n < m
      <4>1. e[n] = Step(f, n)
        BY <2>3, <2>5, <2>6, <3>1
      <4>2. n # 0 => e[n - 1] = f[n - 1]
        BY <2>3, <2>6, <3>1
      <4> QED BY <4>1, <4>2
    <3>2. CASE n = m
      <4>1. e[n] = Step(f, n)
        BY <2>3, <2>6, <3>2
      <4>2. e[n - 1] = f[n - 1]
        BY <2>3, <2>4, <2>6, <3>2
      <4> QED BY <4>1, <4>2
    <3> QED BY <2>3, <3>1, <3>2
  <2>8. Solves(e, m)
    BY <2>6, <2>7
  <2> QED BY <2>3, <2>8
<1>2. \E f : Solves(f, Clusters)
  BY <1>1, DispatchAssumption
<1> QED BY <1>2 DEF Pass

\* The loop invariant holds after every cluster.
LEMMA PassIssued ==
  ASSUME TypeOK, CountsMatchCores
  PROVE  Issued(Pass[Clusters])
<1> DEFINE turns == Turns(lastCluster, Clusters)
<1>1. Clusters \in Nat \ {0} /\ turns \in Seq(0 .. Clusters - 1)
      /\ Len(turns) = Clusters
  <2>1. Clusters \in Nat \ {0}
    BY DispatchAssumption
  <2>2. lastCluster \in Nat
    BY <2>1 DEF TypeOK
  <2> QED BY <2>1, <2>2, TurnsType
<1>2. /\ Pass[0] = Now
      /\ \A n \in 1 .. Clusters :
           Pass[n] = ClusterIssue(Pass[n - 1], turns[n])
  <2> HIDE DEF turns
  <2>1. Pass = [n \in 0 .. Clusters |->
                  IF n = 0 THEN Now ELSE ClusterIssue(Pass[n - 1], turns[n])]
    BY PassDef DEF turns
  <2> QED BY <1>1, <2>1
<1>3. Issued(Now)
  <2>1. Now \in IssueState
    BY DEF TypeOK, Now, IssueState
  <2>2. \A k \in Kernels : Now.running[k] = Cardinality(BoundIn(Now, k))
    BY DEF CountsMatchCores, Now, BoundIn, Bound
  <2>3. \A core \in Cores : Now.kernelOf[core] = None <=> Now.ctas[core] = 0
    BY DEF CountsMatchCores, Now
  <2>4. \A k \in Kernels : Now.left[k] = 0 /\ Now.running[k] = 0 <=> Done(k)
    BY DEF Now, Done
  <2>5. KeepsBound(Now)
    BY DEF Now, KeepsBound
  <2> QED BY <2>1, <2>2, <2>3, <2>4, <2>5 DEF Issued
<1>4. ASSUME NEW n \in 1 .. Clusters, Issued(Pass[n - 1])
      PROVE  Issued(Pass[n])
  <2>1. turns[n] \in 0 .. Clusters - 1
    BY <1>1, ElementOfSeq
  <2>2. PICK g : g = Pass[n - 1]
    OBVIOUS
  <2>3. PICK c : c = turns[n]
    OBVIOUS
  <2>4. \/ ClusterIssue(g, c) = g
        \/ \E core \in Cores : /\ Takes(core, g)
                               /\ ClusterIssue(g, c) = Give(core, g)
    BY <2>1, <2>3, ClusterIssueCases
  <2>5. Issued(ClusterIssue(g, c))
    BY <1>4, <2>2, <2>4, GiveIssued
  <2> QED BY <1>2, <2>2, <2>3, <2>5
<1>5. ASSUME ~Issued(Pass[Clusters]) PROVE FALSE
  <2>1. PICK T : T = {n \in 0 .. Clusters : ~Issued(Pass[n])}
    OBVIOUS
  <2>2. PICK n \in T : \A m \in T : n <= m
    <3>1. T \in SUBSET Nat /\ T # {}
      BY <1>1, <1>5, <2>1
    <3> QED BY <3>1, LeastNatural
  <2>3. n \in 0 .. Clusters /\ ~Issued(Pass[n])
    BY <2>1
  <2>4. n # 0
    BY <1>2, <1>3, <2>3
  <2>5. n - 1 \in 0 .. Clusters /\ n - 1 \notin T
    BY <1>1, <2>2, <2>3, <2>4
  <2>6. Issued(Pass[n - 1])
    BY <2>1, <2>5
  <2> QED BY <1>1, <1>4, <2>3, <2>4, <2>6
<1> QED BY <1>5

-----------------------------------------------------------------------------
LEMMA SlotCounts ==
  ASSUME NEW S \in SUBSET (0 .. Slots - 1)
  PROVE  /\ IsFiniteSet(S)
         /\ Cardinality(S) = 0 <=> S = {}
         /\ Cardinality(S) = 1 <=> \E n : S = {n}
<1>1. IsFiniteSet(0 .. Slots - 1)
  BY DispatchAssumption, FS_Interval
<1>2. IsFiniteSet(S)
  BY <1>1, FS_Subset
<1> QED BY <1>2, FS_EmptySet, FS_Singleton

\* A kernel with work has one slot, a kernel that is done has none.
LEMMA SlotOf ==
  ASSUME IInv, NEW k \in Kernels
  PROVE  /\ Done(k) => SlotsOf(k) = {}
         /\ ~Done(k) => \E n \in 0 .. Slots - 1 : SlotsOf(k) = {n}
<1>1. SlotsOf(k) \in SUBSET (0 .. Slots - 1)
  BY DEF IInv, TypeOK, SlotsOf
<1>2. Cardinality(SlotsOf(k)) = IF Done(k) THEN 0 ELSE 1
  BY DEF IInv, WorkHasSlot, SlotsOf
<1> QED BY <1>1, <1>2, SlotCounts

LEMMA KernelsNotNone == None \notin Kernels
BY DispatchAssumption DEF Kernels

LEMMA InitInv == Init => IInv
<1> SUFFICES ASSUME Init PROVE IInv
  OBVIOUS
<1>1. Slots - 1 \in Nat /\ Clusters - 1 \in Nat /\ CoresPer - 1 \in Nat
      /\ MaxKernels \in Nat /\ MaxGrid \in Nat /\ MaxCta \in Nat
  BY DispatchAssumption
<1>2. Cardinality(Cores) \in Nat
  BY CoresFinite, FS_CardinalityType
<1>3. TypeOK
  BY <1>1, <1>2 DEF Init, TypeOK
<1>4. \A k \in Kernels : Bound(k) = {}
  BY KernelsNotNone DEF Init, Bound
<1>5. CountsMatchCores
  BY <1>4, FS_EmptySet DEF Init, CountsMatchCores
<1>6. \A k \in Kernels : Done(k)
  BY DEF Init, Done
<1>7. \A k \in Kernels : {n \in DOMAIN slots : slots[n] = k} = {}
  BY KernelsNotNone DEF Init
<1>8. WorkHasSlot
  BY <1>6, <1>7, FS_EmptySet DEF WorkHasSlot
<1> QED BY <1>3, <1>5, <1>6, <1>8 DEF IInv, FreshAreDone

\* launch() puts a fresh kernel into a slot that nobody uses.
LEMMA LaunchSlot ==
  ASSUME IInv, Launch
  PROVE  /\ launched + 1 \in Kernels
         /\ Done(launched + 1)
         /\ \E n \in 0 .. Slots - 1 :
              slots[n] = None /\ slots' = [slots EXCEPT ![n] = launched + 1]
<1>1. launched + 1 \in Kernels
  BY DispatchAssumption DEF IInv, TypeOK, Launch, Kernels
<1>2. Done(launched + 1)
  BY <1>1 DEF IInv, TypeOK, FreshAreDone
<1>3. FreeSlots \in SUBSET (0 .. Slots - 1)
  BY DEF IInv, TypeOK, FreeSlots
<1>4. PICK n \in FreeSlots : slots' = [slots EXCEPT ![n] = launched + 1]
  <2>1. 0 .. Slots - 1 \subseteq Nat
    OBVIOUS
  <2>2. \E i \in FreeSlots : \A j \in FreeSlots : i <= j
    BY <1>3, <2>1, LeastNatural DEF Launch
  <2> QED BY <2>2 DEF Launch
<1>5. slots[n] = None
  <2>1. slots[n] \in Kernels \cup {None}
    BY <1>3 DEF IInv, TypeOK
  <2>2. ASSUME slots[n] \in Kernels PROVE FALSE
    <3>1. Done(slots[n])
      BY <2>2, KernelsNotNone DEF FreeSlots
    <3>2. n \in SlotsOf(slots[n])
      BY <1>3 DEF SlotsOf, FreeSlots
    <3> QED BY <2>2, <3>1, <3>2, SlotOf
  <2> QED BY <2>1, <2>2
<1> QED BY <1>1, <1>2, <1>3, <1>4, <1>5

LEMMA LaunchInv == IInv /\ Launch => IInv'
<1> SUFFICES ASSUME IInv, Launch PROVE IInv'
  OBVIOUS
<1>1. PICK k : k = launched + 1
  OBVIOUS
<1>2. k \in Kernels /\ Done(k) /\ launched' = k
  BY <1>1, LaunchSlot DEF Launch
<1>3. PICK n \in 0 .. Slots - 1 :
        slots[n] = None /\ slots' = [slots EXCEPT ![n] = k]
  BY <1>1, LaunchSlot
<1>4. PICK grid \in 1 .. MaxGrid : left' = [left EXCEPT ![k] = grid]
  BY <1>1 DEF Launch
<1>5. UNCHANGED <<finished, coreVars, turnVars>>
  BY DEF Launch
<1>6. TypeOK
  BY DEF IInv
<1>7. TypeOK'
  <2>1. launched' \in 0 .. MaxKernels
    BY <1>2 DEF Kernels
  <2>2. left' \in [Kernels -> 0 .. MaxGrid]
    <3>1. grid \in 0 .. MaxGrid
      BY DispatchAssumption
    <3>2. left \in [Kernels -> 0 .. MaxGrid]
      BY <1>6 DEF TypeOK
    <3> QED BY <1>4, <3>1, <3>2
  <2>3. slots' \in [0 .. Slots - 1 -> Kernels \cup {None}]
    BY <1>2, <1>3, <1>6 DEF TypeOK
  <2> QED BY <1>5, <1>6, <2>1, <2>2, <2>3 DEF TypeOK, coreVars, turnVars
<1>8. CountsMatchCores'
  BY <1>5 DEF IInv, CountsMatchCores, Bound, coreVars
<1>9. /\ ~Done(k)'
      /\ \A j \in Kernels \ {k} : Done(j)' <=> Done(j)
  BY <1>2, <1>4, <1>5, <1>6 DEF Done, TypeOK, coreVars
<1>10. WorkHasSlot'
  <2> SUFFICES ASSUME NEW j \in Kernels
               PROVE  Cardinality({i \in DOMAIN slots' : slots'[i] = j})
                        = (IF Done(j)' THEN 0 ELSE 1)
    BY DEF WorkHasSlot
  <2>1. CASE j = k
    <3>1. SlotsOf(k) = {}
      BY <1>2, SlotOf
    <3>2. {i \in DOMAIN slots' : slots'[i] = k} = {n}
      BY <1>3, <1>6, <3>1 DEF SlotsOf, TypeOK
    <3> QED BY <1>9, <2>1, <3>2, FS_Singleton
  <2>2. CASE j # k
    <3>1. {i \in DOMAIN slots' : slots'[i] = j} = {i \in DOMAIN slots : slots[i] = j}
      BY <1>3, <1>6, <2>2, KernelsNotNone DEF TypeOK
    <3> QED BY <1>9, <2>2, <3>1 DEF IInv, WorkHasSlot
  <2> QED BY <2>1, <2>2
<1>11. FreshAreDone'
  BY <1>1, <1>2, <1>6, <1>9 DEF IInv, FreshAreDone, TypeOK, Kernels
<1> QED BY <1>7, <1>8, <1>10, <1>11 DEF IInv

LEMMA ReportInv == IInv /\ Report => IInv'
<1> SUFFICES ASSUME IInv, Report PROVE IInv'
  OBVIOUS
<1>1. finished' \in Seq(Kernels)
  BY HeadTailProperties DEF IInv, TypeOK, Report
<1>2. UNCHANGED <<launched, left, slots, coreVars, turnVars>>
  BY DEF Report
<1>3. TypeOK'
  BY <1>1, <1>2 DEF IInv, TypeOK, coreVars, turnVars
<1>4. CountsMatchCores'
  BY <1>2 DEF IInv, CountsMatchCores, Bound, coreVars
<1>5. WorkHasSlot' /\ FreshAreDone'
  BY <1>2 DEF IInv, WorkHasSlot, FreshAreDone, Done, coreVars
<1> QED BY <1>3, <1>4, <1>5 DEF IInv

\* A cycle of issue_block2core() preserves the invariant, by that of its loop.
LEMMA IssueInv == IInv /\ IssueBlocks => IInv'
<1> SUFFICES ASSUME IInv, IssueBlocks PROVE IInv'
  OBVIOUS
<1>1. PICK g : g = Pass[Clusters]
  OBVIOUS
<1>2. /\ left' = g.left /\ running' = g.running
      /\ kernelOf' = g.kernelOf /\ ctas' = g.ctas
      /\ lastKernel' = g.lastKernel /\ lastCluster' = g.lastCluster
      /\ nextCore' = g.nextCore
      /\ UNCHANGED <<launched, slots, finished>>
  BY <1>1 DEF IssueBlocks
<1>3. Issued(g)
  BY <1>1, PassIssued DEF IInv
<1>4. TypeOK'
  BY <1>2, <1>3 DEF IInv, TypeOK, Issued, IssueState
<1>5. CountsMatchCores'
  BY <1>2, <1>3 DEF CountsMatchCores, Issued, Bound, BoundIn
<1>6. \A k \in Kernels : Done(k)' <=> Done(k)
  BY <1>2, <1>3 DEF Issued, Done
<1>7. WorkHasSlot' /\ FreshAreDone'
  BY <1>2, <1>6 DEF IInv, WorkHasSlot, FreshAreDone
<1> QED BY <1>4, <1>5, <1>7 DEF IInv

\* What the end of a core's last CTA does: nothing to the kernel table while
\* the kernel has CTAs or other cores, otherwise the kernel leaves its slot.
LEMMA ExitCases ==
  ASSUME IInv, NEW core \in Cores, CtaExit(core)
  PROVE  /\ kernelOf[core] \in Kernels
         /\ running[kernelOf[core]] >= 1
         /\ IF ctas[core] = 1
              THEN Release(core, kernelOf[core])
              ELSE UNCHANGED <<running, kernelOf, finished, slots>>
<1>1. kernelOf[core] # None /\ kernelOf[core] \in Kernels \cup {None}
  BY DEF IInv, TypeOK, CountsMatchCores, CtaExit
<1>2. core \in Bound(kernelOf[core]) /\ Bound(kernelOf[core]) \in SUBSET Cores
  BY DEF Bound
<1>3. IsFiniteSet(Bound(kernelOf[core]))
  BY <1>2, CoresFinite, FS_Subset
<1>4. Cardinality(Bound(kernelOf[core])) \in Nat \ {0}
  BY <1>2, <1>3, FS_EmptySet, FS_CardinalityType
<1>5. running[kernelOf[core]] >= 1
  BY <1>1, <1>4 DEF IInv, CountsMatchCores
<1> QED BY <1>1, <1>5 DEF CtaExit

LEMMA ExitInv == \A core \in Cores : IInv /\ CtaExit(core) => IInv'
<1> SUFFICES ASSUME NEW core \in Cores, IInv, CtaExit(core) PROVE IInv'
  OBVIOUS
<1>1. PICK k : k = kernelOf[core]
  OBVIOUS
<1>2. /\ k \in Kernels /\ running[k] >= 1
      /\ IF ctas[core] = 1
           THEN Release(core, k)
           ELSE UNCHANGED <<running, kernelOf, finished, slots>>
  BY <1>1, ExitCases
<1>3. /\ ctas[core] > 0
      /\ ctas' = [ctas EXCEPT ![core] = @ - 1]
      /\ UNCHANGED <<launched, left, turnVars>>
  BY DEF CtaExit
<1>4. TypeOK
  BY DEF IInv
<1>5. ctas' \in [Cores -> 0 .. MaxCta]
  <2>1. ctas \in [Cores -> 0 .. MaxCta] /\ MaxCta \in Nat
    BY <1>4, DispatchAssumption DEF TypeOK
  <2>2. ctas[core] - 1 \in 0 .. MaxCta
    BY <1>3, <2>1
  <2> QED BY <1>3, <2>1, <2>2
<1>6. CASE ctas[core] # 1
  <2>1. UNCHANGED <<running, kernelOf, finished, slots>>
    BY <1>2, <1>6
  <2>2. TypeOK'
    BY <1>3, <1>4, <1>5, <2>1 DEF TypeOK, turnVars
  <2>3. CountsMatchCores'
    <3>1. \A c \in Cores : kernelOf'[c] = None <=> ctas'[c] = 0
      BY <1>3, <1>4, <1>6, <2>1 DEF IInv, CountsMatchCores, TypeOK
    <3> QED BY <2>1, <3>1 DEF IInv, CountsMatchCores, Bound
  <2>4. WorkHasSlot' /\ FreshAreDone'
    BY <1>3, <2>1 DEF IInv, WorkHasSlot, FreshAreDone, Done
  <2> QED BY <2>2, <2>3, <2>4 DEF IInv
<1>7. CASE ctas[core] = 1
  <2>1. /\ running' = [running EXCEPT ![k] = @ - 1]
        /\ kernelOf' = [kernelOf EXCEPT ![core] = None]
        /\ IF left[k] = 0 /\ running[k] = 1 THEN Retire(k)
           ELSE UNCHANGED <<finished, slots>>
    BY <1>2, <1>7 DEF Release
  <2>2. running' \in [Kernels -> 0 .. Cardinality(Cores)]
        /\ running'[k] = running[k] - 1
        /\ \A j \in Kernels \ {k} : running'[j] = running[j]
    <3>1. running \in [Kernels -> 0 .. Cardinality(Cores)]
      BY <1>4 DEF TypeOK
    <3>2. running[k] - 1 \in 0 .. Cardinality(Cores)
      <4>1. running[k] \in 0 .. Cardinality(Cores) /\ Cardinality(Cores) \in Nat
        BY <1>2, <3>1, CoresFinite, FS_CardinalityType
      <4> QED BY <1>2, <4>1
    <3> QED BY <1>2, <2>1, <3>1, <3>2
  <2>3. TypeOK'
    <3>1. kernelOf' \in [Cores -> Kernels \cup {None}]
      BY <1>4, <2>1 DEF TypeOK
    <3>2. /\ finished' \in Seq(Kernels)
          /\ slots' \in [0 .. Slots - 1 -> Kernels \cup {None}]
      <4>1. finished \in Seq(Kernels) /\ slots \in [0 .. Slots - 1 -> Kernels \cup {None}]
        BY <1>4 DEF TypeOK
      <4>2. CASE Retire(k)
        BY <1>2, <4>1, <4>2, AppendProperties DEF Retire
      <4>3. CASE UNCHANGED <<finished, slots>>
        BY <4>1, <4>3
      <4> QED BY <2>1, <4>2, <4>3
    <3> QED BY <1>3, <1>4, <1>5, <2>2, <3>1, <3>2 DEF TypeOK, turnVars
  <2>4. CountsMatchCores'
    <3>1. ASSUME NEW j \in Kernels PROVE running'[j] = Cardinality(Bound(j)')
      <4>1. Bound(j) \in SUBSET Cores /\ running[j] = Cardinality(Bound(j))
        BY DEF IInv, CountsMatchCores, Bound
      <4>2. IsFiniteSet(Bound(j))
        BY <4>1, CoresFinite, FS_Subset
      <4>3. CASE j = k
        <5>1. Bound(k)' = Bound(k) \ {core} /\ core \in Bound(k)
          BY <1>1, <1>2, <1>4, <2>1, KernelsNotNone DEF Bound, TypeOK
        <5> QED BY <2>2, <4>1, <4>2, <4>3, <5>1, FS_RemoveElement
      <4>4. CASE j # k
        <5>1. Bound(j)' = Bound(j)
          BY <1>1, <1>4, <2>1, <4>4, KernelsNotNone DEF Bound, TypeOK
        <5> QED BY <2>2, <4>1, <4>4, <5>1
      <4> QED BY <4>3, <4>4
    <3>2. ASSUME NEW c \in Cores PROVE kernelOf'[c] = None <=> ctas'[c] = 0
      <4>1. kernelOf[c] = None <=> ctas[c] = 0
        BY DEF IInv, CountsMatchCores
      <4> QED BY <1>3, <1>4, <1>7, <2>1, <4>1 DEF TypeOK
    <3> QED BY <3>1, <3>2 DEF CountsMatchCores
  <2>5. /\ \A j \in Kernels \ {k} : Done(j)' <=> Done(j)
        /\ Done(k)' <=> left[k] = 0 /\ running[k] = 1
        /\ ~Done(k)
    <3>1. running[k] \in Nat
      BY <1>2, <1>4, CoresFinite, FS_CardinalityType DEF TypeOK
    <3> QED BY <1>2, <1>3, <2>2, <3>1 DEF Done
  <2>6. WorkHasSlot'
    <3> SUFFICES ASSUME NEW j \in Kernels
                 PROVE  Cardinality({i \in DOMAIN slots' : slots'[i] = j})
                          = (IF Done(j)' THEN 0 ELSE 1)
      BY DEF WorkHasSlot
    <3>1. Cardinality({i \in DOMAIN slots : slots[i] = j})
            = (IF Done(j) THEN 0 ELSE 1)
      BY DEF IInv, WorkHasSlot
    <3>2. CASE left[k] = 0 /\ running[k] = 1
      <4>1. slots' = [i \in DOMAIN slots |-> IF slots[i] = k THEN None ELSE slots[i]]
        BY <2>1, <3>2 DEF Retire
      <4>2. CASE j = k
        <5>1. {i \in DOMAIN slots' : slots'[i] = k} = {}
          BY <1>2, <4>1, KernelsNotNone
        <5> QED BY <2>5, <3>2, <4>2, <5>1, FS_EmptySet
      <4>3. CASE j # k
        <5>1. {i \in DOMAIN slots' : slots'[i] = j} = {i \in DOMAIN slots : slots[i] = j}
          BY <4>1, <4>3, KernelsNotNone
        <5> QED BY <2>5, <3>1, <4>3, <5>1
      <4> QED BY <4>2, <4>3
    <3>3. CASE ~(left[k] = 0 /\ running[k] = 1)
      <4>1. slots' = slots
        BY <2>1, <3>3
      <4> QED BY <2>5, <3>1, <3>3, <4>1
    <3> QED BY <3>2, <3>3
  <2>7. FreshAreDone'
    <3>1. k <= launched
      BY <1>2, <1>4, <2>5 DEF IInv, FreshAreDone, TypeOK, Kernels
    <3> QED BY <1>3, <1>4, <2>5, <3>1 DEF IInv, FreshAreDone, TypeOK, Kernels
  <2> QED BY <2>3, <2>4, <2>6, <2>7 DEF IInv
<1> QED BY <1>6, <1>7

\* The inductive invariant: the counts match the cores, the slots match the
\* counts, and kernels not launched have none.
THEOREM Inductive == Spec => []IInv
<1>1. Init => IInv
  BY InitInv
<1>2. IInv /\ [Next]_vars => IInv'
  <2> SUFFICES ASSUME IInv, [Next]_vars PROVE IInv'
    OBVIOUS
  <2>1. CASE Launch
    BY <2>1, LaunchInv
  <2>2. CASE Report
    BY <2>2, ReportInv
  <2>3. CASE IssueBlocks
    BY <2>3, IssueInv
  <2>4. CASE \E core \in Cores : CtaExit(core)
    BY <2>4, ExitInv
  <2>5. CASE UNCHANGED vars
    BY <2>5 DEF vars, coreVars, turnVars, IInv, TypeOK, CountsMatchCores,
                WorkHasSlot, FreshAreDone, Bound, Done
  <2> QED BY <2>1, <2>2, <2>3, <2>4, <2>5 DEF Next
<1> QED BY <1>1, <1>2, PTL DEF Spec

\* The kernel table, the cores and the round robins stay in their ranges.
THEOREM TypeCorrect == Spec => []TypeOK
<1>1. IInv => TypeOK
  BY DEF IInv
<1> QED BY <1>1, Inductive, PTL

\* m_num_cores_running, by which done() decides that a kernel has ended, is
\* the number of cores bound to the kernel; a core is bound while it has CTAs.
THEOREM CountsCorrect == Spec => []CountsMatchCores
<1>1. IInv => CountsMatchCores
  BY DEF IInv
<1> QED BY <1>1, Inductive, PTL

\* set_kernel_done() finds its kernel: one with work has exactly one slot.
THEOREM SlotsCorrect == Spec => []WorkHasSlot
<1>1. IInv => WorkHasSlot
  BY DEF IInv
<1> QED BY <1>1, Inductive, PTL

-----------------------------------------------------------------------------
\* A kernel is on the GPU exactly while it has a slot.
LEMMA OnGpuSlots ==
  ASSUME IInv, NEW k \in Kernels
  PROVE  k \in OnGpu <=> SlotsOf(k) # {}
BY KernelsNotNone DEF OnGpu, SlotsOf

\* launch() finds a free slot, so fewer kernels are on the GPU than slots.
LEMMA SlotFree ==
  ASSUME IInv, NEW n \in 0 .. Slots - 1, slots[n] = None
  PROVE  Cardinality(OnGpu) < Slots
<1>1. PICK used : used = {i \in 0 .. Slots - 1 : slots[i] # None}
  OBVIOUS
<1>2. IsFiniteSet(0 .. Slots - 1) /\ Cardinality(0 .. Slots - 1) = Slots
      /\ Slots \in Nat
  <2>1. 0 \in Int /\ Slots - 1 \in Int /\ Slots \in Nat
    BY DispatchAssumption
  <2>2. /\ IsFiniteSet(0 .. Slots - 1)
        /\ Cardinality(0 .. Slots - 1)
             = IF 0 > Slots - 1 THEN 0 ELSE Slots - 1 - 0 + 1
    BY <2>1, FS_Interval
  <2> QED BY <2>1, <2>2
<1>3. /\ IsFiniteSet(used) /\ Cardinality(used) <= Slots
      /\ Cardinality(used) \in Nat /\ Cardinality(used) # Slots
  <2>1. used \in SUBSET (0 .. Slots - 1) /\ used # 0 .. Slots - 1
    BY <1>1
  <2>2. PICK all : all = 0 .. Slots - 1
    OBVIOUS
  <2>3. IsFiniteSet(used) /\ Cardinality(used) <= Cardinality(all)
        /\ (Cardinality(all) = Cardinality(used) => all = used)
    BY <1>2, <2>1, <2>2, FS_Subset
  <2>4. Cardinality(used) \in Nat
    BY <2>3, FS_CardinalityType
  <2> QED BY <1>2, <2>1, <2>2, <2>3, <2>4
<1>4. PICK f : f = [i \in used |-> slots[i]]
  OBVIOUS
<1>5. f \in Surjection(used, OnGpu)
  BY <1>1, <1>4 DEF IInv, TypeOK, OnGpu, Surjection
<1>6. Cardinality(OnGpu) <= Cardinality(used) /\ IsFiniteSet(OnGpu)
  BY <1>3, <1>5, FS_Surjection
<1>7. Cardinality(OnGpu) \in Nat
  BY <1>6, FS_CardinalityType
<1> QED BY <1>2, <1>3, <1>6, <1>7

LEMMA RefineInit == Init => Kernel!Init
<1> SUFFICES ASSUME Init PROVE Kernel!Init
  OBVIOUS
<1>1. OnGpu = {}
  BY DEF Init, OnGpu
<1>2. (launched + 1) .. MaxKernels = Kernels
  BY DEF Init, Kernels
<1> QED BY <1>1, <1>2 DEF Init, Kernel!Init

LEMMA RefineLaunch == IInv /\ Launch => Kernel!Launch
<1> SUFFICES ASSUME IInv, Launch PROVE Kernel!Launch
  OBVIOUS
<1>1. PICK k : k = launched + 1
  OBVIOUS
<1>2. k \in Kernels /\ launched' = k /\ finished' = finished
  BY <1>1, LaunchSlot DEF Launch
<1>3. PICK n \in 0 .. Slots - 1 :
        slots[n] = None /\ slots' = [slots EXCEPT ![n] = k]
  BY <1>1, LaunchSlot
<1>4. Cardinality(OnGpu) < Slots
  BY <1>3, SlotFree
<1>5. OnGpu' = OnGpu \cup {k}
  <2>1. DOMAIN slots = 0 .. Slots - 1 /\ DOMAIN slots' = 0 .. Slots - 1
    BY <1>3 DEF IInv, TypeOK
  <2>2. \A i \in 0 .. Slots - 1 : slots'[i] = IF i = n THEN k ELSE slots[i]
    BY <1>3, <2>1
  <2>3. k # None
    BY <1>2, KernelsNotNone
  <2>4. OnGpu' \subseteq OnGpu \cup {k}
    BY <2>1, <2>2 DEF OnGpu
  <2>5. k \in OnGpu'
    BY <2>1, <2>2, <2>3 DEF OnGpu
  <2>6. ASSUME NEW j \in OnGpu PROVE j \in OnGpu'
    <3>1. PICK i \in 0 .. Slots - 1 : slots[i] = j /\ j # None
      BY <2>1 DEF OnGpu
    <3>2. slots'[i] = j
      BY <1>3, <2>2, <3>1
    <3> QED BY <2>1, <3>1, <3>2 DEF OnGpu
  <2> QED BY <2>4, <2>5, <2>6
<1>6. k \in (launched + 1) .. MaxKernels
      /\ (launched' + 1) .. MaxKernels = ((launched + 1) .. MaxKernels) \ {k}
  BY <1>1, <1>2 DEF IInv, TypeOK, Kernels
<1>7. \E j \in (launched + 1) .. MaxKernels :
        /\ Cardinality(OnGpu) < Slots
        /\ OnGpu' = OnGpu \cup {j}
        /\ (launched' + 1) .. MaxKernels = ((launched + 1) .. MaxKernels) \ {j}
        /\ finished' = finished
  BY <1>2, <1>4, <1>5, <1>6, Zenon
<1>8. Kernel!Cardinality(OnGpu) = Cardinality(OnGpu)
  BY DEF Kernel!Cardinality, Cardinality
<1> QED BY <1>7, <1>8, Zenon DEF Kernel!Launch

\* The end of a CTA ends a kernel or leaves the table of kernels alone.
LEMMA RefineExit ==
  \A core \in Cores : IInv /\ CtaExit(core) =>
    \/ Kernel!Finish
    \/ UNCHANGED <<OnGpu, finished, (launched + 1) .. MaxKernels>>
<1> SUFFICES ASSUME NEW core \in Cores, IInv, CtaExit(core)
             PROVE  \/ Kernel!Finish
                    \/ UNCHANGED <<OnGpu, finished,
                                   (launched + 1) .. MaxKernels>>
  OBVIOUS
<1>1. PICK k : k = kernelOf[core]
  OBVIOUS
<1>2. /\ k \in Kernels /\ running[k] >= 1
      /\ IF ctas[core] = 1
           THEN Release(core, k)
           ELSE UNCHANGED <<running, kernelOf, finished, slots>>
  BY <1>1, ExitCases
<1>3. UNCHANGED launched
  BY DEF CtaExit
<1>4. CASE UNCHANGED <<finished, slots>>
  BY <1>3, <1>4 DEF OnGpu
<1>5. CASE Retire(k)
  <2>1. k \in OnGpu
    <3>1. ~Done(k)
      BY <1>2 DEF Done
    <3>2. SlotsOf(k) # {}
      BY <1>2, <3>1, SlotOf
    <3> QED BY <1>2, <3>2, OnGpuSlots
  <2>2. OnGpu' = OnGpu \ {k}
    BY <1>2, <1>5, KernelsNotNone DEF Retire, OnGpu
  <2>3. Kernel!Finish
    BY <1>3, <1>5, <2>1, <2>2 DEF Kernel!Finish, Retire
  <2> QED BY <2>3
<1> QED BY <1>2, <1>4, <1>5 DEF Release

\* The kernel table of gpgpu_sim implements what the stream manager relies on:
\* kernels launched while a slot is free, finished once each, and reported in
\* the order they finished.
THEOREM TableImplements == Spec => KernelSpec
<1>1. Init => Kernel!Init
  BY RefineInit
<1>2. IInv /\ [Next]_vars =>
        [Kernel!Next]_<<OnGpu, finished, (launched + 1) .. MaxKernels>>
  <2> SUFFICES ASSUME IInv, [Next]_vars
               PROVE  \/ Kernel!Next
                      \/ UNCHANGED <<OnGpu, finished,
                                     (launched + 1) .. MaxKernels>>
    OBVIOUS
  <2>1. CASE Launch
    BY <2>1, RefineLaunch DEF Kernel!Next
  <2>2. CASE Report
    <3>1. OnGpu' = OnGpu /\ UNCHANGED launched
      BY <2>2 DEF Report, OnGpu
    <3>2. Kernel!Report
      BY <2>2, <3>1 DEF Report, Kernel!Report
    <3> QED BY <3>2 DEF Kernel!Next
  <2>3. CASE IssueBlocks
    <3>1. UNCHANGED <<launched, slots, finished>>
      BY <2>3 DEF IssueBlocks
    <3> QED BY <3>1 DEF OnGpu
  <2>4. CASE \E core \in Cores : CtaExit(core)
    BY <2>4, RefineExit DEF Kernel!Next
  <2>5. CASE UNCHANGED vars
    BY <2>5 DEF vars, OnGpu
  <2> QED BY <2>1, <2>2, <2>3, <2>4, <2>5 DEF Next
<1> QED BY <1>1, <1>2, Inductive, PTL DEF Spec, KernelSpec, Kernel!Spec

-----------------------------------------------------------------------------
(* CompressionPredictor: PredSpec implies Spec, so what is shown above of  *)
(* the dispatch is used.                                                   *)

\* Entries and names, without the counts that the theorems do not need.
EntryTypes ==
  /\ active \in Entries
  /\ table \in [Entries -> [state : {"INIT", "MON", "END"}, flag : {"ON", "OFF"}]]
  /\ mixed \in BOOLEAN

PredInv ==
  /\ EntryTypes
  /\ LearnsOwnKernel
  /\ LearningNeedsCore

\* Every step of the predictor's specification is one of the dispatch's.
LEMMA StepsOfDispatch == [PredNext]_allVars => [Next]_vars
<1> SUFFICES ASSUME [PredNext]_allVars PROVE Next \/ UNCHANGED vars
  OBVIOUS
<1>1. CASE Sample
  BY <1>1, Zenon DEF Sample
<1>2. CASE UNCHANGED allVars
  BY <1>2, Zenon DEF allVars
<1> QED BY <1>1, <1>2 DEF PredNext, Next, IssueAndActivate, ExitAndLearn

\* The predictor does not disturb the dispatch.
THEOREM PredictorDispatches == PredSpec => Spec
<1>1. PredInit => Init
  BY DEF PredInit
<1> QED BY <1>1, StepsOfDispatch, PTL DEF PredSpec, Spec

\* A cycle of issue_block2core() leaves bound cores with their kernel.
LEMMA IssueKeeps ==
  ASSUME TypeOK, CountsMatchCores, IssueBlocks
  PROVE  \A core \in Cores : kernelOf[core] # None => kernelOf'[core] = kernelOf[core]
<1>1. PICK g : g = Pass[Clusters]
  OBVIOUS
<1>2. KeepsBound(g)
  BY <1>1, PassIssued DEF Issued
<1>3. kernelOf' = g.kernelOf
  BY <1>1 DEF IssueBlocks
<1> QED BY <1>2, <1>3 DEF KeepsBound

LEMMA NamesFinite == \A bound : IsFiniteSet(NamesOn(bound))
<1> SUFFICES ASSUME NEW bound PROVE IsFiniteSet(NamesOn(bound))
  OBVIOUS
<1>1. PICK S : S = {i \in WatchedCores : bound[i] # None}
  OBVIOUS
<1>2. IsFiniteSet(S)
  BY <1>1, CoresFinite, FS_Subset DEF WatchedCores
<1>3. PICK f : f = [i \in S |-> NameOf[bound[i]]]
  OBVIOUS
<1>4. f \in Surjection(S, NamesOn(bound))
  BY <1>1, <1>3 DEF Surjection, NamesOn
<1> QED BY <1>2, <1>4, FS_Surjection

\* Where no two names are mixed, all cores run kernels of one name.
LEMMA OneName ==
  ASSUME NEW bound, ~(Cardinality(NamesOn(bound)) > 1),
         NEW m \in NamesOn(bound), NEW n \in NamesOn(bound)
  PROVE  m = n
<1>1. {m, n} \subseteq NamesOn(bound) /\ IsFiniteSet(NamesOn(bound))
  BY NamesFinite
<1>2. Cardinality({m, n}) <= Cardinality(NamesOn(bound))
      /\ Cardinality({m, n}) \in Nat /\ Cardinality(NamesOn(bound)) \in Nat
  BY <1>1, FS_Subset, FS_CardinalityType
<1>3. ASSUME m # n PROVE Cardinality({m, n}) = 2
  <2>1. IsFiniteSet({m}) /\ Cardinality({m}) = 1
    BY FS_Singleton
  <2>2. Cardinality({m} \cup {n}) = 2
    BY <1>3, <2>1, FS_AddElement
  <2>3. {m} \cup {n} = {m, n}
    OBVIOUS
  <2> QED BY <2>2, <2>3
<1> QED BY <1>2, <1>3

\* A step that binds no core and releases none keeps the invariant.
LEMMA QuietPred ==
  ASSUME PredInv, UNCHANGED <<kernelOf, predVars>>
  PROVE  PredInv'
BY DEF PredInv, EntryTypes, LearnsOwnKernel, LearningNeedsCore, Learning,
       NamesOn, predVars

LEMMA IssuePredInv ==
  ASSUME TypeOK, CountsMatchCores, PredInv, IssueAndActivate
  PROVE  PredInv'
<1>1. \A core \in Cores : kernelOf[core] # None => kernelOf'[core] = kernelOf[core]
  BY IssueKeeps DEF IssueAndActivate
<1>2. kernelOf' \in [Cores -> Kernels \cup {None}]
  <2>1. PICK g : g = Pass[Clusters]
    OBVIOUS
  <2>2. g.kernelOf \in [Cores -> Kernels \cup {None}]
    BY <2>1, PassIssued DEF Issued, IssueState
  <2> QED BY <2>1, <2>2 DEF IssueAndActivate, IssueBlocks
<1>3. table' = table /\ Mixing(kernelOf')
  BY DEF IssueAndActivate
<1>4. NamesOn(kernelOf) \subseteq NamesOn(kernelOf')
  BY <1>1 DEF NamesOn, WatchedCores
<1>5. CASE Binds = {}
  <2>1. active' = active
    BY <1>5 DEF IssueAndActivate
  <2>2. NamesOn(kernelOf') = NamesOn(kernelOf)
    <3>1. \A i \in WatchedCores : kernelOf'[i] # None => kernelOf[i] # None
      BY <1>5 DEF Binds
    <3> QED BY <1>1, <1>4, <3>1 DEF NamesOn, WatchedCores
  <2>3. ~mixed' => ~mixed \/ NamesOn(kernelOf) = {}
    BY <1>3, <2>2 DEF Mixing
  <2>4. LearnsOwnKernel'
    BY <2>1, <2>2, <2>3 DEF PredInv, LearnsOwnKernel, NamesOn
  <2>5. LearningNeedsCore'
    BY <1>3, <2>1, <2>2 DEF PredInv, LearningNeedsCore, Learning, NamesOn
  <2>6. EntryTypes'
    BY <1>3, <2>1 DEF PredInv, EntryTypes, Mixing
  <2> QED BY <2>4, <2>5, <2>6 DEF PredInv
<1>6. CASE Binds # {}
  <2>1. PICK core \in Binds : active' = NameOf[kernelOf'[core]]
    BY <1>6 DEF IssueAndActivate, Activate
  <2>2. core \in WatchedCores /\ kernelOf'[core] # None
    BY DEF Binds
  <2>3. active' \in NamesOn(kernelOf')
    BY <2>1, <2>2 DEF NamesOn
  <2>4. active' \in Names
    BY <1>2, <2>1, <2>2, PredictorAssumption DEF WatchedCores
  <2>5. LearnsOwnKernel'
    <3>1. SUFFICES ASSUME ~mixed', NEW n \in NamesOn(kernelOf')
                   PROVE  active' = n
      BY DEF LearnsOwnKernel, NamesOn
    <3>2. ~(Cardinality(NamesOn(kernelOf')) > 1)
      BY <1>3, <3>1 DEF Mixing
    <3> QED BY <2>3, <3>2, OneName
  <2>6. LearningNeedsCore'
    BY <2>3 DEF LearningNeedsCore, NamesOn
  <2>7. EntryTypes'
    BY <1>3, <2>4 DEF PredInv, EntryTypes, Entries, Mixing
  <2> QED BY <2>5, <2>6, <2>7 DEF PredInv
<1> QED BY <1>5, <1>6

LEMMA SamplePredInv ==
  ASSUME PredInv, Sample
  PROVE  PredInv'
<1>1. UNCHANGED <<kernelOf, active, mixed>>
  BY DEF Sample, vars, coreVars
<1>2. active \in Entries /\ Learning /\ active # None
  BY DEF Sample, PredInv, EntryTypes, Learning
<1>3. \/ table' = table
      \/ \E l, h : table' = [table EXCEPT ![active] = NextState(@, l, h)]
  BY DEF Sample, Count
<1>4. EntryTypes'
  <2>1. table \in [Entries -> [state : {"INIT", "MON", "END"}, flag : {"ON", "OFF"}]]
    BY DEF PredInv, EntryTypes
  <2>2. \A l, h : NextState(table[active], l, h)
                    \in [state : {"INIT", "MON", "END"}, flag : {"ON", "OFF"}]
    BY <1>2, <2>1 DEF NextState
  <2>3. table' \in [Entries -> [state : {"INIT", "MON", "END"}, flag : {"ON", "OFF"}]]
    BY <1>3, <2>1, <2>2
  <2> QED BY <1>1, <2>3 DEF PredInv, EntryTypes
<1>5. LearnsOwnKernel'
  BY <1>1 DEF PredInv, LearnsOwnKernel, NamesOn
<1>6. LearningNeedsCore'
  BY <1>1, <1>2 DEF PredInv, LearningNeedsCore, NamesOn
<1> QED BY <1>4, <1>5, <1>6 DEF PredInv

LEMMA ExitPredInv ==
  ASSUME TypeOK, CountsMatchCores, PredInv, NEW core \in Cores, ExitAndLearn(core)
  PROVE  PredInv'
<1>1. /\ CtaExit(core) /\ active' = active /\ Mixing(kernelOf')
      /\ IF core \in WatchedCores /\ kernelOf'[core] = None
           THEN LastSample ELSE UNCHANGED table
  BY DEF ExitAndLearn
<1>2. kernelOf[core] # None
  BY <1>1 DEF CtaExit, CountsMatchCores, TypeOK
<1>3. \/ kernelOf' = kernelOf
      \/ kernelOf' = [kernelOf EXCEPT ![core] = None]
  BY <1>1 DEF CtaExit, Release
<1>4. kernelOf \in [Cores -> Kernels \cup {None}]
  BY DEF TypeOK
<1>5. NamesOn(kernelOf') \subseteq NamesOn(kernelOf)
  BY <1>3, <1>4 DEF NamesOn, WatchedCores
<1>6. LearnsOwnKernel'
  <2>1. SUFFICES ASSUME ~mixed', NEW n \in NamesOn(kernelOf')
                 PROVE  active' = n
    BY DEF LearnsOwnKernel, NamesOn
  <2>2. ~mixed
    BY <1>1, <2>1 DEF Mixing
  <2> QED BY <1>1, <1>5, <2>1, <2>2 DEF PredInv, LearnsOwnKernel
<1>7. active \in Entries
      /\ table \in [Entries -> [state : {"INIT", "MON", "END"}, flag : {"ON", "OFF"}]]
  BY DEF PredInv, EntryTypes
<1>8. CASE core \in WatchedCores /\ kernelOf'[core] = None
  <2>1. table' = [table EXCEPT ![active] =
          IF @.state = "END" THEN @ ELSE [state |-> "END", flag |-> "OFF"]]
    BY <1>1, <1>8 DEF LastSample
  <2>2. table' \in [Entries -> [state : {"INIT", "MON", "END"}, flag : {"ON", "OFF"}]]
    BY <1>7, <2>1
  <2>3. ~Learning'
    BY <1>1, <1>7, <2>1 DEF Learning
  <2>4. EntryTypes'
    BY <1>1, <1>7, <2>2 DEF EntryTypes, Mixing, PredInv
  <2> QED BY <1>6, <2>3, <2>4 DEF PredInv, LearningNeedsCore
<1>9. CASE ~(core \in WatchedCores /\ kernelOf'[core] = None)
  <2>1. table' = table
    BY <1>1, <1>9
  <2>2. NamesOn(kernelOf') = NamesOn(kernelOf)
    <3>1. \A i \in WatchedCores : kernelOf'[i] = kernelOf[i]
      BY <1>2, <1>3, <1>4, <1>9 DEF WatchedCores
    <3> QED BY <3>1 DEF NamesOn
  <2>3. EntryTypes'
    BY <1>1, <1>7, <2>1 DEF EntryTypes, Mixing, PredInv
  <2>4. LearningNeedsCore'
    BY <1>1, <2>1, <2>2 DEF PredInv, LearningNeedsCore, Learning, NamesOn
  <2> QED BY <1>6, <2>3, <2>4 DEF PredInv
<1> QED BY <1>8, <1>9

\* The invariant of the predictor: it relates the name it learns to the
\* kernels on the cores of the cluster.
THEOREM PredictorInductive == PredSpec => []PredInv
<1>1. PredInit => PredInv
  <2> SUFFICES ASSUME PredInit PROVE PredInv
    OBVIOUS
  <2>1. NamesOn(kernelOf) = {}
    BY DEF PredInit, Init, NamesOn, WatchedCores
  <2>2. EntryTypes
    BY DEF PredInit, EntryTypes, Entries, Fresh
  <2> QED BY <2>1, <2>2 DEF PredInit, PredInv, LearnsOwnKernel, LearningNeedsCore
<1>2. TypeOK /\ CountsMatchCores /\ PredInv /\ [PredNext]_allVars => PredInv'
  <2> SUFFICES ASSUME TypeOK, CountsMatchCores, PredInv, [PredNext]_allVars
               PROVE  PredInv'
    OBVIOUS
  <2>1. CASE (Launch \/ Report) /\ UNCHANGED predVars
    BY <2>1, QuietPred DEF Launch, Report, coreVars
  <2>2. CASE IssueAndActivate
    BY <2>2, IssuePredInv
  <2>3. CASE Sample
    BY <2>3, SamplePredInv
  <2>4. CASE \E core \in Cores : ExitAndLearn(core)
    BY <2>4, ExitPredInv
  <2>5. CASE UNCHANGED allVars
    BY <2>5, QuietPred DEF allVars, vars, coreVars
  <2> QED BY <2>1, <2>2, <2>3, <2>4, <2>5 DEF PredNext
<1> QED BY <1>1, <1>2, PredictorDispatches, TypeCorrect, CountsCorrect, PTL DEF PredSpec

\* A cluster that runs one kernel name at a time asks for, and learns, the
\* verdict of that name: activate() at every binding is enough.
THEOREM OwnKernelLearnt == PredSpec => []LearnsOwnKernel
<1>1. PredInv => LearnsOwnKernel
  BY DEF PredInv
<1> QED BY <1>1, PredictorInductive, PTL

\* The release of the last core ends the learning of a cluster.
THEOREM LearningStops == PredSpec => []LearningNeedsCore
<1>1. PredInv => LearningNeedsCore
  BY DEF PredInv
<1> QED BY <1>1, PredictorInductive, PTL

\* No step of any core takes a verdict back: sampling and the release of a core
\* touch only an active entry that has none.
THEOREM VerdictsStand == PredSpec => VerdictFinal
<1>1. PredInv /\ [PredNext]_allVars =>
        \A n \in Names : table[n].state = "END" => table'[n] = table[n]
  <2> SUFFICES ASSUME PredInv, [PredNext]_allVars, NEW n \in Names,
                      table[n].state = "END"
               PROVE  table'[n] = table[n]
    OBVIOUS
  <2>1. n \in Entries /\ active \in Entries /\ DOMAIN table = Entries
    BY DEF PredInv, EntryTypes, Entries
  <2>2. CASE UNCHANGED table
    BY <2>2
  <2>3. CASE Sample
    <3>1. active # n
      BY <2>3 DEF Sample
    <3>2. \/ table' = table
          \/ \E l, h : table' = [table EXCEPT ![active] = NextState(@, l, h)]
      BY <2>3 DEF Sample, Count
    <3> QED BY <2>1, <3>1, <3>2
  <2>4. CASE LastSample
    BY <2>1, <2>4 DEF LastSample
  <2>5. UNCHANGED table \/ Sample \/ LastSample
    BY DEF PredNext, IssueAndActivate, ExitAndLearn, allVars, predVars
  <2> QED BY <2>2, <2>3, <2>4, <2>5
<1>2. (\A n \in Names : table[n].state = "END" => table'[n] = table[n]) =>
        [\A n \in Names : table[n].state = "END" => table'[n] = table[n]]_allVars
  OBVIOUS
<1> QED BY <1>1, <1>2, PredictorInductive, PTL DEF PredSpec, VerdictFinal

-----------------------------------------------------------------------------
\* Where no two names are mixed, both counts together never exceed the samples
\* of the active name since its activation.
CountsOwn ==
  /\ low \in Nat /\ high \in Nat /\ own \in 0 .. MaxSamples
  /\ low + high < MaxSamples
  /\ ~mixed /\ active # None /\ Learning => low + high <= own

\* A sample counts once, or ends a state and leaves no count behind.
LEMMA SampleCounts ==
  ASSUME PredInv, CountsOwn, Sample
  PROVE  /\ CountsOwn'
         /\ ~mixed => NamesOn(kernelOf) = {active}
         /\ ~mixed /\ table' # table => own' = MaxSamples
<1>1. /\ MaxSamples \in Nat \ {0}
      /\ low \in Nat /\ high \in Nat /\ own \in 0 .. MaxSamples
      /\ low + high < MaxSamples
  BY PredictorAssumption DEF CountsOwn
<1>2. active # None /\ Learning
  BY DEF Sample, Learning
<1>3. ASSUME ~mixed PROVE NamesOn(kernelOf) = {active} /\ low + high <= own
  <2>1. NamesOn(kernelOf) # {}
    BY <1>2 DEF PredInv, LearningNeedsCore
  <2>2. \A n \in NamesOn(kernelOf) : n = active
    BY <1>3 DEF PredInv, LearnsOwnKernel
  <2>3. low + high <= own
    BY <1>2, <1>3 DEF CountsOwn
  <2> QED BY <2>1, <2>2, <2>3
<1>4. own' = IF own < MaxSamples /\ NamesOn(kernelOf) = {active} THEN own + 1 ELSE own
  BY DEF Sample
<1>5. own' \in 0 .. MaxSamples
  BY <1>1, <1>4
<1>6. mixed' = mixed /\ active' = active
  BY DEF Sample
<1>7. PICK l, h : /\ Count(l, h)
                  /\ \/ l = low + 1 /\ h = high
                     \/ l = low /\ h = high + 1
  BY DEF Sample
<1>8. l \in Nat /\ h \in Nat /\ l + h = low + high + 1
  BY <1>1, <1>7
<1>9. CASE l + h < MaxSamples
  <2>1. low' = l /\ high' = h /\ table' = table
    BY <1>7, <1>9 DEF Count
  <2>2. ~mixed => low' + high' <= own'
    BY <1>1, <1>3, <1>4, <1>8, <1>9, <2>1
  <2> QED BY <1>1, <1>3, <1>5, <1>6, <1>8, <1>9, <2>1, <2>2 DEF CountsOwn
<1>10. CASE ~(l + h < MaxSamples)
  <2>1. low' = 0 /\ high' = 0
    BY <1>7, <1>10 DEF Count
  <2>2. ~mixed => own' = MaxSamples
    BY <1>1, <1>3, <1>4, <1>8, <1>10
  <2> QED BY <1>1, <1>3, <1>5, <2>1, <2>2 DEF CountsOwn
<1> QED BY <1>9, <1>10

\* A step without sample or activation: what it may end is the learning of the
\* active name, and with it, for an empty cluster, the mixing.
LEMMA CountsKept ==
  ASSUME CountsOwn, PredInv', UNCHANGED <<low, high, own, active>>,
         table'[active] = table[active] \/ table'[active].state = "END",
         mixed' = mixed \/ Mixing(kernelOf')
  PROVE  CountsOwn'
<1>1. ASSUME ~mixed', active' # None, Learning' PROVE low + high <= own
  <2>1. Learning /\ active # None
    BY <1>1 DEF Learning
  <2>2. NamesOn(kernelOf') # {}
    BY <1>1 DEF PredInv, LearningNeedsCore, NamesOn
  <2>3. ~mixed
    BY <1>1, <2>2 DEF Mixing
  <2> QED BY <2>1, <2>3 DEF CountsOwn
<1> QED BY <1>1 DEF CountsOwn

LEMMA CountsStep ==
  ASSUME PredInv, PredInv', CountsOwn, [PredNext]_allVars
  PROVE  CountsOwn'
<1>1. CASE Sample
  BY <1>1, SampleCounts
<1>2. CASE IssueAndActivate
  <2>1. CASE Binds = {}
    BY <1>2, <2>1, CountsKept DEF IssueAndActivate
  <2>2. CASE Binds # {}
    <3>1. low' = 0 /\ high' = 0 /\ own' = 0
      BY <1>2, <2>2 DEF IssueAndActivate, Activate
    <3> QED BY <3>1, PredictorAssumption DEF CountsOwn
  <2> QED BY <2>1, <2>2
<1>3. CASE \E core \in Cores : ExitAndLearn(core)
  <2>1. PICK core \in Cores : ExitAndLearn(core)
    BY <1>3
  <2>2. active \in Entries /\ DOMAIN table = Entries
    BY DEF PredInv, EntryTypes
  <2>3. table'[active] = table[active] \/ table'[active].state = "END"
    BY <2>1, <2>2 DEF ExitAndLearn, LastSample
  <2> QED BY <2>1, <2>3, CountsKept DEF ExitAndLearn
<1>4. CASE UNCHANGED predVars
  BY <1>4, CountsKept DEF predVars
<1> QED BY <1>1, <1>2, <1>3, <1>4 DEF PredNext, allVars

LEMMA CountsInvariant == PredSpec => []CountsOwn
<1>1. PredInit => CountsOwn
  BY PredictorAssumption DEF PredInit, CountsOwn
<1>2. PredInv /\ PredInv' /\ CountsOwn /\ [PredNext]_allVars => CountsOwn'
  BY CountsStep
<1> QED BY <1>1, <1>2, PredictorInductive, PTL DEF PredSpec

\* Entries, counts and the dispatch below keep their types.
THEOREM PredictorTypes == PredSpec => []PredTypeOK
<1>1. TypeOK /\ PredInv /\ CountsOwn => PredTypeOK
  <2> SUFFICES ASSUME TypeOK, PredInv, CountsOwn PROVE PredTypeOK
    OBVIOUS
  <2>1. low \in 0 .. MaxSamples /\ high \in 0 .. MaxSamples
        /\ own \in 0 .. MaxSamples
    BY PredictorAssumption DEF CountsOwn
  <2> QED BY <2>1 DEF PredInv, EntryTypes, PredTypeOK
<1> QED BY <1>1, PredictorDispatches, TypeCorrect, PredictorInductive,
           CountsInvariant, PTL

\* Outside mixed clusters a name gets its verdict while the cores run it: at
\* once when one of them is released, and otherwise from a whole period of
\* samples, taken since it was activated and while they ran no other name.
THEOREM VerdictSampled == PredSpec => SampledVerdict
<1> DEFINE A == \A n \in Names :
       ~mixed /\ table[n].state # "END" /\ table'[n].state = "END" =>
         NamesOn(kernelOf) = {n} /\ (Released \/ own' = MaxSamples)
<1>1. TypeOK /\ CountsMatchCores /\ CountsOwn /\ PredInv /\ [PredNext]_allVars => A
  <2> SUFFICES ASSUME TypeOK, CountsMatchCores, CountsOwn, PredInv, [PredNext]_allVars,
                      NEW n \in Names, ~mixed,
                      table[n].state # "END", table'[n].state = "END"
               PROVE  NamesOn(kernelOf) = {n} /\ (Released \/ own' = MaxSamples)
    OBVIOUS
  <2>1. n \in Entries /\ active \in Entries /\ DOMAIN table = Entries
    BY DEF PredInv, EntryTypes, Entries
  <2>2. table' # table
    OBVIOUS
  <2>3. CASE Sample
    <3>1. \/ table' = table
          \/ \E l, h : table' = [table EXCEPT ![active] = NextState(@, l, h)]
      BY <2>3 DEF Sample, Count
    <3>2. n = active
      BY <2>1, <3>1
    <3> QED BY <2>2, <2>3, <3>2, SampleCounts
  <2>4. ASSUME NEW core \in Cores, ExitAndLearn(core)
        PROVE  NamesOn(kernelOf) = {n} /\ Released
    <3>1. CtaExit(core) /\ core \in WatchedCores /\ kernelOf'[core] = None /\ LastSample
      BY <2>2, <2>4 DEF ExitAndLearn
    <3>2. n = active
      BY <2>1, <3>1 DEF LastSample
    <3>3. kernelOf[core] # None
      BY <3>1 DEF CtaExit, CountsMatchCores, TypeOK
    <3>4. NameOf[kernelOf[core]] \in NamesOn(kernelOf)
      BY <3>1, <3>3 DEF NamesOn
    <3>5. NamesOn(kernelOf) = {active}
      BY <3>4 DEF PredInv, LearnsOwnKernel
    <3> QED BY <3>1, <3>2, <3>3, <3>5 DEF Released
  <2> QED BY <2>2, <2>3, <2>4 DEF PredNext, IssueAndActivate, allVars, predVars
<1>2. A => [A]_allVars
  OBVIOUS
<1> HIDE DEF A
<1>3. PredSpec => [][A]_allVars
  BY <1>1, <1>2, PredictorInductive, CountsInvariant, PredictorDispatches, TypeCorrect,
     CountsCorrect, PTL DEF PredSpec
<1> QED BY <1>3 DEF A, SampledVerdict
=============================================================================
