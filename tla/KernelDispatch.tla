---------------------------- MODULE KernelDispatch ----------------------------
(***************************************************************************)
(* Thread blocks (CTAs) of the running kernels dispatched to the cores of  *)
(* the clusters, and the end of kernels.  Translated from                  *)
(* gpgpu_sim::{launch, select_kernel, issue_block2core, set_kernel_done,   *)
(* finished_kernel}, simt_core_cluster::issue_block2core() and             *)
(* shader_core_ctx::register_cta_thread_exit().                            *)
(***************************************************************************)
EXTENDS Integers, SequencesExt, FiniteSets

CONSTANTS
  None,         \* no kernel
  MaxKernels,   \* bound: kernels of a behaviour
  MaxGrid,      \* bound: CTAs of a kernel
  Slots,        \* gpgpu_max_concurrent_kernel
  Clusters,     \* n_simt_clusters
  CoresPer,     \* n_simt_cores_per_cluster
  MaxCta        \* max_cta(), CTAs a core holds

ASSUME DispatchAssumption ==
  /\ None \notin 1 .. MaxKernels
  /\ {MaxKernels, MaxGrid, Slots, Clusters, CoresPer, MaxCta}
       \subseteq Nat \ {0}

Kernels == 1 .. MaxKernels

Cores == (0 .. Clusters - 1) \X (0 .. CoresPer - 1)

VARIABLES
  launched,     \* kernels launched so far; a kernel is its position
  left,         \* CTAs of a kernel not issued yet
  running,      \* m_num_cores_running of a kernel
  slots,        \* m_running_kernels
  finished,     \* m_finished_kernel
  kernelOf,     \* m_kernel of every core
  ctas,         \* m_n_active_cta of every core
  lastKernel,   \* m_last_issued_kernel
  lastCluster,  \* m_last_cluster_issue
  nextCore      \* m_cta_issue_next_core of every cluster

coreVars == <<running, kernelOf, ctas>>
turnVars == <<lastKernel, lastCluster, nextCore>>
vars == <<launched, left, slots, finished, coreVars, turnVars>>

Init ==
  /\ launched = 0
  /\ left = [k \in Kernels |-> 0]
  /\ running = [k \in Kernels |-> 0]
  /\ slots = [n \in 0 .. Slots - 1 |-> None]
  /\ finished = <<>>
  /\ kernelOf = [c \in Cores |-> None]
  /\ ctas = [c \in Cores |-> 0]
  /\ lastKernel = 0
  /\ lastCluster = 0
  /\ nextCore = [c \in 0 .. Clusters - 1 |-> CoresPer - 1]

\* kernel_info_t::done()
Done(k) == left[k] = 0 /\ running[k] = 0

FreeSlots == {n \in DOMAIN slots : slots[n] = None \/ Done(slots[n])}

\* gpgpu_sim::launch(), when can_start_kernel().
Launch == \E grid \in 1 .. MaxGrid :
  /\ launched < MaxKernels
  /\ FreeSlots # {}
  /\ launched' = launched + 1
  /\ left' = [left EXCEPT ![launched + 1] = grid]
  /\ LET n == CHOOSE i \in FreeSlots : \A j \in FreeSlots : i <= j IN
       slots' = [slots EXCEPT ![n] = launched + 1]
  /\ UNCHANGED <<finished, coreVars, turnVars>>

\* gpgpu_sim::finished_kernel()
Report ==
  /\ finished # <<>>
  /\ finished' = Tail(finished)
  /\ UNCHANGED <<launched, left, slots, coreVars, turnVars>>

-----------------------------------------------------------------------------
\* The turns of a round robin over 0 .. size - 1 that starts after last.
Turns(last, size) == [n \in 1 .. size |-> (last + n) % size]

HasWork(n, g) == slots[n] # None /\ g.left[slots[n]] > 0

FirstWithWork(turns, g) ==
  LET turn == SelectInSeq(turns, LAMBDA n : HasWork(n, g))
  IN IF turn = 0 THEN None ELSE turns[turn]

\* Fault: the round stops before the slot served last.
SelectOthers(g) == FirstWithWork(Turns(g.lastKernel, Slots - 1), g)

\* gpgpu_sim::select_kernel(), the next slot in turn with CTAs left.
Select(g) == FirstWithWork(Turns(g.lastKernel, Slots), g)

\* The kernel whose CTA a core can take: the one it is bound to, or for an
\* empty core the next in turn.
KernelFor(core, g) ==
  IF g.kernelOf[core] # None THEN g.kernelOf[core]
  ELSE IF g.ctas[core] = 0 /\ Select(g) # None THEN slots[Select(g)]
  ELSE None

Takes(core, g) ==
  /\ KernelFor(core, g) # None
  /\ g.left[KernelFor(core, g)] > 0
  /\ g.ctas[core] < MaxCta

\* Fault: a core that is bound again is counted again.
GiveCounting(core, g) ==
  LET k == KernelFor(core, g)
      binds == g.kernelOf[core] = None
  IN [g EXCEPT !.kernelOf[core] = k,
               !.running[k] = @ + 1,
               !.lastKernel = IF binds THEN Select(g) ELSE @,
               !.left[k] = @ - 1,
               !.ctas[core] = @ + 1,
               !.nextCore[core[1]] = core[2],
               !.lastCluster = core[1]]

\* set_kernel() and the issue of a CTA.
Give(core, g) ==
  LET k == KernelFor(core, g)
      binds == g.kernelOf[core] = None
  IN [g EXCEPT !.kernelOf[core] = k,
               !.running[k] = IF binds THEN @ + 1 ELSE @,
               !.lastKernel = IF binds THEN Select(g) ELSE @,
               !.left[k] = @ - 1,
               !.ctas[core] = @ + 1,
               !.nextCore[core[1]] = core[2],
               !.lastCluster = core[1]]

\* simt_core_cluster::issue_block2core(): at most one CTA, to the next core
\* that takes it.
ClusterIssue(g, c) ==
  LET turn == SelectInSeq(Turns(nextCore[c], CoresPer),
                          LAMBDA i : Takes(<<c, i>>, g))
  IN IF turn = 0 THEN g ELSE Give(<<c, Turns(nextCore[c], CoresPer)[turn]>>, g)

Now == [left |-> left, running |-> running, kernelOf |-> kernelOf,
        ctas |-> ctas, lastKernel |-> lastKernel,
        lastCluster |-> lastCluster, nextCore |-> nextCore]

\* What the first n clusters of a cycle leave.
Pass[n \in 0 .. Clusters] ==
  IF n = 0 THEN Now
  ELSE ClusterIssue(Pass[n - 1], Turns(lastCluster, Clusters)[n])

\* gpgpu_sim::issue_block2core(), one cycle over the clusters.
IssueBlocks ==
  LET g == Pass[Clusters] IN
  /\ left' = g.left
  /\ running' = g.running
  /\ kernelOf' = g.kernelOf
  /\ ctas' = g.ctas
  /\ lastKernel' = g.lastKernel
  /\ lastCluster' = g.lastCluster
  /\ nextCore' = g.nextCore
  /\ UNCHANGED <<launched, slots, finished>>

-----------------------------------------------------------------------------
\* set_kernel_done(), once no core runs a kernel without CTAs left.
Retire(k) ==
  /\ finished' = Append(finished, k)
  /\ slots' = [n \in DOMAIN slots |-> IF slots[n] = k THEN None ELSE slots[n]]

\* Fault: other cores that run the kernel are not looked at.
ReleaseAny(core, k) ==
  /\ running' = [running EXCEPT ![k] = @ - 1]
  /\ kernelOf' = [kernelOf EXCEPT ![core] = None]
  /\ IF left[k] = 0 THEN Retire(k) ELSE UNCHANGED <<finished, slots>>

\* Fault: the CTAs left are not looked at.
ReleaseEarly(core, k) ==
  /\ running' = [running EXCEPT ![k] = @ - 1]
  /\ kernelOf' = [kernelOf EXCEPT ![core] = None]
  /\ IF running[k] = 1 THEN Retire(k) ELSE UNCHANGED <<finished, slots>>

\* An empty core gives up its kernel.
Release(core, k) ==
  /\ running' = [running EXCEPT ![k] = @ - 1]
  /\ kernelOf' = [kernelOf EXCEPT ![core] = None]
  /\ IF left[k] = 0 /\ running[k] = 1 THEN Retire(k)
                                      ELSE UNCHANGED <<finished, slots>>

\* register_cta_thread_exit(), for the last thread of a CTA.
CtaExit(core) ==
  /\ ctas[core] > 0
  /\ ctas' = [ctas EXCEPT ![core] = @ - 1]
  /\ IF ctas[core] = 1
       THEN Release(core, kernelOf[core])
       ELSE UNCHANGED <<running, kernelOf, finished, slots>>
  /\ UNCHANGED <<launched, left, turnVars>>

Next == Launch \/ Report \/ IssueBlocks \/ \E core \in Cores : CtaExit(core)

Spec == Init /\ [][Next]_vars

CanIssue == \E core \in Cores : Takes(core, Now)

\* Cores are clocked and every CTA ends, and blocks are issued in every cycle:
\* weak fairness of IssueBlocks, with the condition that enables it written out.
FairSpec ==
  /\ Spec
  /\ \A core \in Cores : WF_vars(CtaExit(core))
  /\ []<>(~CanIssue) \/ []<><<IssueBlocks>>_vars

-----------------------------------------------------------------------------
Bound(k) == {core \in Cores : kernelOf[core] = k}

OnGpu == {slots[n] : n \in DOMAIN slots} \ {None}

\* The values of the kernel table, the cores and the round-robin turns.
TypeOK ==
  /\ launched \in 0 .. MaxKernels
  /\ left \in [Kernels -> 0 .. MaxGrid]
  /\ running \in [Kernels -> 0 .. Cardinality(Cores)]
  /\ slots \in [0 .. Slots - 1 -> Kernels \cup {None}]
  /\ finished \in Seq(Kernels)
  /\ kernelOf \in [Cores -> Kernels \cup {None}]
  /\ ctas \in [Cores -> 0 .. MaxCta]
  /\ lastKernel \in 0 .. Slots - 1
  /\ lastCluster \in 0 .. Clusters - 1
  /\ nextCore \in [0 .. Clusters - 1 -> 0 .. CoresPer - 1]

\* m_num_cores_running counts the cores bound to a kernel, and a core is
\* bound exactly while it has CTAs: dec_running() and
\* register_cta_thread_exit() assert as much, and done() relies on it.
CountsMatchCores ==
  /\ \A k \in Kernels : running[k] = Cardinality(Bound(k))
  /\ \A core \in Cores : kernelOf[core] = None <=> ctas[core] = 0

\* set_kernel_done() asserts that it finds the kernel in m_running_kernels:
\* a kernel with work, in its grid or on a core, has one slot, and launch()
\* gave it to nobody else.
WorkHasSlot == \A k \in Kernels :
  Cardinality({n \in DOMAIN slots : slots[n] = k})
    = (IF Done(k) THEN 0 ELSE 1)

\* A kernel launched while others run is finished in the end.
KernelsFinish == \A k \in Kernels : []<>(k \notin OnGpu)

\* The kernel table implements what the stream manager relies on.
Kernel == INSTANCE GpuKernels WITH
  onGpu <- OnGpu, fresh <- (launched + 1) .. MaxKernels
KernelSpec == Kernel!Spec
=============================================================================
