------------------------- MODULE CompressionPredictor -------------------------
(***************************************************************************)
(* The predictor that switches the compression of the L1 data cache of a   *)
(* cluster, in step with the kernels its cores run.  Translated from       *)
(* hpcl_dyn_comp and from its calls in simt_core_cluster::                 *)
(* issue_block2core(), register_cta_thread_exit() and gpgpu_sim::cycle().  *)
(* The predictors of two clusters share nothing: the module follows one.   *)
(***************************************************************************)
EXTENDS KernelDispatch

CONSTANTS
  Names,       \* kernel names
  NameOf,      \* the name of every kernel
  Watched,     \* the cluster whose predictor is followed
  MaxSamples   \* MAX_SAMPLING_CNT_PER_STATE

ASSUME PredictorAssumption ==
  /\ None \notin Names
  /\ NameOf \in [Kernels -> Names]
  /\ Watched \in 0 .. Clusters - 1
  /\ MaxSamples \in Nat \ {0}

VARIABLES
  active,   \* m_active_kernel_cache_state_index, as a name
  table,    \* m_kernel_cache_state: what is known of every name
  low,      \* m_active_kernel_low_cache_miss_cnt
  high,     \* m_active_kernel_high_cache_miss_cnt
  own,      \* history: samples since the last activation with cores of no other
            \* name bound, up to MaxSamples
  mixed     \* history: cores of the cluster ran kernels of two names at once
            \* since it was last empty

predVars == <<active, table, low, high, own, mixed>>
allVars == <<vars, predVars>>

\* Index -1, before the first activation, addresses memory in front of the
\* table.  Its m_state lies in the upper half of a size field, which is 0, so
\* it reads as one more entry in state INIT: the entry None.
Entries == Names \cup {None}

Fresh == [state |-> "INIT", flag |-> "OFF"]

PredInit ==
  /\ Init
  /\ active = None
  /\ table = [n \in Entries |-> Fresh]
  /\ low = 0
  /\ high = 0
  /\ own = 0
  /\ mixed = FALSE

WatchedCores == {core \in Cores : core[1] = Watched}

\* The names of the kernels that the cores of the cluster run.
NamesOn(bound) ==
  {NameOf[bound[core]] : core \in {i \in WatchedCores : bound[i] # None}}

Mixing(bound) ==
  mixed' = (NamesOn(bound) # {} /\ (mixed \/ Cardinality(NamesOn(bound)) > 1))

\* Cores of the cluster to which this step binds a kernel, at most one.
Binds == {i \in WatchedCores : kernelOf[i] = None /\ kernelOf'[i] # None}

\* Fault: the counts of the kernel before are kept.
ActivateOnly(name) ==
  /\ active' = name
  /\ own' = 0
  /\ UNCHANGED <<low, high>>

\* Fault: a name that has a verdict is not activated again.
ActivateUndecided(name) ==
  IF table[name].state # "END"
    THEN active' = name /\ low' = 0 /\ high' = 0 /\ own' = 0
    ELSE UNCHANGED <<active, low, high, own>>

\* activate(). Nothing increments the m_prev counts, so an entry in state INIT
\* stays there.
Activate(name) ==
  /\ active' = name
  /\ low' = 0
  /\ high' = 0
  /\ own' = 0

IssueAndActivate ==
  /\ IssueBlocks
  /\ IF Binds = {}
       THEN UNCHANGED <<active, low, high, own>>
       ELSE \E core \in Binds : Activate(NameOf[kernelOf'[core]])
  /\ Mixing(kernelOf')
  /\ UNCHANGED table

-----------------------------------------------------------------------------
\* What a full period of samples leads to: compression unless most were low.
NextState(entry, l, h) ==
  IF entry.state = "INIT" THEN [entry EXCEPT !.state = "MON"]
  ELSE [state |-> "END", flag |-> IF l > h THEN "OFF" ELSE "ON"]

\* update_sample_stat() for l low and h high samples so far. Counts start again
\* with state MON; those of state END are never read, and left at 0 here.
Count(l, h) ==
  IF l + h < MaxSamples
    THEN low' = l /\ high' = h /\ UNCHANGED table
    ELSE /\ table' = [table EXCEPT ![active] = NextState(@, l, h)]
         /\ low' = 0
         /\ high' = 0

\* gpgpu_sim::cycle(), once a sampling period with hpcl_adaptive_comp_en set.
\* The miss rate is below the threshold or not. Left out are samples in state
\* END, which count for nothing, and those before the first activation, which
\* go to the memory in front of the table.
Sample ==
  /\ active # None /\ table[active].state # "END"
  /\ \/ Count(low + 1, high)
     \/ Count(low, high + 1)
  /\ own' = IF own < MaxSamples /\ NamesOn(kernelOf) = {active} THEN own + 1
            ELSE own
  /\ UNCHANGED <<vars, active, mixed>>

-----------------------------------------------------------------------------
\* update_last_sample_stat()
LastSample ==
  table' = [table EXCEPT ![active] =
              IF @.state = "END" THEN @ ELSE [state |-> "END", flag |-> "OFF"]]

\* register_cta_thread_exit() with its call of the predictor.
ExitAndLearn(core) ==
  /\ CtaExit(core)
  /\ IF core \in WatchedCores /\ kernelOf'[core] = None
       THEN LastSample
       ELSE UNCHANGED table
  /\ Mixing(kernelOf')
  /\ UNCHANGED <<active, low, high, own>>

PredNext ==
  \/ Launch /\ UNCHANGED predVars
  \/ Report /\ UNCHANGED predVars
  \/ IssueAndActivate
  \/ Sample
  \/ \E core \in Cores : ExitAndLearn(core)

PredSpec == PredInit /\ [][PredNext]_allVars

\* Fairness of KernelDispatch, and the sampling period ends again and again.
PredFairSpec ==
  /\ PredSpec
  /\ \A core \in Cores : WF_allVars(ExitAndLearn(core))
  /\ []<>(~CanIssue) \/ []<><<IssueBlocks>>_vars

-----------------------------------------------------------------------------
\* run(), what icnt_cycle() and the L1 cache ask for.
Compresses == table[active] = [state |-> "END", flag |-> "ON"]

Learning == table[active].state # "END"

\* Entries and counts of the predictor keep their values.
PredTypeOK ==
  /\ TypeOK
  /\ active \in Entries
  /\ table \in [Entries -> [state : {"INIT", "MON", "END"}, flag : {"ON", "OFF"}]]
  /\ low \in 0 .. MaxSamples
  /\ high \in 0 .. MaxSamples
  /\ own \in 0 .. MaxSamples
  /\ mixed \in BOOLEAN

\* "Activate the table for the binded kernel": a cluster whose cores run one
\* kernel name at a time asks for and learns the verdict of the kernel it
\* runs. (Two names at once, which a cluster of several cores allows, make its
\* verdicts those of the name bound last, until it is empty.)
LearnsOwnKernel == ~mixed => \A n \in NamesOn(kernelOf) : active = n

\* Samples are credited to a kernel only while the cluster has work: when the
\* last core is released, the learning of the active name is over.
LearningNeedsCore == active # None /\ Learning => NamesOn(kernelOf) # {}

\* A core of the cluster is released in this step.
Released == \E i \in WatchedCores : kernelOf[i] # None /\ kernelOf'[i] = None

\* Outside mixed clusters a name gets its verdict while the cores run it, and
\* from a whole period of samples, all taken since it was activated and while
\* they ran no other.  The exception is the release of a core: it decides at
\* once, whatever the samples.  (hpcl_dyn_comp.cc:130 says of that decision "by
\* default, turn on cache compression"; the code below it turns it off.)
SampledVerdict ==
  [][\A n \in Names :
       ~mixed /\ table[n].state # "END" /\ table'[n].state = "END" =>
         NamesOn(kernelOf) = {n} /\ (Released \/ own' = MaxSamples)]_allVars

\* A verdict is final: a name learnt once is never learnt again, however often
\* its kernels come back and whichever core of the cluster releases them.
VerdictFinal ==
  [][\A n \in Names :
       table[n].state = "END" => table'[n] = table[n]]_allVars
=============================================================================
