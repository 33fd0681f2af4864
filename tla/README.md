# A verification model of the GPU simulator's kernel and reply paths

The repository is GPGPU-Sim 3.x extended with compression of the replies that
memory partitions send to the cores. All code is under `src/src/`. This
directory holds TLA+ models of its core logic, TLC configurations that check
them on small instances, and TLAPS proofs about nine of them.
`PROJECT.json` gives, for every definition, the lines it models; for every
hazard, the properties that watch it; and for every property, a fault of the
code that the property detects.

## 1. The system

A CUDA program's *host threads* call the API; every call becomes an operation on
a *stream*. One *simulation thread* takes operations from the streams, executes
copies at once and gives kernels to the simulated GPU, whose `cycle()` moves four
clock domains: cores (grouped in *clusters*), interconnect, L2 and DRAM.
Everything inside the GPU runs in the simulation thread, one handler after the
other; the difficulty there is not data races but queues that fill up, stages
that stall, and requests merged with and separated from one another. Between
host threads and simulation thread there are races.

| Component | Keeps | Operations | Hard behaviours | Correct when | Model |
|---|---|---|---|---|---|
| Stream manager, simulation threads (`stream_manager.cc`, `gpgpusim_entrypoint.cc`) | operation queues and busy flags of streams, grid map, run flags, locks | push, synchronize, create, destroy, exit; front, do_operation, register_finished_kernel | unlocked scans, spinning with a lock held, exit and limits | stream order, the default stream is a barrier, finished kernels are found, calls return | `StreamManager`, `StreamManagerProofs` |
| Kernel table and CTA dispatch (`gpu-sim.cc`, `shader.cc`) | slots, kernels' CTAs and running count, core bindings, three round robins | launch, select_kernel, issue_block2core, CTA exit, set_kernel_done | two levels of round robin, release and re-binding of cores | each kernel is reported once, all of them finish | `KernelDispatch`, `KernelDispatchProofs`, `GpuKernels` |
| Reply compressor of a sub-partition (`gpu-sim.cc`, `hpcl_comp_*`, `hpcl_rec_comp_*`) | L2 output queue, pipeline registers, two buffers, merge lists | inject, recursive compression, pipeline | stalls, incompressible replies overtaking, merging of merged replies | every reply is sent once, packets can be separated, what nothing overtakes stays in order | `ReplyCompressor`, `ReplyCompressorProofs` |
| Reply decompressor of a cluster (`shader.cc`, `hpcl_decomp_*`) | unit's registers and counter, buffer, response FIFO | icnt_cycle | feeding packets back, switching the unit off and on | an order-preserving channel | `ReplyDecompressor`, `ReplyDecompressorProofs`, `ReplyChannel` |
| L2 cache of a sub-partition (`l2cache.cc`, `gpu-cache.cc`) | lines, MSHRs, miss queue, four queues, request tracker | cache_cycle and the policies of data_cache | merging, eviction with fills outstanding, several requests per access | every request is answered once, no dirty line is lost | `L2Cache`, `L2CacheProofs` |
| Memory partition, DRAM scheduler (`l2cache.cc`, `dram.cc`, `dram_sched.cc`) | credits, latency queue, FR-FCFS queues, banks, return queue | dram_cycle | arbitration, reordering, returns in two places | credits balance, nobody is shut out, rows keep their order | `MemoryPartition`, `MemoryPartitionProofs` |
| L1 compression predictor of a cluster (`hpcl_dyn_comp.cc`) | table of kernel names, active name, miss counts | activate, update_sample_stat, update_last_sample_stat, run | cores of one cluster with different kernels, no active entry | a name is learnt once; while a cluster runs one name at a time, from samples of its own kernel or, without enough of them, at the release of a core | `CompressionPredictor`, `KernelDispatchProofs` |
| Load/store unit, L1 caches (`shader.cc`, `scoreboard.cc`, `gpu-cache.cc`) | dispatch register, shared memory pipeline, response and fragment FIFO, MSHRs, pending writes, scoreboard, counters of warps, decompressor of the cluster | issue, cycle, writeback, fill, store_ack, retirement by fetch | hits, merged misses and answers of one load in any order, reuse of warp slots | a register is released with the last answer, a slot is reused when nothing is left of its warp | `LoadStoreUnit`, `LoadStoreUnitProofs` |
| Core pipeline, SIMT stack, barriers (`shader.cc`, `abstract_hardware_model.cc`, `ptx_ir.cc`) | program counters and stacks, instruction buffers, fetch buffer, barrier sets, scoreboard | fetch, decode, issue_warp, flush, writeback, simt_stack::update, warp_reaches_barrier, warp_exit | divergence with barriers and exits, flushes with a fetch under way | no thread lost or run twice, barriers hold and release, every CTA ends | `ShaderCore`, `ShaderCoreProofs` |
| Clock domains, deadlock_check | next tick of four clocks | next_clock_domain | floating-point comparison | all domains tick | every tick order allowed instead |
| Interconnect (`intersim2`, `icnt_wrapper.cc`) | routers | push, pop | multicast | per source and destination in order | channel only |
| Functional simulator, runtime API, options, power, statistics, compression arithmetic | | | | | not modelled |

**Interaction.** The API pushes operations on streams (`StreamManager`); the
simulation thread launches kernels, which `KernelDispatch` issues to cores and
reports back through `m_finished_kernel`. Cores send requests to `L2Cache`,
which sends misses to `MemoryPartition`. Answers leave the L2 through
`ReplyCompressor`, cross the network, and enter the cluster through
`ReplyDecompressor`, which hands them to the response FIFO of `LoadStoreUnit`.
`ShaderCore` issues the instructions that `LoadStoreUnit` executes; both know the
scoreboard and the count of instructions in the pipeline, on which the retirement
of a warp depends. `CompressionPredictor` is driven by the binding and release of cores in
`KernelDispatch` and decides what the L1 caches in `LoadStoreUnit` do. `m_request_tracker` of every sub-partition and the kernel
counts are what `gpgpu_sim::active()` asks; `StreamManager` in turn decides by it
when the simulation loop ends.

Request coalescing and the global dictionary are compiled out (only `REC_COMP` is
defined), as is `#ifdef old`.

## 2. Modules

**StreamManager.** Locks are variables: `m_lock` (`lock`) and `g_sim_lock`
(`simLock`). A section under a lock that waits for nothing is one action; a
section that spins under a lock (`destroy_stream()`, `operation()`) takes and
releases it in separate actions. `empty()` reads the streams without the lock,
hence one action per stream it reads (`ScanStream`). The simulation thread's
program counter is `gpc`. The GPU is reduced to its kernel slots, its finished list
and whether traffic is still draining; `Cycle(ended)` lets any set of kernels finish in
any order. Copies of all kinds and events are one kind of operation: they take effect and
are popped at once. Kernels get uids in the order pushed. A second
simulation thread, which `start_sim_thread()` could create while the first has
still to exit, is not modelled.

**KernelDispatch**, **GpuKernels.** One `IssueBlocks` action is one pass over the clusters,
`ClusterIssue` applied to each in turn. The threads of a CTA are reduced to its exit. `init()`
sets the CTA count back to 0, so a behaviour is one simulation. All kernels have
the same `max_cta()`; a grid has at least one CTA. `GpuKernels` is the view
`StreamManager` has of the GPU, kernels that are launched and some time later
finished, once each and in any order; `KernelDispatch` implements it (`KernelSpec`).

**CompressionPredictor** extends `KernelDispatch` with the predictor of one cluster
(`Watched`; the predictors share nothing). The table is a function of names; index -1, which
is read before the first activation, is the entry `None` (hazard at hpcl_dyn_comp.cc:143). Only the
counts that the code writes are kept: the `m_prev` counts are never incremented. Samples
before the first activation and programs of more than 32 kernel names are left out.
`MCCompressionPredictor` gives three kernels two names.

**ReplyCompressor.** `IcntCycle(room)` is one cycle of
`push_mf_from_mc_to_icnt_in_crossbar_with_reply_compression()` for one
sub-partition, in the code's order: inject, merge one, run the pipeline. Whether
two replies compress well together depends on their data, so merging may succeed
or not. The FPH arm is `announced`, the merging algorithm `merging`. L1 and L2 write-backs never reach the output
queue (DRAM deletes them, dram.cc:225, and L2 hits delete an L1 write-back), so the
branches of `top()` and `pop()` that delete them are left out. Not modelled: the
hybrid DSC/LWM arms, the mesh path, and the path without compression.

**ReplyDecompressor**, **ReplyChannel.** `IcntCycle(room)` is
`simt_core_cluster::icnt_cycle()`. The counter `m_current_data_cnt` is a state
variable of its own because the mode switch trusts it. The predictor is a
switch that moves at any time (`SwitchCache`). `ReplyChannel` says what the cluster
promises: replies reach the cores in order of arrival; `ReplyDecompressor` implements it by
the refinement mapping `Owed`, the concatenation of its buffers.

**L2Cache.** `CacheCycle` is the composition of the four stages of `cache_cycle()`,
written as functions of the sub-partition's state `sp`, the last being
the cache access with its three write policies. The lines of one set are
a sequence, least recently used first; an INVALID line is one that is absent.
Whether the fill port or the data port is free is left open. Below the
sub-partition, DRAM answers in any order. Not modelled: atomics, allocation on
fill, FIFO replacement, a texture-only or disabled L2, the ROP delay, flush.

**MemoryPartition.** `DramCycle` is `dram_cycle()`, with `dram_t::cycle()` and the
FR-FCFS scheduler in it. DRAM timing parameters decide only *when* a transfer
ends, *when* the latency is over and *which* bank issues; these are
nondeterministic, and a request's commands are reduced to the last one. `open` is
the row a bank is going to have open when it is scheduled next: `m_last_row`
always is that row's list or NULL. The bank determines the sub-partition, as in
`addrdec_tlx()`. The `L1_WRBK_ACC` branch of `dram_cycle()` cannot be reached
(dram.cc deletes write-backs before the return queue) and is left out. Not
modelled: the FIFO scheduler, unlimited queues.

**LoadStoreUnit.** The cores of one cluster with the L1 decompressor they share.
`Cycle` is `ldst_unit::cycle()` in its order: writeback with its
arbiter, the shared memory pipeline, the response FIFO, then constant, texture and memory
stage for the instruction in `m_dispatch_reg`, one access at a time. Tags, lines and MSHR entries of the L1 caches
are reduced to what an access meets: hit, miss, merge with an outstanding or answering
entry, or refusal (`Refused`): something is outstanding, or, in a cache that allocates on a miss
(`OnMiss`), all `Ways` lines of the set are reserved (`SetFull`). `Blocks` are the blocks of one set. A line is reserved
while its block is fetched; one that a miss reserves when it joins requests that are only being answered
is never filled (`lost`) unless its block is fetched anew, as in the L2 (`l2_leak`). Whether ports,
banks and network are free is open, as is the answer of the memory. A CTA is one warp. Not
modelled: atomics, loads of vectors, `gpgpu_perfect_mem`, an L1 that allocates on writes,
the flush of the L1 between kernels (`-gpgpu_flush_l1_cache`), and memory barriers, which `ShaderCore` has. `MCLoadStoreUnit` gives the program.

**ShaderCore.** Fetch, decode, issue, flush and completion are separate actions taken in
any order, a superset of the order in which `shader_core_ctx::cycle()` calls the stages. `Fetch` is
one call of `fetch()` with its scan of all warps: it may reclaim several and free CTAs. The
scheduler's choice among warps is open, so every policy is covered. Functional execution is reduced to the
next pc of the threads: a branch is taken by any subset of its lanes that its
condition allows, and `rpc` is its immediate postdominator, as `find_ipostdominators()` of
`ptx_ir.cc` computes it: `IsProgram`, part of the assumption on the kernels, says so for every branch on
which lanes may part, and that the end of the kernel can be reached from everywhere. The exit
block is pc 0: a branch with `rpc` 0 reconverges only where its threads end.
A load writes its register at some time after it leaves the pipeline (`Written`).
Not modelled: calls and returns, predicated exits, `bar.red`, atomics, warps with missing threads, register banks
and the widths of pipeline registers. `MCShaderCore` has the kernels.

The type invariants are checked as a conjunct of the property that bounds the buffers
(`OncePerReply`, `OncePerRequest`, `CreditsMatchInFlight`) or proved.

Operators whose comment begins with "Fault:" are not used by any specification.
Each is a plausible mistake in one definition, kept to show that a property notices it.

## 3. What TLC checks

Constants are plain numbers, model values and sets of them, given by the `.cfg` files;
where they are programs or functions an MC module defines them. Options the program reads
once, before the first cycle, are variables that `Init` chooses from a set of
configurations, so that one run covers all of them. Every history variable or bound that
exists only for checking is marked "history", "ghost" or "bound". Deadlock checking is off in
`stream_one_host` and `stream_slots` only, where the program may destroy a
stream with work in it and then really stops: `destroy_stream()` spins with the lock that the
simulation thread needs.

| Run | Question | Bounds and why they are enough |
|---|---|---|
| `stream_one_host` | CUDA semantics for one thread with every call, with a limit that may be reached at any time | 2 streams, 3 operations, 2 slots: two kernels run while a third waits; the default stream before, between and after |
| `stream_live` | whatever the program calls, does every call return, and does every operation take effect as long as the simulation thread is not told to exit | 2 operations, every call, exit included |
| `dispatch_kernels` | counts, slots, turns, end of kernels, refinement of `GpuKernels`; what the predictor learns | 3 kernels of up to 3 CTAs for 2 slots, so that slots are reused; 2 clusters of 2 cores, so that both round robins matter; two kernels share a name and two do not, two samples decide |
| `comp_replies` | pipeline, stalls, FPH messages, merging, injection | 3 clusters, 4 replies, a two-stage pipeline, buffers of 1 and 3 entries: more replies than the buffers hold, and replies merged into merged replies. The algorithm "diff" is "diff same" without its last step and is left out |
| `decomp_replies` | channel refinement, counter, delivery | 5 replies; packets of up to 3 with one stage, single replies with three; "decompress" is "adaptive" with a predictor that never switches and is left out |
| `l2_requests` | the write policies, queues, dirty lines, end of requests | 2 blocks for one line, 4 requests of three kinds, queues of size 1, a miss queue of the size one access needs, two MSHRs of one or two requests |
| `part_requests` | credits, queues, turns, order within rows, service | 2 sub-partitions, 2 banks, 2 rows, 3 requests; with one shared credit a single sub-partition can use up what it may have, with a scheduler of two entries requests are reordered |
| `load_store` | pending writes, scoreboard, retirement, the decompressor of the L1 | one core, 2 warps with one register each, 3 instructions out of one of every path: a load of two blocks that both warps may merge, a store that stays or is sent; the decompressor has two stages and compression comes and goes; a response FIFO of one entry; two constant blocks and two global ones for one line, so that a lost line blocks the other block |
| `core_warps` | barriers, stacks, flushes, counts, end of CTAs | five kernels: branches that reconverge, nested, and into an exit, a counted barrier twice behind a memory barrier, a producer and its consumer; 2 warps of 2 threads, 2 CTAs one after the other in one slot, an instruction cache access that does not hit |

The remaining runs are expected to fail; each shows a disagreement between the code
and what a comment or option of the repository says of it:

| Run | What happens |
|---|---|
| `stream_slots` | a kernel for which no slot is free is marked as started and never launched; its stream hangs |
| `decomp_dsc` | the DSC arm overwrites the rest of a packet it has just fed back |
| `l2_leak` | a miss merged into an MSHR entry that is already filled reserves a line that nothing will fill; the set stays blocked until that block is asked for again |

More disagreements have no run of their own:

* A unit of several stages drops the rest of a merged packet (shader.cc:4015): with
  `MergedDepths` holding a depth above 1, `ChannelSpec` fails.
* `-gpgpu_max_cta` is compared with a counter that nothing increments (gpu-sim.cc:1542).
* `-hpcl_rec_comp_max_pkt_no` is read only in a method nobody reaches.
* The break that should re-initialise the GPU between kernels (gpgpusim_entrypoint.cc:133) is not
  taken when one `operation()` retires a kernel and launches the next.
* When `-gpgpu_max_cycle` or `-gpgpu_max_insn` is reached with operations queued, `active()`
  is false for ever and the loop of gpgpusim_entrypoint.cc:141 goes on as long as a stream
  has work, which no cycle will take away (gpu-sim.cc:618).
* `m_warp_at_barrier` does not say at which barrier (shader.cc:2937): a warp that has arrived at one with
  `bar.arrive` and waits at another is released when the first is complete. `BarriersHold` fails
  for the kernel `ProduceConsume` of `MCShaderCore` with `BarIds = {0, 1}`.
* Two cores of a cluster share the decompressor of compressed L1 lines, and what leaves
  it answers the access of whichever core calls it (shader.cc:1524): with two cores `UnitHoldsOwn` and
  `WarpsRetire` fail.
* What `l2_leak` shows for the L2 holds for the L1 caches too, which share `send_read_request()` (gpu-cache.cc:1467):
  a set whose lines are all reserved for nothing refuses other blocks for ever (gpu-cache.cc:412-500), and with
  them whatever the core has behind that access. `WarpsRetire` makes an exception of such a core (`Starved`), and fails
  without it for the constant cache and, where it allocates on a miss, for the data cache.
* A memory barrier waits for loads only: the scoreboard knows no stores (shader.cc:3039).
* `exit_simulation()` waits for the simulation thread, not for the streams, and a loop told to exit ends
  without a last look at them (gpgpusim_entrypoint.cc:151-160): what is pushed
  without waiting in the meantime stays queued unless `start_sim_thread()` is called again. `OpsComplete`
  therefore speaks of programs that do not tell it to exit.
* "by default, turn on cache compression" (hpcl_dyn_comp.cc:130) stands above the line that
  switches it off: a kernel that releases a core undecided is `CACHE_COMP_OFF` for good. `CompressionPredictor` follows the line.
* Two kernel names in one cluster share the active entry (hpcl_dyn_comp.cc:107): the samples of both, and
  the release of a core of either, decide about the name bound last. `LearnsOwnKernel` and
  `SampledVerdict` leave such clusters out (`mixed`).
* The 33rd kernel name trips the assertion of hpcl_dyn_comp.cc:46.

Because of `stream_slots` the passing stream runs have as many
slots as there are kernels that can overlap; because of `decomp_dsc`
and shader.cc:4015 the passing run of the decompressor uses the guarded arm, with one stage or
unmerged packets; because of `l2_leak` `AllEnd` speaks of entries of one
request and `WarpsRetire` leaves starved cores out; because of the shared decompressor and of `m_warp_at_barrier` `load_store` has one core and `core_warps` one
barrier. The safety properties of the L2 hold with merging. The liveness run of the
stream manager assumes that the program drains a stream before it destroys it
(`DrainFirst`) and reaches no limit. The passing stream runs set `Blocking` to FALSE: blocking
launches only take calls away from the program. Races between several host threads are
not run: what they could break, the order of operations and the lookup of
finished kernels, is proved for any number of them.

**Fairness.** `StreamManager`: strong fairness of the simulation thread and of every
call that has been made, because both compete for mutexes that others take and
release again and again (the code has no queueing locks, so this is an assumption
about the scheduler of the operating system), and kernels end. Which calls a program makes, and whether it
makes another, is its own affair: nothing is fair about the start of a call, that of
`start_sim_thread()` included. `KernelDispatch`: cores are clocked, CTAs end, and
blocks are issued in every core cycle. `LoadStoreUnit`: the core is clocked, ports, banks and the
network become free in the same cycle again and again, the memory answers, and the scan of `fetch()`
comes to every warp (weak). `ShaderCore`: some stage of the core makes a step
whenever one can (weak); the kernels have no loops, so no order of the warps is needed. The reply path: the clock ticks and
the network or the core has room again and again; such a cycle is enabled as long as a reply waits,
so weak fairness expresses it. `L2Cache` and
`MemoryPartition`: clocks tick, ports and banks become free, DRAM serves some request
(weak); the starvation FR-FCFS allows under an unbounded
stream of row hits is not visible, because a behaviour has finitely many requests.

## 4. What is proved

Nothing is assumed but the named assumption of each component's constants, and where the code needs more a
hypothesis the table names (one host thread, unmerged packets, one core to a cluster, barriers for whole CTAs); every
theorem holds for the safety part of the specification, without fairness.

`StreamManagerProofs` proves, for all sets of streams and host threads, any number of slots
and operations, with or without limit, blocking launches or draining, and from
`StreamAssumption` alone:

| Theorem | Statement |
|---|---|
| `TypeCorrect` | `Spec => []TypeOK` |
| `FinishedIsFront` | a kernel on the GPU or reported finished is in the grid map and is the front operation of the stream it is mapped to: the lookup and the assertion of `register_finished_kernel()` |
| `ReportedOnce` | no kernel is in two slots, reported twice, or reported while in a slot |
| `DefaultExclusive` | the default stream and another are never both in progress |
| `NoDangling` | no operation queued, in progress or launched, and no grid map entry, belongs to a destroyed stream (the handle another thread has still to pass to a call may) |

None of these is inductive. `IInv` adds: a stream in progress has a front operation
(`PendingHasFront`); an operation is queued only where it was pushed, hence under one uid
(`QueuedAtOrigin`); streams with work are listed (`WorkIsListed`); the flag
`m_service_stream_zero` separates the default stream from the others
(`ServiceSeparates`); and the operation `front()` has returned is in progress, mapped if it is a
kernel, and not on the GPU yet (`CurrentIsFront`). The last carries the argument
across the gap between `front()` and `do_operation()`. The proof has
one lemma per group of actions; `QuietInv` covers all steps that leave the queues
and the GPU alone.

The second part of the module stands on that invariant and proves, for any number of host threads:

| Theorem | Statement |
|---|---|
| `OrderInductive` | every operation that was pushed is done or queued on its stream (`DoneOrQueued`), and every queue is in the order of the pushes (`Ascending`) |
| `EachStreamInOrder` | an operation takes effect after all earlier ones of its stream |
| `KernelsStart` | with at least as many kernel slots as streams (`SlotsSuffice`), an operation in progress has been started |

The steps that touch queues are first reduced to two, `Pushed` and `Popped`. `KernelsStart` is a
pigeonhole argument: kernels in slots belong to different streams, and the stream whose
kernel `front()` returns has none in a slot, so a slot is free (`FreeSlot`). It needs that
the lock is held from the test to the launch (`LockHolders`). The run `stream_slots` shows that its
hypothesis is needed.

The third part stands on both and proves what CUDA promises to one host thread (`OneHost`), for any
number of streams, slots and operations:

| Theorem | Statement |
|---|---|
| `DefaultBarrier` | an operation of the default stream takes effect after everything pushed before it, and before everything pushed after it |
| `SyncQuiescent` | when `synchronize()` returns, no stream has work and the GPU is idle |

While the default stream has an operation, it is the last one pushed, its `push()` has not
returned, and all other streams are empty (`ZeroBlocks`). A scan of `empty()` that has found nothing
has still to read every stream with work (`ScanIsRight`), and `g_sim_active` is set while the
simulation thread is in its inner loop (`SimInv`). With two host threads neither theorem holds, as both
`push()` and `empty()` look at the streams without the lock.

`KernelDispatchProofs` proves, for any number of kernels, CTAs, slots, clusters and cores,
from `DispatchAssumption`:

| Theorem | Statement |
|---|---|
| `TypeCorrect` | `Spec => []TypeOK`; a core never holds more CTAs than `max_cta()` |
| `CountsCorrect` | the running count of a kernel is the number of cores bound to it, and a core is bound exactly while it has CTAs |
| `SlotsCorrect` | a kernel with work has exactly one slot, a kernel that is done has none |
| `TableImplements` | `Spec => KernelSpec`: the kernel table implements `GpuKernels` |

The three invariants need one another: a kernel leaves its slot when the count says that its
last core is gone, and launch() may use a slot whose kernel is done by the same count.
`IInv` adds that kernels not launched are done (`FreshAreDone`). One cycle of
`issue_block2core()` is a loop, the recursive function `Pass`; `Issued` is its loop invariant.
The library's induction theorems cannot be used for it, as they take an operator. The proof
uses a theorem of the library about well-founded relations instead, which takes sets: every
non-empty set of natural numbers has a least element (`LeastNatural`), so there is no first cluster
at which `Issued` fails (`PassIssued`), and none up to which `Pass` is undefined (`PassDef`).

`ReplyDecompressorProofs` proves, for any set of replies, pipeline depth, sizes and mode, from
`DecompressorAssumption`:

| Theorem | Statement |
|---|---|
| `Bounded` | `Spec => []BuffersBounded` |
| `Counts` | `Guarded` implies `Spec => []CountsPending`: the counter that decides whether the unit is flushed counts the replies in it |
| `Delivers` | `Guarded` and `MergedDepths \subseteq {1}` imply `Spec => ChannelSpec`: the cluster hands replies to its cores in the order of their arrival |

`Bounded` needs that a packet never holds more than `MaxPacket` replies (`PacketsBounded`), as a
packet that bypasses the unit enters the FIFO as a whole. `Counts` rests on `Shift`: moving the
stages on by one maps the occupied stages, but for the last, one to one to the occupied stages after
it, but for the first. The hypothesis `Guarded` is the one the DSC arm lacks; `DecompDsc` shows what
happens without it. `Delivers` is a step-by-step refinement: a reply that arrives is appended to
`Owed`, one that a core takes is its head, and every movement inside the cluster leaves `Owed` as it
is. For that the replies in the unit must be older than those in the buffer behind it, or the buffer empty,
which `Counts` gives, and a merged packet must be the only one in the unit while it is opened,
which is true of one stage and false of several (shader.cc:4015), hence the second hypothesis. What
`FlattenSeq` gives for a sequence with an element more or less, which would need induction, is
proved as for `Pass` above: `LeastNatural` gives the first length at which it could be wrong.

`KernelDispatchProofs` also proves about `CompressionPredictor`, from the assumptions of
`KernelDispatch` and `PredictorAssumption`:

| Theorem | Statement |
|---|---|
| `PredictorDispatches` | `PredSpec => Spec`: the predictor only watches, so the theorems about the dispatch hold with it |
| `PredictorTypes` | the predictor's variables keep their types |
| `OwnKernelLearnt` | a cluster that runs one kernel name at a time asks for and learns the verdict of that name |
| `LearningStops` | nothing is learnt while no core of the cluster is bound |
| `VerdictSampled` | in a cluster that runs one kernel name at a time, a name gets its verdict while the cores run it: at once when one of them is released, whatever was sampled, and otherwise from as many samples as configured, all since its activation and with no other name running |
| `VerdictsStand` | a verdict is never changed |

The invariant `PredInv` ties the active name to the names of the bound cores as long as they are all the same;
`CountsOwn` bounds both miss counts together by the samples taken since the activation while the cores ran
no other name (`own`, a history variable).

`MemoryPartitionProofs` proves, for any number of sub-partitions, banks, rows and requests and any
sizes of the queues, from `PartitionAssumption`:

| Theorem | Statement |
|---|---|
| `RowsInOrder` | `Spec => []SameRowInOrder`: requests for one row are served in the order in which they were sent |
| `CreditInductive` | `Spec => []CreditInv`: credits, queues and requests agree |
| `CreditsCorrect` | `Spec => []CreditsMatchInFlight`: the arbitration's private and shared credits are those of the requests between borrowing and return, the shared limit holds, and no queue outgrows its size |
| `TurnsFair` | `Spec => TurnsTaken`: a sub-partition that can issue is not passed over for the one that issued last |

The requests of a bank pass a line of seven queues (`Line`), from that of their sub-partition to the
list of those served, and `PartInductive` says that along it requests for the same row are in the
order of their ids. A DRAM cycle is a composition of seven functions of the partition's state. Each
of them does one thing to the line of a bank (a request moves up, the first few do, one
leaves, one of another bank joins), and that this keeps the order is proved once for all lines:
the requests left have places in the old line, in the same order (`Embedded`). Only the
scheduler takes a request that is not the first, and it is the oldest for its row (`ChosenOldest`).

For the credits the same seven functions each keep `Sound`: types, sizes, and for every
sub-partition as many credits as it has requests in flight (`Balanced`). A stage carries a request from one
queue in flight to the next (`Carries`), takes it out for good (`Repays`), or brings it in with a
credit (`TakesCredit`). Shared credits stay within the limit because only sub-partitions that have used up their
private ones borrow (`BorrowersBound`). `mrqq` is filled unasked by `dram_t::push()`, but never holds more than
the two requests that `Passing` says. For the turns it is enough that the search from the
successor of the last borrower meets every sub-partition once before the borrower itself
(`SuccessorTurns`, `TurnFound`).

`ReplyCompressorProofs` proves, for any number of clusters and replies, any depth of the pipeline, any sizes of
the buffers and every merging algorithm, from `CompressorAssumption`:

| Theorem | Statement |
|---|---|
| `Inductive` | `Spec => []IInv`: places, packets, buffers and order agree |
| `OnceEach` | `Spec => []OncePerReply`: every reply that arrived is at one place from the L2 queue to the interconnect, what is merged is in a packet, and both buffers keep their sizes |
| `Separates` | `Spec => []PacketsSeparable`: packets are one or two levels deep and have one entry per cluster |
| `InOrderReads` | `Spec => []ReadsInOrder`: without multicast packets the compressible replies to a cluster stay in order; without merging each follows its FPH control message |

Every action is a sequence of at most three *moves* of one reply each (`Sends`, `Keeps`, `Joins`, `Runs`, ...),
predicates of two states as records; the states between the stages of a cycle are `Sent` and
`Compressed`. `SendStep`, `MergeStep`, `CompressStep` and `ArriveStep` show it, and each part of the
invariant `Sound` is kept by every move (`MovesSound`), so the composition of a cycle matters to no other
lemma. A reply is at one place (`Located`) because a container loses what another gains, as in
`L2CacheProofs`; a step of the pipeline, in which all registers move, is one reply less at its end (`LastLeaves`) and one more at its beginning
(`FirstTakes`).
`PacketsSeparable` needs that what waits in the compression buffer has nothing merged into it, which is
`Opened`: only what has entered the recursive compression buffer, or is merged below such a head, hosts
replies. For the order, a state's entries are slots of five rows from the interconnect back to the L2
queue (`Ordered`). A move that shifts entries has a function from the new slots to the old ones that
keeps which is ahead of which (`Back`), so nothing is reordered; only a reply without data goes
round the pipeline, and it has no place in the order. A merge puts a reply ahead of what lies between its host and
the end of the buffer; the order survives because `get_mem_fetch_to_same_sm()` returns the *newest*
entry of the cluster, so nothing to that cluster lies between (`JoinsOrdered`). With `MAX` replaced by any entry
`ReadsInOrder` fails. The FPH messages are counted along `Line`, interconnect and buffer as one
sequence, which injection leaves as it is.

`L2CacheProofs` proves, for any number of blocks, ways, MSHR entries and requests, all sizes of the queues
and every policy, from `L2Assumption`:

| Theorem | Statement |
|---|---|
| `Inductive` | `Spec => []IInv`: lines, MSHRs, queues and the request tracker agree |
| `FetchMatched` | `Spec => []FetchMatchesEntry`: an answer from below finds its MSHR entry, not ready, and its line, still reserved |
| `AnsweredOnce` | `Spec => []OncePerRequest`: every request is in one place or ended, the tracker holds those not ended, no queue outgrows its size |
| `DirtyKept` | `Spec => DirtyLinesWrittenBack`: a modified line of a write-back cache leaves the set only with its write-back |

Requests are in eight containers, the queues, the MSHR entries and the set of fetches below. A stage of
`cache_cycle()` moves one from one container to another (`Loses`, `Gains`). A *token* says what to look for in
each container; there is one for every request and one for every fetch. That a token is at one
place (`Once`), or at none (`Never`), is kept by every move (`PlacedMoves`), whatever is moved, so each stage has
only to be shown to be a move. For the cache access, the one stage that may move several requests, the argument is per policy: a
hit answers or marks the line, a miss that merges joins an entry, a new miss reserves a
line and puts fetch and eviction into the miss queue, for which it has asked for room. The lines
of a set are of different blocks (`SetOfLines`), every fetch has its reserved line (`Reserves`) and its
entry (`Matches`), and the sizes hold (`Limits`, `Sizes`); that a line that moves to the end of the LRU order or is
evicted disturbs no other is proved once (`Keeps`), that no modified line goes without its write-back
likewise (`Saves`).

`ShaderCoreProofs` proves, for any number of CTAs, warps and lanes and all programs, from
`ShaderCoreAssumption`:

| Theorem | Statement |
|---|---|
| `FetchCurrent` | `Spec => []FetchIsCurrent`: what `fetch()` has got or awaits is for a running warp with an empty buffer, and still its next instruction |
| `StacksMatch` | `Spec => []StackMatchesThreads`: the SIMT stack of a warp holds its running threads, each at the pc of its topmost entry, and its entries reconverge where the entries below wait |
| `PipelineCounted` | `Spec => []PipelineCountMatches`: `inst_in_pipeline()` is what the buffer and the pipeline of the warp hold |
| `CtasSynchronized` | `OnlyWholeCta(p)` for all programs implies `Spec => []BarriersHold`: nobody goes on behind `bar.sync` before all running warps of the CTA have come as often, and nobody is left behind |

The inductive invariant `CoreInv` has three parts.

*Fetch* (`FetchInv`). A launch could give a warp with a fetch under way to another CTA.
`ReclaimedAreDone` excludes it: a slot is free when all its warps have been reclaimed, and only
warps that are done are. That two slots never share a warp (`DisjointWarps`) is arithmetic.

*Stacks* (`StackInv`). What the run checks is not inductive: after a branch nothing in it keeps an entry from
reconverging at a pc that its threads never reach. `StackOk` adds that every entry but the first stands where all ways
lead through its reconvergence point (`Before`). That survives a step, because what follows such an
instruction does too or is that point (`BeforeStep`), and a branch adds entries at places that
lead through its postdominator. The entry below is set to that postdominator; that it then
still leads through its own `rpc`, or is there already, is the immediacy of the postdominator (`Reconverges`), and
two instructions cannot each lead through the other because every kernel has a way to its end
(`BeforeOnce`). Whatever the instruction, `update()` is one of four steps on the stack: the lanes
of the top entry go on together (`TogetherOk`), reach the reconvergence point and wait
in the entries below, end (`ExitOk`), or part in two directions (`ApartOk`). No property of how the kernel is
written is needed beyond `IsProgram`: loops and jumps into branches are covered.

*Counts* (`CountInv`). The instructions in the pipeline are a bag, whose size the library defines by recursion over
sets. That one more or one less changes the size by one (`BagAdd`, `BagRemove`) is an
induction the provers cannot do; it is proved instead with a smallest set for which it fails
(`SmallestSet`), which also gives that the recursion defines a function at all (`SumsExist`).

*Barriers* (`BarInv`, on top of `CoreInv`). `OnlyWholeCta` says that every barrier of a kernel is `bar.sync`
without a count or with that of all warps of the CTA, as `__syncthreads()` is; four of the five kernels of
`core_warps` are of this kind, `Produce` with its `bar.arrive` is not. The hypothesis cannot
be dropped: a warp that arrives twice, or a barrier for two of three warps, pairs different rounds of different warps,
and section 3 has a kernel with two barriers. What is inductive is not about histories
but about rounds that are *over* (`Over`): those a warp has reached, without the one it waits in.
`Waits` says that no warp of a CTA, running or not, has more rounds of a barrier behind it than a
running one, that a warp waits at one barrier at most, and that only running ones wait. Arriving changes
nothing in it (`ArriveWaits`). When a barrier is complete, all running warps of the CTA
wait at it, because as many warps as the CTA has are all of them (`AllOfCta`), so one more round is over for all
at once (`ReleaseWaits`); the same lemma serves the exit of a warp, which may complete several barriers.

`LoadStoreUnitProofs` proves, for any number of cores, warps, registers, blocks and instructions, any
program, size of the response FIFO and depth of the decompressor, from `LoadStoreAssumption`:

| Theorem | Statement |
|---|---|
| `Inductive` | `Spec => []IInv`: every access of a load is in one place, its register is reserved by one load, counts and places agree, and a warp slot that is free has nothing left |
| `AllCounted` | `Spec => []CountsMatch`: the assertion of `writeback()`, the counts of stores and of instructions in the pipeline |
| `RegistersProtected` | `Spec => []ReservedUntilWritten`: a register is reserved exactly between the issue of a load and its last write-back |
| `RetiredDrained` | `Spec => []RetiredIsDrained`: `fetch()` gives up a warp when nothing in the core or on its way to it names it |
| `UnitAnswersOwn` | `Cores = {c}` implies `Spec => []UnitHoldsOwn`: the decompressor of a cluster with one core answers the access that entered it |

What the run checks is not inductive in any of its parts. That `m_pending_writes` is right after an answer needs
that an answer is of an access somebody still waits for, and of each only one: `Places` says where
an access may be, that a request belongs to an access in an MSHR or in the fragment FIFO, and that a
block has one request. That it is right after a miss needs that the access is not
outstanding already: `Ahead` says that none of the blocks a load still has to access is. That the release of
a register frees it for nobody else needs that one load has reserved it: in `Held` what holds a
register adds up to 0 or 1, over the operand collector, the shared memory pipeline, the
write-back register and the pending writes. `Between` holds when a cycle has ended, not inside it: a
load without accesses to make leaves in the cycle of its last one unless answers are
outstanding, and otherwise `writeback()` could not release what `cycle()` still looks up.

`cycle()` is a sequence of stages, each a function of the record of one core. `Keeps` is what
a stage does: it keeps `Sound`, the part of the invariant about a core, and leaves a drained warp
drained. It is proved for `Written`, `NextWriteback`, `MovePipe`, `Respond`, each kind of access (hits, misses
of the three ways, texture, constant, bypass, stores, the compressed mode) and `Leave`, and
`CycleKeeps` puts them together; issue, `ldst_unit::issue()` and replies follow alike. The counts are
followed through the set `Outstanding`, from which a stage takes one access, to which it adds one or
which it leaves, whatever it moves within (`AwayLess`, `AwayMore`). The operand collector is a bag;
its instructions are counted as pairs with the number of the copy (`CopiesAdd`, `CopiesRemove`), so that no
recursion is needed.

Nothing in `Sound` depends on what is in the decompressor, so the first four theorems hold with several cores
too, although one may be answered with the data of another. `UnitAnswersOwn` is about that, hence its hypothesis
(section 3). It needs the others: a launch may switch compression off only when all slots are
free, and then `RetiredDrained` says that no load can be in the decompressor.

Only model-checked: all liveness, and `BarriersHold` for kernels with `bar.arrive` or with barriers for some of the warps
of a CTA. Liveness and ENABLED are out
of the prover's reach, and so are the library's theorems of induction, which take an operator. No
module has a RECURSIVE operator.

## 5. Not modelled, and what could follow

The models cover what decides *when* and *whether* something happens in the simulated GPU.
The larger part of the repository is of another kind, and the modules say nothing of it:

* The PTX parser and interpreter (`cuda-sim`) and the CUDA and OpenCL runtime API compute what
  a kernel computes; the timing side sees only instructions and addresses.
* `gpuwattch`, the statistics and the visualizer observe: nothing they compute comes back.
* `intersim2` is a simulator of its own (BookSim) for networks of every topology; what is used of
  it here is that one source and one destination keep their order.
* Compression sizes (`hpcl_comp.cc` and the `_proc` classes) are arithmetic over data words. Which
  replies fit together is left open in the models, so they hold for every outcome.
* Code compiled out in this configuration: request coalescing, the global dictionary, `#ifdef old`.
* `next_clock_domain()` compares floating-point times; every order of the domains is allowed instead.

Of the core logic these are left, in the order of their worth: the composition `ReplyPath`
(compressor, network with multicast, decompressor: every reply reaches the cluster that asked, once); the
composition `MemoryPath` (a sub-partition of `MemoryPartition` implements the any-order memory that
`L2Cache` assumes); the hybrid DSC/LWM arms of compressor and decompressor; atomics in the L2 and the load/store unit;
calls and returns in the SIMT stack.
