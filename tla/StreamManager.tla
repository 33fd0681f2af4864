--------------------------- MODULE StreamManager ---------------------------
(***************************************************************************)
(* The stream manager and the simulation thread: host threads enqueue      *)
(* operations on CUDA streams, one simulation thread takes them from the   *)
(* front of the streams, runs copies at once and hands kernels to the      *)
(* simulated GPU.  Translated from stream_manager.cc,                      *)
(* gpgpusim_entrypoint.cc (concurrent thread) and the kernel table of      *)
(* gpu-sim.cc.                                                             *)
(***************************************************************************)
EXTENDS Naturals, Sequences

CONSTANTS
  Streams,    \* streams the program may create
  Zero,       \* m_stream_zero, the default stream
  Hosts,      \* host threads that call the API
  Gpu,        \* the simulation thread, as a holder of m_lock
  NoOne,      \* a free mutex
  Slots,      \* gpgpu_max_concurrent_kernel, size of m_running_kernels
  MaxOps,     \* bound: operations pushed in a behaviour
  Blocking,   \* m_cuda_launch_blocking
  HasLimit,   \* -gpgpu_max_cycle or -gpgpu_max_insn is configured
  DrainFirst, \* the program synchronises a stream before it destroys it
  Calls       \* the API calls the program makes

Kinds == {"copy", "kernel", "functional"}
AllCalls == {"push", "sync", "streamSync", "add", "destroy", "exit"}

ASSUME StreamAssumption ==
  /\ Zero \notin Streams
  /\ NoOne \notin Hosts \cup {Gpu}
  /\ Gpu \notin Hosts
  /\ Slots \in Nat \ {0}
  /\ MaxOps \in Nat
  /\ Blocking \in BOOLEAN
  /\ HasLimit \in BOOLEAN
  /\ DrainFirst \in BOOLEAN
  /\ Calls \subseteq AllCalls

VARIABLES
  ops,        \* m_operations of every stream
  pending,    \* m_pending of every stream
  list,       \* m_streams
  service,    \* m_service_stream_zero
  gridMap,    \* m_grid_id_to_stream
  lock,       \* holder of stream_manager::m_lock
  running,    \* m_running_kernels: a kernel uid, or 0 for NULL
  finished,   \* m_finished_kernel
  draining,   \* memory partitions or the interconnect still hold traffic
  limitHit,   \* a configured limit has been reached
  gpc,        \* where the simulation thread is
  cur,        \* the operation front() returned
  check,      \* what check_finished_kernel() returned
  simActive, simDone, simLock, exitSem,
  hpc,        \* where each host thread is
  req,        \* the kind of operation a blocked push() carries
  todo,       \* streams an unlocked empty() has still to read
  clean,      \* what that empty() has found so far
  nextId,     \* operations pushed so far; also the source of kernel uids
  done,       \* history: operations that took effect and were popped
  origin      \* history: the stream an operation was pushed on

gpuVars  == <<running, finished, draining, limitHit>>
simVars  == <<simActive, simDone, simLock, exitSem>>
mgrVars  == <<ops, pending, list, service, gridMap, lock>>
thrVars  == <<cur, check>>
hostVars == <<hpc, req, todo, clean>>
histVars == <<nextId, done, origin>>
vars == <<mgrVars, gpuVars, gpc, thrVars, simVars, hostVars,
          histVars>>

AllStreams == Streams \cup {Zero}
Ids == 1 .. MaxOps
Op == [id : Ids, kind : Kinds]
NoOp == [stream |-> Zero, id |-> 0, kind |-> "noop"]

InList(s) == \E i \in DOMAIN list : list[i] = s
\* The first entry for s leaves the list.
Erase(s) == \E k \in DOMAIN list :
  /\ list[k] = s
  /\ \A j \in 1 .. k - 1 : list[j] # s
  /\ list' = SubSeq(list, 1, k - 1) \o SubSeq(list, k + 1, Len(list))

\* Fault: a stream whose operation is in progress counts as empty.
ConcurrentIdle == \A i \in DOMAIN list : ops[list[i]] = <<>> \/ pending[list[i]]
ConcurrentEmpty == \A i \in DOMAIN list : ops[list[i]] = <<>>
Empty == ConcurrentEmpty /\ ops[Zero] = <<>>

\* Fault: the last slot of m_running_kernels is never looked at.
CanStartKernelShort == \E n \in 1 .. Slots - 1 : running[n] = 0
CanStartKernel == \E n \in 1 .. Slots : running[n] = 0
\* launch() puts a kernel in the first free slot.
Launch(u) == \E n \in 1 .. Slots :
  /\ running[n] = 0
  /\ \A m \in 1 .. n - 1 : running[m] # 0
  /\ running' = [running EXCEPT ![n] = u]
OnGpu == {running[n] : n \in 1 .. Slots} \ {0}

\* gpgpu_sim::active(): a reached limit hides whatever is still running.
Active == ~limitHit /\ (OnGpu # {} \/ draining)

Init ==
  /\ ops = [s \in AllStreams |-> <<>>]
  /\ pending = [s \in AllStreams |-> FALSE]
  /\ list = <<>>
  /\ service = FALSE
  /\ gridMap = [u \in {} |-> Zero]
  /\ lock = NoOne
  /\ running = [n \in 1 .. Slots |-> 0]
  /\ finished = <<>>
  /\ draining = FALSE
  /\ limitHit = FALSE
  /\ gpc = "exited"
  /\ cur = NoOp
  /\ check = FALSE
  /\ simActive = FALSE
  /\ simDone = TRUE
  /\ simLock = NoOne
  /\ exitSem = 0
  /\ hpc = [h \in Hosts |-> "idle"]
  /\ req = [h \in Hosts |-> "copy"]
  /\ todo = [h \in Hosts |-> <<>>]
  /\ clean = [h \in Hosts |-> TRUE]
  /\ nextId = 0
  /\ done = {}
  /\ origin = [u \in Ids |-> Zero]

-----------------------------------------------------------------------------
(* Host threads. *)

HostGoto(h, from, to) ==
  /\ hpc[h] = from
  /\ hpc' = [hpc EXCEPT ![h] = to]

Enqueue(s, kind) ==
  /\ nextId < MaxOps
  /\ nextId' = nextId + 1
  /\ ops' = [ops EXCEPT ![s] = Append(@, [id |-> nextId + 1, kind |-> kind])]
  /\ origin' = [origin EXCEPT ![nextId + 1] = s]
  /\ UNCHANGED done

\* push() on a created stream returns as soon as the operation is queued.
PushConcurrent(h, s, kind) ==
  /\ "push" \in Calls /\ ~Blocking
  /\ hpc[h] = "idle" /\ lock = NoOne /\ InList(s)
  /\ Enqueue(s, kind)
  /\ UNCHANGED <<pending, list, service, gridMap, lock, gpuVars, gpc, thrVars, simVars, hostVars>>

\* push() on the default stream, or any push() when launches are blocking.
PushBlocking(h, kind) ==
  /\ "push" \in Calls /\ nextId < MaxOps
  /\ HostGoto(h, "idle", "block")
  /\ req' = [req EXCEPT ![h] = kind]
  /\ UNCHANGED <<mgrVars, gpuVars, gpc, thrVars, simVars, todo, clean,
                 histVars>>

\* The first loop of push(): it looks under the lock and gives the lock back.
Unblock(h) ==
  /\ lock = NoOne /\ ConcurrentEmpty
  /\ HostGoto(h, "block", "push")
  /\ UNCHANGED <<mgrVars, gpuVars, gpc, thrVars, simVars, req, todo, clean,
                 histVars>>

StartScan(h) ==
  /\ todo' = [todo EXCEPT ![h] = list]
  /\ clean' = [clean EXCEPT ![h] = TRUE]

PushZero(h) ==
  /\ lock = NoOne
  /\ HostGoto(h, "push", "wait")
  /\ Enqueue(Zero, req[h])
  /\ StartScan(h)
  /\ UNCHANGED <<pending, list, service, gridMap, lock, gpuVars, gpc, thrVars, simVars, req>>

\* empty() reads the streams one after the other, without the manager's lock.
ScanStream(h) ==
  /\ hpc[h] \in {"wait", "sync"} /\ todo[h] # <<>>
  /\ clean' = [clean EXCEPT ![h] = @ /\ ops[Head(todo[h])] = <<>>]
  /\ todo' = [todo EXCEPT ![h] = Tail(@)]
  /\ UNCHANGED <<mgrVars, gpuVars, gpc, thrVars, simVars, hpc, req,
                 histVars>>

\* Fault: the default stream is forgotten.
ScanResultCreated(h) == clean[h]

ScanResult(h) == clean[h] /\ ops[Zero] = <<>>

WaitEnd(h) ==
  /\ todo[h] = <<>>
  /\ IF ScanResult(h)
       THEN HostGoto(h, "wait", "idle") /\ UNCHANGED <<todo, clean>>
       ELSE HostGoto(h, "wait", "wait") /\ StartScan(h)
  /\ UNCHANGED <<mgrVars, gpuVars, gpc, thrVars, simVars, req, histVars>>

\* synchronize(): every round takes g_sim_lock, scans, reads g_sim_active.
SyncBegin(h) ==
  /\ "sync" \in Calls
  /\ hpc[h] \in {"idle", "resync"} /\ simLock = NoOne
  /\ hpc' = [hpc EXCEPT ![h] = "sync"]
  /\ simLock' = h
  /\ StartScan(h)
  /\ UNCHANGED <<mgrVars, gpuVars, gpc, thrVars, simActive, simDone,
                 exitSem, req, histVars>>

\* Fault: g_sim_active is not read.
SyncEndEarly(h) ==
  /\ todo[h] = <<>>
  /\ HostGoto(h, "sync", IF ScanResult(h) THEN "idle" ELSE "resync")
  /\ simLock' = NoOne
  /\ UNCHANGED <<mgrVars, gpuVars, gpc, thrVars, simActive, simDone,
                 exitSem, req, todo, clean, histVars>>

SyncEnd(h) ==
  /\ todo[h] = <<>>
  /\ HostGoto(h, "sync", IF ScanResult(h) /\ ~simActive THEN "idle"
                                                        ELSE "resync")
  /\ simLock' = NoOne
  /\ UNCHANGED <<mgrVars, gpuVars, gpc, thrVars, simActive, simDone,
                 exitSem, req, todo, clean, histVars>>

\* CUstream_st::synchronize() takes only the stream's own lock.
StreamSync(h, s) ==
  /\ "streamSync" \in Calls
  /\ InList(s) /\ ops[s] # <<>>
  /\ HostGoto(h, "idle", "streamSync")
  /\ todo' = [todo EXCEPT ![h] = <<s>>]
  /\ UNCHANGED <<mgrVars, gpuVars, gpc, thrVars, simVars, req, clean,
                 histVars>>

StreamSyncEnd(h) ==
  /\ HostGoto(h, "streamSync", "idle")
  /\ ops[todo[h][1]] = <<>>
  /\ todo' = [todo EXCEPT ![h] = <<>>]
  /\ UNCHANGED <<mgrVars, gpuVars, gpc, thrVars, simVars, req, clean,
                 histVars>>

AddStream(h, s) ==
  /\ "add" \in Calls
  /\ hpc[h] = "idle" /\ lock = NoOne /\ ~InList(s)
  /\ list' = Append(list, s)
  /\ UNCHANGED <<ops, pending, service, gridMap, lock, gpuVars, gpc, thrVars, simVars, hostVars, histVars>>

\* destroy_stream() waits for the stream to empty while it holds m_lock.
DestroyBegin(h, s) ==
  /\ "destroy" \in Calls
  /\ lock = NoOne /\ InList(s)
  /\ DrainFirst => ops[s] = <<>>
  /\ HostGoto(h, "idle", "destroy")
  /\ lock' = h
  /\ todo' = [todo EXCEPT ![h] = <<s>>]
  /\ UNCHANGED <<ops, pending, list, service, gridMap, gpuVars, gpc, thrVars, simVars, req, clean, histVars>>

\* Fault: the stream is deleted without waiting for it.
DestroyEndEarly(h) ==
  /\ HostGoto(h, "destroy", "idle")
  /\ Erase(todo[h][1])
  /\ lock' = NoOne
  /\ todo' = [todo EXCEPT ![h] = <<>>]
  /\ UNCHANGED <<ops, pending, service, gridMap, gpuVars, gpc, thrVars,
                 simVars, req, clean, histVars>>

DestroyEnd(h) ==
  /\ HostGoto(h, "destroy", "idle")
  /\ ops[todo[h][1]] = <<>>
  /\ Erase(todo[h][1])
  /\ lock' = NoOne
  /\ todo' = [todo EXCEPT ![h] = <<>>]
  /\ UNCHANGED <<ops, pending, service, gridMap, gpuVars, gpc, thrVars,
                 simVars, req, clean, histVars>>

\* start_sim_thread(1): acts only when no thread is meant to run.  A second
\* thread, created while the last one has still to end, is not modelled.
StartSim(h) ==
  /\ hpc[h] = "idle" /\ simDone
  /\ simDone' = FALSE
  /\ gpc = "exited" /\ gpc' = "spin"
  /\ UNCHANGED <<mgrVars, gpuVars, thrVars, simActive, simLock, exitSem,
                 hostVars, histVars>>

ExitBegin(h) ==
  /\ "exit" \in Calls /\ ~simDone
  /\ HostGoto(h, "idle", "exit")
  /\ simDone' = TRUE
  /\ UNCHANGED <<mgrVars, gpuVars, gpc, thrVars, simActive, simLock,
                 exitSem, req, todo, clean, histVars>>

ExitEnd(h) ==
  /\ HostGoto(h, "exit", "idle")
  /\ exitSem > 0
  /\ exitSem' = exitSem - 1
  /\ UNCHANGED <<mgrVars, gpuVars, gpc, thrVars, simActive, simDone,
                 simLock, req, todo, clean, histVars>>

-----------------------------------------------------------------------------
(* The simulation thread, gpgpu_sim_thread_concurrent().                   *)

GpuGoto(from, to) == gpc = from /\ gpc' = to

\* The outer spin leaves when there is work or when it is told to stop.
DetectWork ==
  /\ lock = NoOne
  /\ ~Empty \/ simDone
  /\ GpuGoto("spin", "activate")
  /\ UNCHANGED <<mgrVars, gpuVars, thrVars, simVars, hostVars, histVars>>

Activate ==
  /\ simLock = NoOne
  /\ GpuGoto("activate", "operation")
  /\ simActive' = TRUE
  /\ UNCHANGED <<mgrVars, gpuVars, cur, check, simDone, simLock, exitSem,
                 hostVars, histVars>>

\* Fault: m_pending is not reset.
RecordNextDoneBusy(s) ==
  /\ ops' = [ops EXCEPT ![s] = Tail(@)]
  /\ done' = done \cup {Head(ops[s]).id}
  /\ UNCHANGED pending

\* CUstream_st::record_next_done() for the front operation of stream s.
RecordNextDone(s) ==
  /\ ops' = [ops EXCEPT ![s] = Tail(@)]
  /\ pending' = [pending EXCEPT ![s] = FALSE]
  /\ done' = done \cup {Head(ops[s]).id}

Without(u) == [v \in DOMAIN gridMap \ {u} |-> gridMap[v]]

\* Fault: the map entry is not erased.
RegisterFinishedKept(u) == RecordNextDone(gridMap[u]) /\ UNCHANGED gridMap

\* register_finished_kernel(u), with the stream found in the map.
RegisterFinished(u) ==
  /\ RecordNextDone(gridMap[u])
  /\ gridMap' = Without(u)

\* operation() takes m_lock and first asks for one finished kernel.
CheckFinishedKernel ==
  /\ lock = NoOne
  /\ GpuGoto("operation", "front")
  /\ lock' = Gpu
  /\ check' = (finished # <<>>)
  /\ IF finished # <<>>
       THEN RegisterFinished(Head(finished)) /\ finished' = Tail(finished)
       ELSE UNCHANGED <<ops, pending, gridMap, done, finished>>
  /\ UNCHANGED <<list, service, running, draining, limitHit, cur, simVars,
                 hostVars, nextId, origin>>

\* CUstream_st::next(), and the grid map entry when it is a kernel.
Take(s) ==
  LET op == Head(ops[s]) IN
  /\ pending' = [pending EXCEPT ![s] = TRUE]
  /\ cur' = [stream |-> s, id |-> op.id, kind |-> op.kind]
  /\ gridMap' = IF op.kind = "copy" THEN gridMap
                ELSE [u \in DOMAIN gridMap \cup {op.id} |->
                        IF u = op.id THEN s ELSE gridMap[u]]

Ready(i) == ~pending[list[i]] /\ ops[list[i]] # <<>>

\* Fault: m_service_stream_zero is never reset.
FrontZeroSticky ==
  /\ GpuGoto("front", "do")
  /\ service \/ ConcurrentEmpty
  /\ service' = TRUE
  /\ IF ops[Zero] # <<>> /\ ~pending[Zero]
       THEN Take(Zero)
       ELSE cur' = NoOp /\ UNCHANGED <<pending, gridMap>>
  /\ UNCHANGED <<ops, list, lock, gpuVars, check, simVars, hostVars,
                 histVars>>

\* front(): the default stream is served only when the others are empty.
FrontZero ==
  /\ GpuGoto("front", "do")
  /\ service \/ ConcurrentEmpty
  /\ service' = (ops[Zero] # <<>>)
  /\ IF ops[Zero] # <<>> /\ ~pending[Zero]
       THEN Take(Zero)
       ELSE cur' = NoOp /\ UNCHANGED <<pending, gridMap>>
  /\ UNCHANGED <<ops, list, lock, gpuVars, check, simVars, hostVars,
                 histVars>>

FrontConcurrent ==
  /\ GpuGoto("front", "do")
  /\ ~service /\ ~ConcurrentEmpty
  /\ IF \E i \in DOMAIN list : Ready(i)
       THEN \E i \in DOMAIN list :
              /\ Ready(i)
              /\ \A j \in 1 .. i - 1 : ~Ready(j)
              /\ Take(list[i])
       ELSE cur' = NoOp /\ UNCHANGED <<pending, gridMap>>
  /\ UNCHANGED <<ops, list, service, lock, gpuVars, check, simVars,
                 hostVars, histVars>>

\* do_operation(): a kernel that finds no free slot is left as it is.
DoOperation ==
  /\ lock' = NoOne
  /\ CASE cur.kind = "copy" ->
            RecordNextDone(cur.stream) /\ UNCHANGED <<gridMap, running>>
       [] cur.kind = "functional" /\ CanStartKernel ->
            RegisterFinished(cur.id) /\ UNCHANGED running
       [] cur.kind = "kernel" /\ CanStartKernel ->
            /\ Launch(cur.id)
            /\ UNCHANGED <<ops, pending, gridMap, done>>
       [] OTHER -> UNCHANGED <<ops, pending, gridMap, done, running>>
  /\ cur' = NoOp
  /\ UNCHANGED <<list, service, finished, draining, limitHit, check,
                 simVars, hostVars, nextId, origin>>
  /\ GpuGoto("do", IF check /\ ~(Active') THEN "stop" ELSE "cycle")

SeqsOf(S) == {q \in UNION {[1 .. k -> S] : k \in 0 .. Slots} :
                /\ \A u \in S : \E i \in DOMAIN q : q[i] = u
                /\ \A i, j \in DOMAIN q : q[i] = q[j] => i = j}

\* gpgpu_sim::cycle(): the kernels of ended leave their slots in some order.
Cycle(ended) ==
  /\ Active
  /\ GpuGoto("cycle", "more")
  /\ running' = [n \in 1 .. Slots |->
                   IF running[n] \in ended THEN 0 ELSE running[n]]
  /\ \E q \in SeqsOf(ended) : finished' = finished \o q
  /\ draining' \in (IF OnGpu # {} THEN BOOLEAN ELSE {draining, FALSE})
  /\ limitHit' \in (IF HasLimit THEN BOOLEAN ELSE {FALSE})
  /\ UNCHANGED <<mgrVars, thrVars, simVars, hostVars, histVars>>

Advance == \E ended \in SUBSET OnGpu : Cycle(ended)

SkipCycle ==
  /\ ~Active
  /\ GpuGoto("cycle", "more")
  /\ UNCHANGED <<mgrVars, gpuVars, thrVars, simVars, hostVars, histVars>>

MoreWork ==
  /\ lock = NoOne
  /\ GpuGoto("more", IF Active \/ ~Empty THEN "operation" ELSE "stop")
  /\ UNCHANGED <<mgrVars, gpuVars, thrVars, simVars, hostVars, histVars>>

Deactivate ==
  /\ simLock = NoOne
  /\ GpuGoto("stop", "outer")
  /\ simActive' = FALSE
  /\ UNCHANGED <<mgrVars, gpuVars, thrVars, simDone, simLock, exitSem,
                 hostVars, histVars>>

OuterLoop ==
  /\ GpuGoto("outer", IF simDone THEN "exited" ELSE "spin")
  /\ exitSem' = IF simDone THEN exitSem + 1 ELSE exitSem
  /\ UNCHANGED <<mgrVars, gpuVars, thrVars, simActive, simDone, simLock,
                 hostVars, histVars>>

-----------------------------------------------------------------------------
HostReturns(h) ==
  \/ Unblock(h) \/ PushZero(h) \/ ScanStream(h) \/ WaitEnd(h)
  \/ hpc[h] = "resync" /\ SyncBegin(h)
  \/ SyncEnd(h) \/ StreamSyncEnd(h) \/ DestroyEnd(h) \/ ExitEnd(h)

\* The library that makes the calls starts the simulation thread first.
HostCalls(h) ==
  \/ StartSim(h)
  \/ /\ ~simDone
     /\ \/ \E s \in Streams, k \in Kinds : PushConcurrent(h, s, k)
        \/ \E k \in Kinds : PushBlocking(h, k)
        \/ hpc[h] = "idle" /\ SyncBegin(h)
        \/ \E s \in Streams :
             StreamSync(h, s) \/ AddStream(h, s) \/ DestroyBegin(h, s)
        \/ ExitBegin(h)

GpuStep ==
  \/ DetectWork \/ Activate \/ CheckFinishedKernel \/ FrontZero
  \/ FrontConcurrent \/ DoOperation \/ Advance \/ SkipCycle \/ MoreWork
  \/ Deactivate \/ OuterLoop

Next == GpuStep \/ \E h \in Hosts : HostCalls(h) \/ HostReturns(h)

Spec == Init /\ [][Next]_vars

\* The simulation thread is scheduled; every call made goes on when it can,
\* m_lock and g_sim_lock included; kernels end and traffic drains.  Which calls
\* a program makes, start_sim_thread() among them, is its own affair.
Fairness ==
  /\ SF_vars(GpuStep)
  /\ \A h \in Hosts : SF_vars(HostReturns(h))
  /\ \A u \in Ids :
       SF_vars(\E ended \in SUBSET OnGpu : u \in ended /\ Cycle(ended))
  /\ SF_vars(Advance /\ OnGpu = {} /\ ~draining')

FairSpec == Spec /\ Fairness

QueueTypes ==
  /\ ops \in [AllStreams -> Seq(Op)]
  /\ pending \in [AllStreams -> BOOLEAN]
  /\ list \in Seq(Streams)
  /\ service \in BOOLEAN
  /\ DOMAIN gridMap \subseteq Ids
  /\ gridMap \in [DOMAIN gridMap -> AllStreams]
  /\ cur \in {NoOp} \cup [stream : AllStreams, id : Ids, kind : Kinds]
  /\ nextId \in 0 .. MaxOps
  /\ done \subseteq Ids
  /\ origin \in [Ids -> AllStreams]

GpuTypes ==
  /\ running \in [1 .. Slots -> Ids \cup {0}]
  /\ finished \in Seq(Ids)
  /\ draining \in BOOLEAN /\ limitHit \in BOOLEAN

ThreadTypes ==
  /\ lock \in Hosts \cup {Gpu, NoOne}
  /\ gpc \in {"exited", "spin", "activate", "operation", "front", "do",
              "cycle", "more", "stop", "outer"}
  /\ check \in BOOLEAN
  /\ simActive \in BOOLEAN /\ simDone \in BOOLEAN
  /\ simLock \in Hosts \cup {NoOne}
  /\ exitSem \in Nat
  /\ hpc \in [Hosts -> {"idle", "block", "push", "wait", "sync", "resync",
                        "streamSync", "destroy", "exit"}]
  /\ req \in [Hosts -> Kinds]
  /\ todo \in [Hosts -> Seq(Streams)]
  /\ clean \in [Hosts -> BOOLEAN]

-----------------------------------------------------------------------------
\* The values of the variables, and of the uids and streams the queues, the
\* grid map and the kernel table of stream_manager.h and gpu-sim.h hold.
TypeOK == QueueTypes /\ GpuTypes /\ ThreadTypes

\* s's front operation is u and it is marked in progress.
InProgress(s, u) == pending[s] /\ ops[s] # <<>> /\ Head(ops[s]).id = u

\* register_finished_kernel() looks a finished uid up in m_grid_id_to_stream
\* and asserts that the stream's front kernel has that uid: so every kernel
\* on the GPU, or reported finished, is mapped, and to a stream whose front
\* operation it is.
FinishedKernelIsFront ==
  /\ \A u \in DOMAIN gridMap : InProgress(gridMap[u], u)
  /\ OnGpu \cup {finished[i] : i \in DOMAIN finished} \subseteq DOMAIN gridMap

\* No kernel is reported finished twice, or while it still has a slot: the
\* second report would look a freed uid up in the map.
FinishedOnce ==
  /\ \A m, n \in 1 .. Slots :
       running[m] = running[n] /\ running[m] # 0 => m = n
  /\ \A i, j \in DOMAIN finished : finished[i] = finished[j] => i = j
  /\ \A i \in DOMAIN finished : finished[i] \notin OnGpu

\* front(): an operation of the default stream and an operation of any other
\* stream are never in progress together.
DefaultStreamExclusive ==
  pending[Zero] => \A s \in Streams : ~pending[s]

\* destroy_stream() deletes the stream: afterwards no operation is queued on
\* it, none is pending, and the grid map holds no pointer to it. The handle
\* another host thread has still to pass to a call is not state of the
\* stream manager, and nothing stops it from naming the stream.
NoDanglingStream ==
  /\ \A s \in Streams : ops[s] # <<>> \/ pending[s] => InList(s)
  /\ \A u \in DOMAIN gridMap : gridMap[u] # Zero => InList(gridMap[u])

\* CUDA's stream semantics as push() and front() provide them to one host
\* thread: operations of a stream take effect in the order pushed, and the
\* default stream is a barrier for all others.
DefaultStreamOrder ==
  \A j \in done : \A i \in 1 .. j - 1 :
    origin[i] = origin[j] \/ Zero \in {origin[i], origin[j]} => i \in done

\* What is left of that order with several host threads: each stream keeps
\* its own. For one thread it is part of DefaultStreamOrder.
StreamOrder ==
  \A j \in done : \A i \in 1 .. j - 1 : origin[i] = origin[j] => i \in done

\* stream_manager.h says of m_pending "front operation has started but not
\* yet completed": outside operation() such an operation is a kernel that
\* the GPU runs or has reported finished.
PendingMeansStarted ==
  \A s \in AllStreams : pending[s] /\ lock # Gpu =>
    Head(ops[s]).id \in OnGpu \cup {finished[i] : i \in DOMAIN finished}

\* When synchronize() returns, every stream is empty and the GPU is idle,
\* although empty() reads the streams one by one without the lock.
SyncMeansQuiescent ==
  [][\A h \in Hosts : hpc[h] = "sync" /\ hpc'[h] = "idle" =>
       Empty /\ ~Active /\ \A s \in AllStreams : ~pending[s]]_vars

\* Every operation pushed takes effect, unless the program has told the
\* simulation thread to exit: exit_simulation() waits for the thread, not for
\* the streams, and the loop may end with work queued.
OpsComplete == []<>(1 .. nextId \subseteq done \/ gpc = "exited")

\* Every call of the API returns.
CallsReturn == \A h \in Hosts : []<>(hpc[h] = "idle")

=============================================================================
