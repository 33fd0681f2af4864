------------------------- MODULE StreamManagerProofs -------------------------
(***************************************************************************)
(* Proofs about StreamManager, for any number of streams, host threads,    *)
(* kernel slots and operations.  IInv is the inductive invariant; the      *)
(* invariants of the model that it contains are its corollaries.  The      *)
(* second half has what follows for the order of operations: each stream   *)
(* keeps it, and every operation front() takes is started, if there are as *)
(* many slots as streams.                                                  *)
(***************************************************************************)
EXTENDS StreamManager, SequenceTheorems, FiniteSetTheorems, TLAPS

\* Only a stream with a queued operation is marked in progress.
PendingHasFront == \A s \in AllStreams : pending[s] => ops[s] # <<>>

\* An operation is queued only on the stream it was pushed on, so that no
\* two queues hold the same uid.
QueuedAtOrigin == \A s \in AllStreams : \A i \in DOMAIN ops[s] :
  ops[s][i].id <= nextId /\ origin[ops[s][i].id] = s

\* Streams with work are still in m_streams.
WorkIsListed ==
  \A s \in Streams : ops[s] # <<>> \/ pending[s] => InList(s)

\* m_service_stream_zero separates the default stream from the others.
ServiceSeparates ==
  /\ pending[Zero] => service
  /\ service => \A s \in Streams : ~pending[s]

\* The operation front() returned is in progress and not yet on the GPU.
CurrentIsFront ==
  /\ gpc # "do" => cur = NoOp
  /\ cur # NoOp =>
       /\ InProgress(cur.stream, cur.id)
       /\ cur.id \notin OnGpu \cup {finished[i] : i \in DOMAIN finished}
       /\ IF cur.kind = "copy" THEN cur.id \notin DOMAIN gridMap
          ELSE cur.id \in DOMAIN gridMap /\ gridMap[cur.id] = cur.stream

IInv ==
  /\ TypeOK
  /\ PendingHasFront
  /\ QueuedAtOrigin
  /\ WorkIsListed
  /\ ServiceSeparates
  /\ CurrentIsFront
  /\ FinishedKernelIsFront
  /\ FinishedOnce

\* The variables that the invariant relates; a step that leaves them alone
\* can only disturb the types of the others.
coreVars == <<ops, pending, list, service, gridMap, gpuVars, cur, histVars>>

-----------------------------------------------------------------------------
\* Nothing is queued, mapped or running when stream_manager is constructed.
LEMMA InitInv == Init => IInv
<1> SUFFICES ASSUME Init PROVE IInv
  OBVIOUS
<1> USE StreamAssumption DEF Init
<1>1. QueueTypes
  <2>1. ops \in [AllStreams -> Seq(Op)] /\ list \in Seq(Streams)
    OBVIOUS
  <2>2. DOMAIN gridMap = {} /\ gridMap \in [DOMAIN gridMap -> AllStreams]
    OBVIOUS
  <2>3. pending \in [AllStreams -> BOOLEAN] /\ origin \in [Ids -> AllStreams]
    BY DEF AllStreams
  <2>4. nextId \in 0 .. MaxOps
    OBVIOUS
  <2> QED
    BY <2>1, <2>2, <2>3, <2>4 DEF QueueTypes
<1>2. GpuTypes
  <2>1. running \in [1 .. Slots -> Ids \cup {0}] /\ finished \in Seq(Ids)
    OBVIOUS
  <2> QED
    BY <2>1 DEF GpuTypes
<1>3. ThreadTypes
  <2>1. hpc \in [Hosts -> {"idle", "block", "push", "wait", "sync", "resync",
                           "streamSync", "destroy", "exit"}]
    OBVIOUS
  <2>2. req \in [Hosts -> Kinds] /\ clean \in [Hosts -> BOOLEAN]
    BY DEF Kinds
  <2>3. todo \in [Hosts -> Seq(Streams)]
    OBVIOUS
  <2> QED
    BY <2>1, <2>2, <2>3 DEF ThreadTypes
<1>4. PendingHasFront /\ QueuedAtOrigin /\ WorkIsListed /\ ServiceSeparates
  BY DEF PendingHasFront, QueuedAtOrigin, WorkIsListed, ServiceSeparates,
         AllStreams
<1>5. CurrentIsFront
  BY DEF CurrentIsFront
<1>6. FinishedKernelIsFront /\ FinishedOnce
  BY DEF FinishedKernelIsFront, FinishedOnce, OnGpu
<1> QED
  BY <1>1, <1>2, <1>3, <1>4, <1>5, <1>6 DEF IInv, TypeOK

\* A step outside coreVars keeps the invariant when it keeps the types.
LEMMA QuietInv ==
  ASSUME IInv, ThreadTypes', UNCHANGED coreVars,
         gpc' # "do" \/ UNCHANGED gpc, gpc # "do" \/ UNCHANGED gpc
  PROVE  IInv'
<1> USE DEF coreVars, gpuVars, histVars
<1>1. TypeOK'
  BY DEF IInv, TypeOK, QueueTypes, GpuTypes
<1>2. (PendingHasFront /\ QueuedAtOrigin)'
  BY DEF IInv, PendingHasFront, QueuedAtOrigin
<1>3. (WorkIsListed /\ ServiceSeparates)'
  BY DEF IInv, WorkIsListed, ServiceSeparates, InList
<1>4. CurrentIsFront'
  BY DEF IInv, CurrentIsFront, InProgress, OnGpu
<1>5. (FinishedKernelIsFront /\ FinishedOnce)'
  BY DEF IInv, FinishedKernelIsFront, FinishedOnce, InProgress, OnGpu
<1> QED
  BY <1>1, <1>2, <1>3, <1>4, <1>5 DEF IInv

-----------------------------------------------------------------------------
(* Host threads. *)

\* Calls that only move a host thread: they leave every queue alone.
HostWaits(h) ==
  \/ \E k \in Kinds : PushBlocking(h, k)
  \/ Unblock(h) \/ ScanStream(h) \/ WaitEnd(h) \/ SyncBegin(h) \/ SyncEnd(h)
  \/ \E s \in Streams : StreamSync(h, s) \/ DestroyBegin(h, s)
  \/ StreamSyncEnd(h) \/ ExitBegin(h) \/ ExitEnd(h)

LEMMA HostWaitsInv ==
  ASSUME IInv, NEW h \in Hosts, HostWaits(h)
  PROVE  IInv'
<1> DEFINE Quiet == ThreadTypes' /\ UNCHANGED coreVars /\ UNCHANGED gpc
<1> ThreadTypes /\ QueueTypes
  BY DEF IInv, TypeOK
<1> USE DEF HostGoto, coreVars, mgrVars, gpuVars, simVars, thrVars, histVars
<1>1. CASE \E k \in Kinds : PushBlocking(h, k)
  <2> Quiet
    BY <1>1 DEF PushBlocking, ThreadTypes
  <2> QED BY QuietInv
<1>2. CASE Unblock(h)
  <2> Quiet
    BY <1>2 DEF Unblock, ThreadTypes
  <2> QED BY QuietInv
<1>3. CASE ScanStream(h)
  <2>1. todo' \in [Hosts -> Seq(Streams)]
    BY <1>3 DEF ScanStream, ThreadTypes
  <2>2. clean' \in [Hosts -> BOOLEAN]
    <3> DEFINE found == clean[h] /\ ops[Head(todo[h])] = <<>>
    <3>1. found \in BOOLEAN
      BY Zenon
    <3>2. clean' = [clean EXCEPT ![h] = found]
      BY <1>3 DEF ScanStream
    <3> HIDE DEF found
    <3> QED BY <3>1, <3>2 DEF ThreadTypes
  <2> Quiet
    BY <1>3, <2>1, <2>2 DEF ScanStream, ThreadTypes
  <2> QED BY QuietInv
<1>4. CASE WaitEnd(h)
  <2>1. /\ todo' \in [Hosts -> Seq(Streams)]
        /\ clean' \in [Hosts -> BOOLEAN]
    BY <1>4 DEF WaitEnd, StartScan, ThreadTypes, QueueTypes
  <2>2. hpc' \in [Hosts -> {"idle", "block", "push", "wait", "sync", "resync",
                            "streamSync", "destroy", "exit"}]
    BY <1>4 DEF WaitEnd, ThreadTypes
  <2> Quiet
    BY <1>4, <2>1, <2>2 DEF WaitEnd, ThreadTypes
  <2> QED BY QuietInv
<1>5. CASE SyncBegin(h)
  <2> Quiet
    BY <1>5 DEF SyncBegin, StartScan, ThreadTypes, QueueTypes
  <2> QED BY QuietInv
<1>6. CASE SyncEnd(h)
  <2> Quiet
    BY <1>6 DEF SyncEnd, ThreadTypes
  <2> QED BY QuietInv
<1>7. CASE \E s \in Streams : StreamSync(h, s)
  <2> Quiet
    BY <1>7 DEF StreamSync, ThreadTypes
  <2> QED BY QuietInv
<1>8. CASE \E s \in Streams : DestroyBegin(h, s)
  <2> Quiet
    BY <1>8 DEF DestroyBegin, ThreadTypes
  <2> QED BY QuietInv
<1>9. CASE StreamSyncEnd(h)
  <2> Quiet
    BY <1>9 DEF StreamSyncEnd, ThreadTypes
  <2> QED BY QuietInv
<1>10. CASE ExitBegin(h)
  <2> Quiet
    BY <1>10 DEF ExitBegin, ThreadTypes
  <2> QED BY QuietInv
<1>11. CASE ExitEnd(h)
  <2> Quiet
    BY <1>11 DEF ExitEnd, ThreadTypes
  <2> QED BY QuietInv
<1> QED
  BY <1>1, <1>2, <1>3, <1>4, <1>5, <1>6, <1>7, <1>8, <1>9, <1>10, <1>11
  DEF HostWaits

\* push() with an operation for stream s: the new uid is in no other queue.
LEMMA EnqueueInv ==
  ASSUME IInv, NEW s \in AllStreams, NEW kind \in Kinds, Enqueue(s, kind),
         s # Zero => InList(s), ThreadTypes',
         UNCHANGED <<pending, list, service, gridMap, gpuVars, cur, gpc>>
  PROVE  IInv'
<1> DEFINE new == [id |-> nextId + 1, kind |-> kind]
<1>0. QueueTypes
  BY DEF IInv, TypeOK
<1>1. nextId \in Nat /\ MaxOps \in Nat /\ nextId + 1 \in Ids /\ new \in Op
  BY <1>0, StreamAssumption DEF QueueTypes, Enqueue, Op, Ids
<1>2. /\ nextId' = nextId + 1
      /\ origin' = [origin EXCEPT ![nextId + 1] = s]
      /\ ops' = [ops EXCEPT ![s] = Append(ops[s], new)]
      /\ new.id = nextId + 1 /\ done' = done
  BY DEF Enqueue
<1>3. /\ ops[s] \in Seq(Op)
      /\ ops'[s] = Append(ops[s], new)
      /\ \A t \in AllStreams : t # s => ops'[t] = ops[t]
      /\ \A t \in AllStreams : ops[t] \in Seq(Op)
  BY <1>0, <1>2 DEF QueueTypes
<1> HIDE DEF new
<1>4. QueueTypes' /\ GpuTypes'
  <2>1. ops' \in [AllStreams -> Seq(Op)]
    BY <1>0, <1>1, <1>2, <1>3, AppendProperties DEF QueueTypes
  <2>2. origin' \in [Ids -> AllStreams] /\ nextId' \in 0 .. MaxOps
    BY <1>0, <1>1, <1>2 DEF QueueTypes, Ids
  <2>3. GpuTypes'
    BY DEF IInv, TypeOK, GpuTypes, gpuVars
  <2> QED BY <1>0, <1>2, <2>1, <2>2, <2>3 DEF QueueTypes
<1>5. \A t \in AllStreams : ops[t] # <<>> =>
        ops'[t] # <<>> /\ Head(ops'[t]) = Head(ops[t])
  BY <1>1, <1>3, HeadTailAppend, AppendProperties
<1>6. PendingHasFront'
  BY <1>5 DEF IInv, PendingHasFront
<1>7. QueuedAtOrigin'
  <2>1. SUFFICES ASSUME NEW t \in AllStreams, NEW i \in DOMAIN ops'[t]
                 PROVE  /\ ops'[t][i].id <= nextId'
                        /\ origin'[ops'[t][i].id] = t
    BY DEF QueuedAtOrigin
  <2>2. CASE i \in DOMAIN ops[t]
    <3>1. ops'[t][i] = ops[t][i]
      <4>1. CASE t = s
        <5>1. i \in 1 .. Len(ops[s])
          BY <1>3, <2>2, <4>1
        <5>2. Append(ops[s], new)[i] = ops[s][i]
          BY <1>1, <1>3, <5>1, AppendProperties
        <5> QED BY <1>3, <4>1, <5>2
      <4>2. CASE t # s
        BY <1>3, <4>2
      <4> QED BY <4>1, <4>2
    <3>2. ops[t][i].id <= nextId /\ origin[ops[t][i].id] = t
      BY <2>2 DEF IInv, QueuedAtOrigin
    <3>3. ops[t][i] \in Op
      BY <1>3, <2>2, ElementOfSeq
    <3>4. ops[t][i].id \in Ids
      BY <3>3 DEF Op
    <3> QED BY <1>0, <1>1, <1>2, <3>1, <3>2, <3>4 DEF QueueTypes, Ids
  <2>3. CASE i \notin DOMAIN ops[t]
    <3>1. t = s
      BY <1>3, <2>1, <2>3
    <3>2. i \in 1 .. Len(ops[s]) + 1
      BY <1>1, <1>3, <2>1, <3>1, AppendProperties
    <3>3. i = Len(ops[s]) + 1
      BY <1>3, <2>3, <3>1, <3>2
    <3>4. ops'[t][i] = new
      BY <1>1, <1>3, <3>1, <3>3, AppendProperties
    <3> QED BY <1>0, <1>1, <1>2, <3>1, <3>4 DEF QueueTypes
  <2> QED BY <2>2, <2>3
<1>8. (WorkIsListed /\ ServiceSeparates)'
  <2>1. \A t \in Streams : ops'[t] # <<>> \/ pending[t] => InList(t)
    <3> SUFFICES ASSUME NEW t \in Streams, ops'[t] # <<>> \/ pending[t]
                 PROVE  InList(t)
      OBVIOUS
    <3>1. CASE t = s
      BY <3>1, StreamAssumption
    <3>2. CASE t # s
      BY <1>3, <3>2 DEF IInv, WorkIsListed, AllStreams
    <3> QED BY <3>1, <3>2
  <2> QED BY <2>1 DEF IInv, WorkIsListed, ServiceSeparates, InList
<1>9. \A t \in AllStreams, u \in Ids : InProgress(t, u) => InProgress(t, u)'
  BY <1>5 DEF InProgress
<1>10. CurrentIsFront'
  <2>1. cur # NoOp => cur.stream \in AllStreams /\ cur.id \in Ids
    BY <1>0 DEF QueueTypes
  <2> QED BY <1>9, <2>1 DEF IInv, CurrentIsFront, OnGpu, gpuVars
<1>11. (FinishedKernelIsFront /\ FinishedOnce)'
  <2>1. \A u \in DOMAIN gridMap : u \in Ids /\ gridMap[u] \in AllStreams
    BY <1>0 DEF QueueTypes
  <2> QED
    BY <1>9, <2>1 DEF IInv, FinishedKernelIsFront, FinishedOnce, OnGpu, gpuVars
<1> QED
  BY <1>4, <1>6, <1>7, <1>8, <1>10, <1>11 DEF IInv, TypeOK

LEMMA PushInv ==
  ASSUME IInv, NEW h \in Hosts,
         \/ \E s \in Streams, k \in Kinds : PushConcurrent(h, s, k)
         \/ PushZero(h)
  PROVE  IInv'
<1> ThreadTypes /\ QueueTypes
  BY DEF IInv, TypeOK
<1>1. CASE \E s \in Streams, k \in Kinds : PushConcurrent(h, s, k)
  <2>1. PICK s \in Streams, k \in Kinds : PushConcurrent(h, s, k)
    BY <1>1
  <2>2. s \in AllStreams /\ Enqueue(s, k) /\ InList(s)
    BY <2>1 DEF PushConcurrent, AllStreams
  <2>3. ThreadTypes'
    BY <2>1 DEF PushConcurrent, ThreadTypes, thrVars, simVars, hostVars
  <2> QED BY <2>1, <2>2, <2>3, EnqueueInv DEF PushConcurrent, thrVars
<1>2. CASE PushZero(h)
  <2>1. Zero \in AllStreams /\ req[h] \in Kinds /\ Enqueue(Zero, req[h])
    BY <1>2 DEF PushZero, AllStreams, ThreadTypes
  <2>2. ThreadTypes'
    BY <1>2 DEF PushZero, HostGoto, StartScan, ThreadTypes, QueueTypes,
                thrVars, simVars
  <2> QED BY <1>2, <2>1, <2>2, EnqueueInv DEF PushZero, thrVars
<1> QED
  BY <1>1, <1>2

\* add_stream() and destroy_stream() change only m_streams; a destroyed
\* stream is empty, so it may leave.
LEMMA ListInv ==
  ASSUME IInv, NEW h \in Hosts,
         (\E s \in Streams : AddStream(h, s)) \/ DestroyEnd(h)
  PROVE  IInv'
<1>0. QueueTypes /\ ThreadTypes
  BY DEF IInv, TypeOK
<1>1. /\ list' \in Seq(Streams)
      /\ \A t \in Streams : InList(t) /\ ops[t] # <<>> => InList(t)'
  <2>1. ASSUME NEW s \in Streams, AddStream(h, s)
        PROVE  /\ list' \in Seq(Streams)
               /\ \A t \in Streams : InList(t) => InList(t)'
    <3>1. list' = Append(list, s) /\ list \in Seq(Streams)
      BY <1>0, <2>1 DEF AddStream, QueueTypes
    <3> QED BY <3>1, AppendProperties DEF InList
  <2>2. ASSUME DestroyEnd(h)
        PROVE  /\ list' \in Seq(Streams)
               /\ \A t \in Streams : InList(t) /\ ops[t] # <<>> => InList(t)'
    <3> DEFINE s == todo[h][1]
    <3>1. PICK k \in DOMAIN list :
            /\ list[k] = s
            /\ list' = SubSeq(list, 1, k - 1) \o SubSeq(list, k + 1, Len(list))
      BY <2>2 DEF DestroyEnd, Erase
    <3>2. ops[s] = <<>> /\ list \in Seq(Streams)
      BY <1>0, <2>2 DEF DestroyEnd, QueueTypes
    <3> HIDE DEF s
    <3>3. k \in 1 .. Len(list) /\ Len(list) \in Nat
      BY <3>1, <3>2
    <3> DEFINE pre == SubSeq(list, 1, k - 1)
               suf == SubSeq(list, k + 1, Len(list))
    <3>0. list' = pre \o suf
      BY <3>1
    <3>4. /\ pre \in Seq(Streams) /\ Len(pre) = k - 1
          /\ \A i \in 1 .. k - 1 : pre[i] = list[i]
      BY <3>2, <3>3, SubSeqProperties, Z3
    <3>5. /\ suf \in Seq(Streams) /\ Len(suf) = Len(list) - k
          /\ \A i \in 1 .. Len(list) - k : suf[i] = list[k + i]
      BY <3>2, <3>3, SubSeqProperties, Z3
    <3> HIDE DEF pre, suf
    <3>6. /\ list' \in Seq(Streams) /\ Len(list') = Len(list) - 1
          /\ \A i \in 1 .. Len(list) - 1 :
               list'[i] = IF i <= k - 1 THEN pre[i] ELSE suf[i - (k - 1)]
      <4>1. Len(pre) + Len(suf) = Len(list) - 1
        BY <3>3, <3>4, <3>5
      <4>2. /\ pre \o suf \in Seq(Streams)
            /\ Len(pre \o suf) = Len(pre) + Len(suf)
            /\ \A i \in 1 .. Len(pre) + Len(suf) :
                 (pre \o suf)[i] = IF i <= Len(pre) THEN pre[i]
                                   ELSE suf[i - Len(pre)]
        BY <3>4, <3>5, ConcatProperties, Zenon
      <4> QED BY <3>0, <3>4, <4>1, <4>2
    <3>7. ASSUME NEW t \in Streams, InList(t), ops[t] # <<>>
          PROVE  InList(t)'
      <4>1. PICK i \in 1 .. Len(list) : list[i] = t
        BY <3>2, <3>7 DEF InList
      <4>2. i # k
        BY <3>1, <3>2, <3>7, <4>1
      <4>3. CASE i < k
        BY <3>3, <3>4, <3>6, <4>1, <4>3 DEF InList
      <4>4. CASE i > k
        <5>1. i - 1 \in 1 .. Len(list) - 1 /\ ~(i - 1 <= k - 1)
          BY <3>3, <4>1, <4>4
        <5>2. list'[i - 1] = suf[i - k]
          BY <3>3, <3>6, <5>1, <4>1
        <5>3. suf[i - k] = list[i]
          BY <3>3, <3>5, <4>1, <4>4
        <5> QED BY <3>6, <4>1, <5>1, <5>2, <5>3 DEF InList
      <4> QED BY <3>3, <4>1, <4>2, <4>3, <4>4
    <3> QED BY <3>6, <3>7
  <2> QED BY <2>1, <2>2
<1>2. /\ UNCHANGED <<ops, pending, service, gridMap, gpuVars, cur, gpc,
                     histVars>>
      /\ ThreadTypes'
  <2> USE DEF gpuVars, thrVars, simVars, hostVars, histVars
  <2>1. CASE \E s \in Streams : AddStream(h, s)
    BY <1>0, <2>1 DEF AddStream, ThreadTypes
  <2>2. CASE DestroyEnd(h)
    BY <1>0, <2>2 DEF DestroyEnd, HostGoto, ThreadTypes
  <2> QED BY <2>1, <2>2
<1> USE DEF gpuVars, histVars
<1>3. TypeOK'
  BY <1>1, <1>2 DEF IInv, TypeOK, QueueTypes, GpuTypes
<1>4. (PendingHasFront /\ QueuedAtOrigin)'
  BY <1>2 DEF IInv, PendingHasFront, QueuedAtOrigin
<1>5. WorkIsListed'
  BY <1>1, <1>2 DEF IInv, PendingHasFront, WorkIsListed, AllStreams
<1>6. (ServiceSeparates /\ CurrentIsFront)'
  BY <1>2 DEF IInv, ServiceSeparates, CurrentIsFront, InProgress, OnGpu
<1>7. (FinishedKernelIsFront /\ FinishedOnce)'
  BY <1>2 DEF IInv, FinishedKernelIsFront, FinishedOnce, InProgress, OnGpu
<1> QED
  BY <1>3, <1>4, <1>5, <1>6, <1>7 DEF IInv

-----------------------------------------------------------------------------
(* The simulation thread. *)

\* Steps of the loop that only move the simulation thread.
LoopSteps ==
  \/ DetectWork \/ Activate \/ SkipCycle \/ MoreWork \/ Deactivate \/ OuterLoop

LEMMA LoopStepsInv ==
  ASSUME IInv, LoopSteps \/ \E h \in Hosts : StartSim(h)
  PROVE  IInv'
<1> DEFINE Quiet == /\ ThreadTypes' /\ UNCHANGED coreVars
                    /\ gpc # "do" /\ gpc' # "do"
<1> ThreadTypes
  BY DEF IInv, TypeOK
<1> USE DEF GpuGoto, coreVars, mgrVars, gpuVars, simVars, thrVars, hostVars,
            histVars
<1>1. CASE DetectWork
  <2> Quiet
    BY <1>1 DEF DetectWork, ThreadTypes
  <2> QED BY QuietInv
<1>2. CASE Activate
  <2> Quiet
    BY <1>2 DEF Activate, ThreadTypes
  <2> QED BY QuietInv
<1>3. CASE SkipCycle
  <2> Quiet
    BY <1>3 DEF SkipCycle, ThreadTypes
  <2> QED BY QuietInv
<1>4. CASE MoreWork
  <2> Quiet
    BY <1>4 DEF MoreWork, ThreadTypes
  <2> QED BY QuietInv
<1>5. CASE Deactivate
  <2> Quiet
    BY <1>5 DEF Deactivate, ThreadTypes
  <2> QED BY QuietInv
<1>6. CASE OuterLoop
  <2>1. exitSem' \in Nat
    BY <1>6 DEF OuterLoop, ThreadTypes
  <2> Quiet
    BY <1>6, <2>1 DEF OuterLoop, ThreadTypes
  <2> QED BY QuietInv
<1>7. CASE \E h \in Hosts : StartSim(h)
  <2> Quiet
    BY <1>7 DEF StartSim, ThreadTypes
  <2> QED BY QuietInv
<1> QED
  BY <1>1, <1>2, <1>3, <1>4, <1>5, <1>6, <1>7 DEF LoopSteps

Reported(u) == \E i \in DOMAIN finished : finished[i] = u

LEMMA TailFacts ==
  ASSUME NEW S, NEW q \in Seq(S), q # <<>>
  PROVE  /\ Tail(q) \in Seq(S)
         /\ DOMAIN Tail(q) = 1 .. Len(q) - 1
         /\ \A i \in DOMAIN Tail(q) :
              i + 1 \in DOMAIN q /\ Tail(q)[i] = q[i + 1]
<1>1. /\ Tail(q) \in Seq(S)
      /\ Len(Tail(q)) = Len(q) - 1
      /\ \A i \in 1 .. Len(Tail(q)) : Tail(q)[i] = q[i + 1]
  BY HeadTailProperties
<1> DEFINE t == Tail(q)
<1> HIDE DEF t
<1>2. DOMAIN t = 1 .. Len(q) - 1 /\ Len(q) \in Nat /\ DOMAIN q = 1 .. Len(q)
  BY <1>1 DEF t
<1> QED
  BY <1>1, <1>2 DEF t

\* record_next_done() on the front operation u of stream s, when u also
\* leaves the grid map and the list of finished kernels.
LEMMA PopInv ==
  ASSUME IInv, NEW s \in AllStreams, NEW u \in Ids,
         InProgress(s, u), u \notin OnGpu,
         u \in DOMAIN gridMap => gridMap[u] = s,
         RecordNextDone(s), gridMap' = Without(u), cur' = NoOp,
         UNCHANGED <<list, service, running, draining, limitHit, nextId,
                     origin>>,
         finished' \in Seq(Ids), ~Reported(u)',
         \A v : Reported(v)' => Reported(v),
         \A i, j \in DOMAIN finished' : finished'[i] = finished'[j] => i = j,
         ThreadTypes'
  PROVE  IInv'
<1>0. QueueTypes /\ GpuTypes
  BY DEF IInv, TypeOK
<1>1. /\ ops[s] \in Seq(Op) /\ ops[s] # <<>> /\ Head(ops[s]).id = u
      /\ ops' = [ops EXCEPT ![s] = Tail(ops[s])]
      /\ ops'[s] = Tail(ops[s])
      /\ pending' = [pending EXCEPT ![s] = FALSE]
      /\ ~pending'[s]
      /\ done' = done \cup {u}
      /\ \A t \in AllStreams : t # s => ops'[t] = ops[t] /\ pending'[t] = pending[t]
  BY <1>0 DEF QueueTypes, InProgress, RecordNextDone
<1>2. /\ Tail(ops[s]) \in Seq(Op)
      /\ \A i \in DOMAIN Tail(ops[s]) :
           i + 1 \in DOMAIN ops[s] /\ Tail(ops[s])[i] = ops[s][i + 1]
  BY <1>1, TailFacts
<1>3. /\ DOMAIN gridMap' = DOMAIN gridMap \ {u}
      /\ \A v \in DOMAIN gridMap' : gridMap'[v] = gridMap[v]
      /\ gridMap' \in [DOMAIN gridMap' -> AllStreams]
  BY <1>0 DEF Without, QueueTypes
<1>4. TypeOK'
  <2>1. ops' \in [AllStreams -> Seq(Op)] /\ pending' \in [AllStreams -> BOOLEAN]
    BY <1>0, <1>1, <1>2 DEF QueueTypes
  <2>2. QueueTypes'
    BY <1>0, <1>1, <1>3, <2>1 DEF QueueTypes
  <2>3. GpuTypes'
    BY <1>0 DEF GpuTypes
  <2> QED BY <2>2, <2>3 DEF TypeOK
<1>5. PendingHasFront'
  BY <1>1 DEF IInv, PendingHasFront
<1>6. QueuedAtOrigin'
  <2> SUFFICES ASSUME NEW t \in AllStreams, NEW i \in DOMAIN ops'[t]
               PROVE  ops'[t][i].id <= nextId /\ origin[ops'[t][i].id] = t
    BY DEF QueuedAtOrigin
  <2>1. CASE t = s
    <3>1. i + 1 \in DOMAIN ops[s] /\ ops'[t][i] = ops[s][i + 1]
      BY <1>1, <1>2, <2>1
    <3> QED BY <2>1, <3>1 DEF IInv, QueuedAtOrigin
  <2>2. CASE t # s
    BY <1>1, <2>2 DEF IInv, QueuedAtOrigin
  <2> QED BY <2>1, <2>2
<1>7. (WorkIsListed /\ ServiceSeparates)'
  <2>1. \A t \in AllStreams : /\ ops'[t] # <<>> => ops[t] # <<>>
                              /\ pending'[t] => pending[t]
    <3> TAKE t \in AllStreams
    <3>1. CASE t = s
      BY <1>1, <3>1
    <3>2. CASE t # s
      BY <1>1, <3>2
    <3> QED BY <3>1, <3>2
  <2> QED BY <2>1 DEF IInv, WorkIsListed, ServiceSeparates, InList, AllStreams
<1>8. CurrentIsFront'
  BY DEF CurrentIsFront
<1>9. FinishedKernelIsFront'
  <2>1. ASSUME NEW v \in DOMAIN gridMap' PROVE InProgress(gridMap[v], v)'
    <3>1. v \in DOMAIN gridMap /\ v # u /\ gridMap'[v] = gridMap[v]
      BY <1>3
    <3>2. InProgress(gridMap[v], v) /\ gridMap[v] \in AllStreams
      BY <1>0, <3>1 DEF IInv, FinishedKernelIsFront, QueueTypes
    <3>3. gridMap[v] # s
      BY <1>1, <3>1, <3>2 DEF InProgress
    <3> QED BY <1>1, <3>1, <3>2, <3>3 DEF InProgress
  <2>2. \A v \in OnGpu \cup {finished[i] : i \in DOMAIN finished} :
          v \in DOMAIN gridMap
    BY DEF IInv, FinishedKernelIsFront
  <2>3. OnGpu' = OnGpu
    BY DEF OnGpu
  <2>4. \A i \in DOMAIN finished' : finished'[i] \in DOMAIN gridMap'
    BY <1>3, <2>2 DEF Reported
  <2> QED BY <1>3, <2>1, <2>2, <2>3, <2>4 DEF FinishedKernelIsFront
<1>10. FinishedOnce'
  BY DEF IInv, FinishedOnce, OnGpu, Reported
<1> QED
  BY <1>4, <1>5, <1>6, <1>7, <1>8, <1>9, <1>10 DEF IInv

LEMMA CheckFinishedKernelInv ==
  ASSUME IInv, CheckFinishedKernel
  PROVE  IInv'
<1>0. QueueTypes /\ GpuTypes /\ ThreadTypes
  BY DEF IInv, TypeOK
<1>1. ThreadTypes' /\ gpc = "operation" /\ gpc' = "front" /\ cur' = NoOp
  <2>1. check' \in BOOLEAN
    BY <1>0, Zenon DEF CheckFinishedKernel, ThreadTypes
  <2> QED BY <1>0, <2>1 DEF CheckFinishedKernel, GpuGoto, ThreadTypes, simVars,
          hostVars, IInv, CurrentIsFront
<1>2. CASE finished = <<>>
  <2>1. UNCHANGED coreVars
    BY <1>2 DEF CheckFinishedKernel, coreVars, gpuVars, histVars
  <2> QED BY <1>1, <2>1, QuietInv
<1>3. CASE finished # <<>>
  <2>0. PICK u : u = Head(finished)
    OBVIOUS
  <2>1. /\ RecordNextDone(gridMap[u]) /\ gridMap' = Without(u)
        /\ finished' = Tail(finished)
        /\ UNCHANGED <<list, service, running, draining, limitHit, nextId,
                       origin>>
    BY <1>3, <2>0 DEF CheckFinishedKernel, RegisterFinished
  <2>2. /\ finished \in Seq(Ids) /\ 1 \in DOMAIN finished
        /\ u = finished[1] /\ u \in Ids
    BY <1>0, <1>3, <2>0 DEF GpuTypes
  <2>3. u \in DOMAIN gridMap /\ u \notin OnGpu
    BY <2>2 DEF IInv, FinishedKernelIsFront, FinishedOnce
  <2>4. gridMap[u] \in AllStreams /\ InProgress(gridMap[u], u)
    BY <1>0, <2>3 DEF QueueTypes, IInv, FinishedKernelIsFront
  <2>5. /\ finished' \in Seq(Ids)
        /\ DOMAIN finished' = 1 .. Len(finished) - 1
        /\ \A i \in DOMAIN finished' :
             i + 1 \in DOMAIN finished /\ finished'[i] = finished[i + 1]
    BY <1>3, <2>1, <2>2, TailFacts
  <2>6. \A i, j \in DOMAIN finished : finished[i] = finished[j] => i = j
    BY DEF IInv, FinishedOnce
  <2>7. ~Reported(u)' /\ \A v : Reported(v)' => Reported(v)
    <3>1. ASSUME NEW i \in DOMAIN finished' PROVE finished'[i] # u
      <4>1. i + 1 # 1
        BY <2>2, <2>5
      <4> QED BY <2>2, <2>5, <2>6, <4>1
    <3> QED BY <2>5, <3>1 DEF Reported
  <2>8. \A i, j \in DOMAIN finished' : finished'[i] = finished'[j] => i = j
    <3> SUFFICES ASSUME NEW i \in DOMAIN finished', NEW j \in DOMAIN finished',
                        finished'[i] = finished'[j]
                 PROVE  i = j
      OBVIOUS
    <3>1. i + 1 = j + 1 /\ i \in Int /\ j \in Int
      BY <2>5, <2>6
    <3> QED BY <3>1
  <2> QED
    BY <1>1, <2>1, <2>2, <2>3, <2>4, <2>5, <2>7, <2>8, PopInv
<1> QED
  BY <1>2, <1>3

\* next() on the front operation of a stream that has none in progress; the
\* caller separates the default stream from the others.
LEMMA TakeInv ==
  ASSUME IInv, NEW s \in AllStreams, Take(s), ops[s] # <<>>, ~pending[s],
         ServiceSeparates', ThreadTypes', gpc' = "do",
         service' \in BOOLEAN,
         UNCHANGED <<ops, list, gpuVars, histVars>>
  PROVE  IInv'
<1>0. QueueTypes /\ GpuTypes
  BY DEF IInv, TypeOK
<1>. PICK op : op = Head(ops[s])
  OBVIOUS
<1>1. /\ ops[s] \in Seq(Op) /\ 1 \in DOMAIN ops[s] /\ op = ops[s][1]
      /\ op \in Op
  BY <1>0 DEF QueueTypes
<1>2. /\ pending' = [pending EXCEPT ![s] = TRUE]
      /\ cur' = [stream |-> s, id |-> op.id, kind |-> op.kind]
      /\ gridMap' = IF op.kind = "copy" THEN gridMap
                    ELSE [u \in DOMAIN gridMap \cup {op.id} |->
                            IF u = op.id THEN s ELSE gridMap[u]]
  BY DEF Take
<1>3. op.id \in Ids /\ op.kind \in Kinds /\ origin[op.id] = s
  BY <1>1 DEF Op, IInv, QueuedAtOrigin
<1>4. \A t \in AllStreams, u \in Ids : InProgress(t, u) => origin[u] = t
  <2> TAKE t \in AllStreams, u \in Ids
  <2> HAVE InProgress(t, u)
  <2>1. ops[t] \in Seq(Op) /\ ops[t] # <<>> /\ Head(ops[t]).id = u
    BY <1>0 DEF QueueTypes, InProgress
  <2>2. 1 \in DOMAIN ops[t] /\ Head(ops[t]) = ops[t][1]
    BY <2>1
  <2> QED BY <2>1, <2>2 DEF IInv, QueuedAtOrigin
<1>5. op.id \notin DOMAIN gridMap
  <2> SUFFICES ASSUME op.id \in DOMAIN gridMap PROVE FALSE
    OBVIOUS
  <2>1. gridMap[op.id] \in AllStreams /\ InProgress(gridMap[op.id], op.id)
    BY <1>0 DEF QueueTypes, IInv, FinishedKernelIsFront
  <2>2. gridMap[op.id] = s
    BY <1>3, <1>4, <2>1
  <2> QED BY <2>1, <2>2 DEF InProgress
<1>6. /\ pending'[s] /\ \A t \in AllStreams : t # s => pending'[t] = pending[t]
      /\ InProgress(s, op.id)'
      /\ \A t \in AllStreams, u \in Ids : InProgress(t, u) => InProgress(t, u)'
  BY <1>0, <1>2 DEF QueueTypes, InProgress
<1>7. TypeOK'
  <2>1. /\ DOMAIN gridMap' \subseteq Ids
        /\ gridMap' \in [DOMAIN gridMap' -> AllStreams]
    BY <1>0, <1>2, <1>3 DEF QueueTypes
  <2>2. QueueTypes'
    BY <1>0, <1>2, <1>3, <2>1 DEF QueueTypes, histVars
  <2>3. GpuTypes'
    BY <1>0 DEF GpuTypes, gpuVars
  <2> QED BY <2>2, <2>3 DEF TypeOK
<1>8. (PendingHasFront /\ QueuedAtOrigin /\ WorkIsListed)'
  BY <1>6 DEF IInv, PendingHasFront, QueuedAtOrigin, WorkIsListed, InList,
              AllStreams, histVars
<1>9. OnGpu' = OnGpu /\ OnGpu \cup {finished[i] : i \in DOMAIN finished}
                          \subseteq DOMAIN gridMap
  BY DEF OnGpu, gpuVars, IInv, FinishedKernelIsFront
<1>10. CurrentIsFront'
  <2>1. /\ cur'.stream = s /\ cur'.id = op.id /\ cur'.kind = op.kind
    BY <1>2
  <2>2. op.kind # "copy" => op.id \in DOMAIN gridMap' /\ gridMap'[op.id] = s
    BY <1>2
  <2>3. op.kind = "copy" => gridMap' = gridMap
    BY <1>2
  <2> QED
    BY <1>5, <1>6, <1>9, <2>1, <2>2, <2>3 DEF CurrentIsFront, gpuVars,
       InProgress
<1>11. FinishedKernelIsFront'
  <2>1. ASSUME NEW u \in DOMAIN gridMap', NEW t, t = gridMap'[u]
        PROVE  InProgress(t, u)'
    <3>1. CASE u = op.id /\ op.kind # "copy"
      BY <1>2, <1>6, <2>1, <3>1
    <3>2. CASE u # op.id \/ op.kind = "copy"
      <4>1. u \in DOMAIN gridMap /\ t = gridMap[u]
        BY <1>2, <2>1, <3>2
      <4>2. InProgress(t, u) /\ t \in AllStreams /\ u \in Ids
        BY <1>0, <4>1 DEF IInv, FinishedKernelIsFront, QueueTypes
      <4> QED BY <1>6, <4>2
    <3> QED BY <3>1, <3>2
  <2>2. DOMAIN gridMap \subseteq DOMAIN gridMap'
    BY <1>2
  <2> QED BY <1>9, <2>1, <2>2 DEF FinishedKernelIsFront, InProgress, gpuVars
<1>12. FinishedOnce'
  BY DEF IInv, FinishedOnce, OnGpu, gpuVars
<1> QED
  BY <1>7, <1>8, <1>10, <1>11, <1>12 DEF IInv

LEMMA FrontInv ==
  ASSUME IInv, FrontZero \/ FrontConcurrent
  PROVE  IInv'
<1>0. QueueTypes /\ ThreadTypes /\ Zero \in AllStreams
  BY DEF IInv, TypeOK, AllStreams
<1>1. /\ ThreadTypes' /\ gpc = "front" /\ gpc' = "do"
      /\ UNCHANGED <<ops, list, gpuVars, histVars>>
  <2>1. /\ gpc = "front" /\ gpc' = "do"
        /\ UNCHANGED <<ops, list, lock, gpuVars, check, simVars, hostVars,
                       histVars>>
    BY Zenon DEF FrontZero, FrontConcurrent, GpuGoto
  <2>2. gpc' \in {"exited", "spin", "activate", "operation", "front", "do",
                  "cycle", "more", "stop", "outer"}
    BY <2>1
  <2>3. UNCHANGED <<lock, check, simActive, simDone, simLock, exitSem, hpc, req,
                    todo, clean>>
    BY <2>1, Zenon DEF simVars, hostVars
  <2>4. ThreadTypes'
    <3>1. /\ lock' = lock /\ check' = check /\ simActive' = simActive
          /\ simDone' = simDone /\ simLock' = simLock /\ exitSem' = exitSem
          /\ hpc' = hpc /\ req' = req /\ todo' = todo /\ clean' = clean
      BY <2>3
    <3> QED BY <1>0, <2>2, <3>1, Zenon DEF ThreadTypes
  <2> QED BY <2>1, <2>4
<1>2. /\ \A s \in AllStreams : pending[s] => ops[s] # <<>>
      /\ \A s \in Streams : pending[s] => InList(s)
      /\ pending \in [AllStreams -> BOOLEAN]
  BY <1>0 DEF IInv, PendingHasFront, WorkIsListed, QueueTypes
<1>3. service \/ ConcurrentEmpty => \A s \in Streams : ~pending[s]
  <2>1. ServiceSeparates
    BY DEF IInv
  <2>2. ConcurrentEmpty => \A s \in Streams : ~pending[s]
    <3>1. \A s \in Streams : InList(s) /\ ConcurrentEmpty => ops[s] = <<>>
      BY DEF InList, ConcurrentEmpty
    <3>2. Streams \subseteq AllStreams
      BY DEF AllStreams
    <3> QED BY <1>2, <3>1, <3>2
  <2> QED BY <2>1, <2>2 DEF ServiceSeparates
<1>4. CASE FrontZero
  <2>1. (\A s \in Streams : ~pending[s]) /\ service' = (ops[Zero] # <<>>)
    BY <1>3, <1>4 DEF FrontZero
  <2>2. service' \in BOOLEAN
    BY <2>1, Zenon
  <2>3. CASE ops[Zero] # <<>> /\ ~pending[Zero]
    <3>1. Take(Zero)
      BY <1>4, <2>3 DEF FrontZero
    <3>2. \A s \in Streams : ~pending'[s]
      BY <1>2, <2>1, <3>1, StreamAssumption DEF Take, AllStreams
    <3>3. ServiceSeparates'
      BY <2>1, <2>3, <3>2 DEF ServiceSeparates
    <3> QED BY <1>0, <1>1, <2>2, <2>3, <3>1, <3>3, TakeInv
  <2>4. CASE ~(ops[Zero] # <<>> /\ ~pending[Zero])
    <3>1. UNCHANGED <<pending, gridMap>> /\ cur' = NoOp
      BY <1>4, <2>4 DEF FrontZero
    <3>2. ServiceSeparates'
      BY <1>2, <2>1, <3>1, <1>0 DEF ServiceSeparates
    <3>3. TypeOK'
      BY <1>1, <2>2, <3>1 DEF IInv, TypeOK, QueueTypes, GpuTypes, gpuVars,
         histVars
    <3>4. (PendingHasFront /\ QueuedAtOrigin /\ WorkIsListed)'
      BY <1>1, <3>1 DEF IInv, PendingHasFront, QueuedAtOrigin, WorkIsListed,
         InList, histVars
    <3>5. (CurrentIsFront /\ FinishedKernelIsFront /\ FinishedOnce)'
      BY <1>1, <3>1 DEF IInv, CurrentIsFront, FinishedKernelIsFront,
         FinishedOnce, InProgress, OnGpu, gpuVars
    <3> QED BY <3>2, <3>3, <3>4, <3>5 DEF IInv
  <2> QED BY <2>3, <2>4
<1>5. CASE FrontConcurrent
  <2>1. ~service /\ service' = service /\ service' \in BOOLEAN
    BY <1>0, <1>5 DEF FrontConcurrent, QueueTypes
  <2>2. CASE \E i \in DOMAIN list : Ready(i)
    <3>1. PICK i \in DOMAIN list : Ready(i) /\ Take(list[i])
      BY <1>5, <2>2 DEF FrontConcurrent
    <3>2. list[i] \in Streams
      BY <1>0, <3>1, ElementOfSeq DEF QueueTypes
    <3>3. ~pending'[Zero]
      BY <1>2, <2>1, <3>1, <3>2, StreamAssumption
      DEF Take, AllStreams, IInv, ServiceSeparates
    <3>4. ServiceSeparates'
      BY <2>1, <3>3 DEF ServiceSeparates
    <3> QED
      BY <1>0, <1>1, <2>1, <3>1, <3>2, <3>4, TakeInv DEF Ready, AllStreams
  <2>3. CASE ~\E i \in DOMAIN list : Ready(i)
    <3>1. UNCHANGED coreVars
      BY <1>1, <1>5, <2>3 DEF FrontConcurrent, coreVars, IInv, CurrentIsFront
    <3>2. cur = NoOp
      BY <1>1 DEF IInv, CurrentIsFront
    <3>3. TypeOK'
      BY <1>1, <3>1 DEF IInv, TypeOK, QueueTypes, GpuTypes, coreVars, gpuVars,
         histVars
    <3>4. (PendingHasFront /\ QueuedAtOrigin /\ WorkIsListed
             /\ ServiceSeparates)'
      BY <3>1 DEF IInv, PendingHasFront, QueuedAtOrigin, WorkIsListed,
         ServiceSeparates, InList, coreVars, histVars
    <3>5. (CurrentIsFront /\ FinishedKernelIsFront /\ FinishedOnce)'
      BY <3>1, <3>2 DEF IInv, CurrentIsFront, FinishedKernelIsFront,
         FinishedOnce, InProgress, OnGpu, coreVars, gpuVars
    <3> QED BY <3>3, <3>4, <3>5 DEF IInv
  <2> QED BY <2>2, <2>3
<1> QED
  BY <1>4, <1>5

LEMMA DoOperationInv ==
  ASSUME IInv, DoOperation
  PROVE  IInv'
<1>0. QueueTypes /\ GpuTypes /\ ThreadTypes
  BY DEF IInv, TypeOK
<1>1. /\ gpc = "do" /\ gpc' # "do" /\ cur' = NoOp /\ ThreadTypes'
      /\ UNCHANGED <<list, service, finished, draining, limitHit, nextId,
                     origin>>
  BY <1>0 DEF DoOperation, GpuGoto, ThreadTypes, simVars, hostVars
<1>2. PICK s, u : s = cur.stream /\ u = cur.id
  OBVIOUS
<1>3. CASE UNCHANGED <<ops, pending, gridMap, done, running>>
  <2>1. TypeOK'
    BY <1>1, <1>3 DEF IInv, TypeOK, QueueTypes, GpuTypes
  <2>2. (PendingHasFront /\ QueuedAtOrigin /\ WorkIsListed
           /\ ServiceSeparates)'
    BY <1>1, <1>3 DEF IInv, PendingHasFront, QueuedAtOrigin, WorkIsListed,
       ServiceSeparates, InList
  <2>3. (CurrentIsFront /\ FinishedKernelIsFront /\ FinishedOnce)'
    BY <1>1, <1>3 DEF IInv, CurrentIsFront, FinishedKernelIsFront,
       FinishedOnce, InProgress, OnGpu
  <2> QED BY <2>1, <2>2, <2>3 DEF IInv
<1>4. CASE cur # NoOp
  <2>1. /\ s \in AllStreams /\ u \in Ids /\ cur.kind \in Kinds
        /\ InProgress(s, u) /\ u \notin OnGpu /\ ~Reported(u)
        /\ cur.kind = "copy" => u \notin DOMAIN gridMap
        /\ cur.kind # "copy" => u \in DOMAIN gridMap /\ gridMap[u] = s
    BY <1>0, <1>2, <1>4 DEF QueueTypes, IInv, CurrentIsFront, Reported
  <2>2. CASE cur.kind = "copy"
    <3>1. RecordNextDone(s) /\ UNCHANGED <<gridMap, running>>
      BY <1>2, <2>2 DEF DoOperation
    <3>2. gridMap = Without(u)
      <4>1. gridMap = [v \in DOMAIN gridMap |-> gridMap[v]]
        BY <1>0 DEF QueueTypes
      <4>2. DOMAIN gridMap \ {u} = DOMAIN gridMap
        BY <2>1, <2>2
      <4> QED BY <4>1, <4>2 DEF Without
    <3> QED
      BY <1>0, <1>1, <2>1, <2>2, <3>1, <3>2, PopInv DEF GpuTypes, Reported,
         IInv, FinishedOnce
  <2>3. CASE cur.kind = "functional" /\ CanStartKernel
    <3>1. /\ RecordNextDone(gridMap[u]) /\ gridMap' = Without(u)
          /\ UNCHANGED running
      BY <1>2, <2>3 DEF DoOperation, RegisterFinished
    <3> QED
      BY <1>0, <1>1, <2>1, <2>3, <3>1, PopInv DEF GpuTypes, Reported, IInv,
         FinishedOnce
  <2>4. CASE cur.kind = "kernel" /\ CanStartKernel
    <3>1. Launch(u) /\ UNCHANGED <<ops, pending, gridMap, done>>
      BY <1>2, <2>4 DEF DoOperation
    <3>2. PICK n \in 1 .. Slots :
            running[n] = 0 /\ running' = [running EXCEPT ![n] = u]
      BY <3>1 DEF Launch
    <3>3. u # 0 /\ running \in [1 .. Slots -> Ids \cup {0}]
      BY <1>0, <2>1 DEF GpuTypes, Ids
    <3>4. /\ \A m \in 1 .. Slots : running'[m] = IF m = n THEN u ELSE running[m]
          /\ OnGpu' \subseteq OnGpu \cup {u}
      BY <3>2, <3>3 DEF OnGpu
    <3>5. TypeOK'
      BY <1>0, <1>1, <2>1, <3>1, <3>2 DEF TypeOK, QueueTypes, GpuTypes
    <3>6. (PendingHasFront /\ QueuedAtOrigin /\ WorkIsListed
             /\ ServiceSeparates)'
      BY <1>1, <3>1 DEF IInv, PendingHasFront, QueuedAtOrigin, WorkIsListed,
         ServiceSeparates, InList
    <3>7. CurrentIsFront'
      BY <1>1 DEF CurrentIsFront
    <3>8. FinishedKernelIsFront'
      BY <1>1, <2>1, <2>4, <3>1, <3>4 DEF IInv, FinishedKernelIsFront,
         InProgress
    <3>9. FinishedOnce'
      <4>1. \A m \in 1 .. Slots : running[m] # u
        BY <2>1, <3>3 DEF OnGpu
      <4>2. \A m, k \in 1 .. Slots :
              running'[m] = running'[k] /\ running'[m] # 0 => m = k
        BY <3>4, <4>1 DEF IInv, FinishedOnce
      <4>3. \A i \in DOMAIN finished : finished[i] \notin OnGpu'
        BY <2>1, <3>4 DEF Reported, IInv, FinishedOnce
      <4> QED BY <1>1, <4>2, <4>3 DEF FinishedOnce, IInv
    <3> QED BY <3>5, <3>6, <3>7, <3>8, <3>9 DEF IInv
  <2> QED
    BY <1>3, <2>2, <2>3, <2>4 DEF DoOperation
<1>5. CASE cur = NoOp
  BY <1>3, <1>5 DEF DoOperation, NoOp
<1> QED
  BY <1>4, <1>5

\* cycle() moves kernels from their slots to the end of m_finished_kernel.
LEMMA CycleInv ==
  ASSUME IInv, Advance
  PROVE  IInv'
<1>0. QueueTypes /\ GpuTypes /\ ThreadTypes
  BY DEF IInv, TypeOK
<1>1. PICK ended \in SUBSET OnGpu : Cycle(ended)
  BY DEF Advance
<1>2. /\ gpc = "cycle" /\ gpc' = "more" /\ ThreadTypes'
      /\ UNCHANGED <<ops, pending, list, service, gridMap, cur, histVars>>
  BY <1>0, <1>1 DEF Cycle, GpuGoto, ThreadTypes, mgrVars, thrVars, simVars,
                    hostVars
<1>3. /\ draining' \in BOOLEAN /\ limitHit' \in BOOLEAN
      /\ running' = [n \in 1 .. Slots |->
                       IF running[n] \in ended THEN 0 ELSE running[n]]
  BY <1>0, <1>1 DEF Cycle, GpuTypes
<1>4. PICK q \in SeqsOf(ended) : finished' = finished \o q
  BY <1>1 DEF Cycle
<1>5. PICK k \in Nat : q \in [1 .. k -> ended]
  <2>1. q \in UNION {[1 .. k -> ended] : k \in 0 .. Slots}
    BY <1>4 DEF SeqsOf
  <2>2. \E k \in 0 .. Slots : q \in [1 .. k -> ended]
    BY <2>1
  <2> QED BY <2>2, StreamAssumption
<1>6. \A i, j \in DOMAIN q : q[i] = q[j] => i = j
  BY <1>4 DEF SeqsOf
<1>7. /\ \A n \in 1 .. Slots : running[n] \in Ids \cup {0}
      /\ ended \subseteq OnGpu /\ OnGpu \subseteq Ids
  BY <1>0 DEF GpuTypes, OnGpu
<1>8. /\ q \in Seq(Ids) /\ Len(q) = k /\ DOMAIN q = 1 .. k
      /\ finished \in Seq(Ids)
  <2>1. q \in [1 .. k -> Ids]
    BY <1>5, <1>7
  <2> QED BY <1>0, <2>1, IsASeq DEF GpuTypes
<1>9. /\ finished' \in Seq(Ids)
      /\ DOMAIN finished' = 1 .. Len(finished) + k
      /\ \A i \in 1 .. Len(finished) + k :
           finished'[i] = IF i <= Len(finished) THEN finished[i]
                          ELSE q[i - Len(finished)]
  <2>1. /\ finished \o q \in Seq(Ids)
        /\ Len(finished \o q) = Len(finished) + Len(q)
        /\ \A i \in 1 .. Len(finished) + Len(q) :
             (finished \o q)[i] = IF i <= Len(finished) THEN finished[i]
                                  ELSE q[i - Len(finished)]
    BY <1>8, ConcatProperties, Zenon
  <2> QED BY <1>4, <1>8, <2>1
<1>10. DOMAIN finished = 1 .. Len(finished) /\ Len(finished) \in Nat
  BY <1>8
<1>11. OnGpu' = OnGpu \ ended
  <2>1. \A n \in 1 .. Slots :
          running'[n] = IF running[n] \in ended THEN 0 ELSE running[n]
    BY <1>3
  <2> QED BY <2>1 DEF OnGpu
<1>12. \A i \in DOMAIN finished' :
         \/ i \in DOMAIN finished /\ finished'[i] = finished[i]
         \/ /\ i - Len(finished) \in DOMAIN q
            /\ ~(i <= Len(finished))
            /\ finished'[i] = q[i - Len(finished)] /\ finished'[i] \in ended
  <2> SUFFICES ASSUME NEW i \in DOMAIN finished'
               PROVE \/ i \in DOMAIN finished /\ finished'[i] = finished[i]
                     \/ /\ i - Len(finished) \in DOMAIN q
                        /\ ~(i <= Len(finished))
                        /\ finished'[i] = q[i - Len(finished)]
                        /\ finished'[i] \in ended
    OBVIOUS
  <2>1. CASE i <= Len(finished)
    BY <1>9, <1>10, <2>1
  <2>2. CASE ~(i <= Len(finished))
    <3>1. i - Len(finished) \in 1 .. k
      BY <1>9, <1>10, <2>2
    <3> QED BY <1>5, <1>8, <1>9, <2>2, <3>1
  <2> QED BY <2>1, <2>2
<1>13. TypeOK'
  <2>1. running' \in [1 .. Slots -> Ids \cup {0}]
    BY <1>3, <1>7
  <2> QED BY <1>0, <1>2, <1>3, <1>9, <2>1 DEF TypeOK, QueueTypes, GpuTypes,
             histVars
<1>14. (PendingHasFront /\ QueuedAtOrigin /\ WorkIsListed
          /\ ServiceSeparates /\ CurrentIsFront)'
  BY <1>2 DEF IInv, PendingHasFront, QueuedAtOrigin, WorkIsListed,
     ServiceSeparates, CurrentIsFront, InList, histVars
<1>15. FinishedKernelIsFront'
  BY <1>2, <1>7, <1>11, <1>12 DEF IInv, FinishedKernelIsFront, InProgress
<1>16. FinishedOnce'
  <2>1. \A m, n \in 1 .. Slots :
          running'[m] = running'[n] /\ running'[m] # 0 => m = n
    BY <1>3 DEF IInv, FinishedOnce
  <2>2. \A i \in DOMAIN finished' : finished'[i] \notin OnGpu'
    BY <1>11, <1>12 DEF IInv, FinishedOnce
  <2>3. ASSUME NEW i \in DOMAIN finished', NEW j \in DOMAIN finished',
               finished'[i] = finished'[j]
        PROVE  i = j
    <3>1. CASE i \in DOMAIN finished /\ j \in DOMAIN finished
      BY <1>9, <1>10, <2>3, <3>1, <1>12 DEF IInv, FinishedOnce
    <3>2. CASE i \notin DOMAIN finished /\ j \notin DOMAIN finished
      <4>1. i - Len(finished) = j - Len(finished)
        BY <1>6, <1>12, <2>3, <3>2
      <4> QED BY <1>9, <1>10, <4>1
    <3>3. \A a, b \in DOMAIN finished' :
            a \in DOMAIN finished /\ b \notin DOMAIN finished
              => finished'[a] # finished'[b]
      BY <1>7, <1>10, <1>12 DEF IInv, FinishedOnce
    <3> QED BY <2>3, <3>1, <3>2, <3>3
  <2> QED BY <2>1, <2>2, <2>3 DEF FinishedOnce
<1> QED
  BY <1>13, <1>14, <1>15, <1>16 DEF IInv

-----------------------------------------------------------------------------
\* Every call and every step of the simulation thread keeps IInv.
LEMMA NextInv == IInv /\ [Next]_vars => IInv'
<1> SUFFICES ASSUME IInv, [Next]_vars PROVE IInv'
  OBVIOUS
<1>1. CASE UNCHANGED vars
  <2>1. ThreadTypes' /\ UNCHANGED coreVars /\ UNCHANGED gpc
    BY <1>1 DEF vars, mgrVars, gpuVars, thrVars, simVars, hostVars,
       histVars, coreVars, IInv, TypeOK, ThreadTypes
  <2> QED BY <2>1, QuietInv
<1>2. CASE GpuStep
  BY <1>2, LoopStepsInv, CheckFinishedKernelInv, FrontInv, DoOperationInv,
     CycleInv DEF GpuStep, LoopSteps
<1>3. ASSUME NEW h \in Hosts, HostCalls(h) \/ HostReturns(h)
      PROVE  IInv'
  BY <1>3, HostWaitsInv, PushInv, ListInv, LoopStepsInv
  DEF HostCalls, HostReturns, HostWaits
<1> QED BY <1>1, <1>2, <1>3 DEF Next

\* IInv is an invariant.
THEOREM Inductive == Spec => []IInv
<1>1. IInv /\ [Next]_vars => IInv'
  BY NextInv
<1> QED
  BY <1>1, InitInv, PTL DEF Spec

\* Every queue, the grid map and the kernel table keep their types.
THEOREM TypeCorrect == Spec => []TypeOK
<1>1. IInv => TypeOK
  BY DEF IInv
<1> QED
  BY <1>1, Inductive, PTL

\* register_finished_kernel() always finds the finished kernel in the grid
\* map, at the front of its stream and in progress.
THEOREM FinishedIsFront == Spec => []FinishedKernelIsFront
<1>1. IInv => FinishedKernelIsFront
  BY DEF IInv
<1> QED
  BY <1>1, Inductive, PTL

\* A kernel has one slot at most and is reported finished once at most.
THEOREM ReportedOnce == Spec => []FinishedOnce
<1>1. IInv => FinishedOnce
  BY DEF IInv
<1> QED
  BY <1>1, Inductive, PTL

\* The default stream never overlaps another stream.
THEOREM DefaultExclusive == Spec => []DefaultStreamExclusive
<1>1. IInv => DefaultStreamExclusive
  BY DEF IInv, ServiceSeparates, DefaultStreamExclusive
<1> QED
  BY <1>1, Inductive, PTL

\* A destroyed stream leaves no queued, pending or launched operation and no
\* grid map entry behind.
THEOREM NoDangling == Spec => []NoDanglingStream
<1>1. IInv => NoDanglingStream
  <2> SUFFICES ASSUME IInv PROVE NoDanglingStream
    OBVIOUS
  <2>1. ASSUME NEW u \in DOMAIN gridMap, gridMap[u] # Zero
        PROVE  InList(gridMap[u])
    <3>1. gridMap[u] \in Streams /\ pending[gridMap[u]]
      BY <2>1 DEF IInv, TypeOK, QueueTypes, FinishedKernelIsFront,
         InProgress, AllStreams
    <3> QED BY <3>1 DEF IInv, WorkIsListed
  <2> QED BY <2>1 DEF IInv, WorkIsListed, NoDanglingStream
<1> QED
  BY <1>1, Inductive, PTL

-----------------------------------------------------------------------------
(* The order of operations.                                                *)

\* Every queue holds its operations in the order of their uids.
Ascending == \A s \in AllStreams : \A i, j \in DOMAIN ops[s] :
  i < j => ops[s][i].id < ops[s][j].id

Queued(s, u) == \E k \in DOMAIN ops[s] : ops[s][k].id = u

\* An operation that was pushed has taken effect or still waits in the queue
\* of its stream: none is lost, whatever front() and the kernels do.
DoneOrQueued == \A u \in 1 .. nextId : u \in done \/ Queued(origin[u], u)

OrderInv ==
  /\ \A u \in done : u <= nextId
  /\ Ascending
  /\ DoneOrQueued
  /\ StreamOrder

LEMMA InitOrder == Init => OrderInv
<1> SUFFICES ASSUME Init PROVE OrderInv
  OBVIOUS
<1> USE DEF Init
<1>1. \A s \in AllStreams : ops[s] = <<>>
  OBVIOUS
<1>2. Ascending
  BY <1>1 DEF Ascending
<1>3. DoneOrQueued
  BY DEF DoneOrQueued
<1> QED
  BY <1>2, <1>3 DEF OrderInv, StreamOrder

-----------------------------------------------------------------------------
(* What a step may do to the queues. *)

QueuesKept == UNCHANGED <<ops, done, nextId, origin>>

Pushed == \E s \in AllStreams, kind \in Kinds : Enqueue(s, kind)

\* record_next_done() on a stream that has an operation.
Popped == \E s \in AllStreams :
  /\ ops[s] # <<>>
  /\ ops' = [ops EXCEPT ![s] = Tail(@)]
  /\ done' = done \cup {Head(ops[s]).id}
  /\ UNCHANGED <<nextId, origin>>

LEMMA CheckEffect ==
  ASSUME IInv, CheckFinishedKernel
  PROVE  QueuesKept \/ Popped
<1>0. QueueTypes /\ GpuTypes
  BY DEF IInv, TypeOK
<1>1. CASE finished = <<>>
  BY <1>1 DEF CheckFinishedKernel, QueuesKept
<1>2. CASE finished # <<>>
  <2>1. PICK u : u = Head(finished)
    OBVIOUS
  <2>2. u = finished[1] /\ 1 \in DOMAIN finished
    BY <1>0, <1>2, <2>1 DEF GpuTypes
  <2>3. u \in DOMAIN gridMap
    BY <2>2 DEF IInv, FinishedKernelIsFront
  <2>4. PICK s : s = gridMap[u]
    OBVIOUS
  <2>5. s \in AllStreams /\ ops[s] # <<>>
    BY <1>0, <2>3, <2>4 DEF QueueTypes, IInv, FinishedKernelIsFront, InProgress
  <2>6. RecordNextDone(s) /\ UNCHANGED <<nextId, origin>>
    BY <1>2, <2>1, <2>4 DEF CheckFinishedKernel, RegisterFinished
  <2> QED BY <2>5, <2>6 DEF RecordNextDone, Popped
<1> QED
  BY <1>1, <1>2

LEMMA DoOperationEffect ==
  ASSUME IInv, DoOperation
  PROVE  QueuesKept \/ Popped
<1>0. QueueTypes
  BY DEF IInv, TypeOK
<1>1. UNCHANGED <<nextId, origin>>
  BY DEF DoOperation
<1>2. CASE cur.kind = "copy"
  <2>1. cur # NoOp
    BY <1>2 DEF NoOp
  <2>2. cur.stream \in AllStreams /\ ops[cur.stream] # <<>>
    BY <1>0, <2>1 DEF QueueTypes, IInv, CurrentIsFront, InProgress
  <2>3. RecordNextDone(cur.stream)
    BY <1>2 DEF DoOperation
  <2> QED BY <1>1, <2>2, <2>3 DEF RecordNextDone, Popped
<1>3. CASE cur.kind = "functional" /\ CanStartKernel
  <2>1. cur # NoOp /\ cur.kind # "copy"
    BY <1>3 DEF NoOp
  <2>2. /\ cur.stream \in AllStreams /\ ops[cur.stream] # <<>>
        /\ gridMap[cur.id] = cur.stream
    BY <1>0, <2>1 DEF QueueTypes, IInv, CurrentIsFront, InProgress
  <2>3. RecordNextDone(cur.stream)
    BY <1>3, <2>2 DEF DoOperation, RegisterFinished
  <2> QED BY <1>1, <2>2, <2>3 DEF RecordNextDone, Popped
<1>4. CASE cur.kind = "kernel" /\ CanStartKernel
  BY <1>1, <1>4 DEF DoOperation, QueuesKept
<1>5. CASE ~(cur.kind = "copy") /\ ~(cur.kind = "functional" /\ CanStartKernel)
           /\ ~(cur.kind = "kernel" /\ CanStartKernel)
  BY <1>1, <1>5 DEF DoOperation, QueuesKept
<1> QED
  BY <1>2, <1>3, <1>4, <1>5

\* A call of the API pushes one operation or leaves all queues alone.
LEMMA HostEffect ==
  ASSUME IInv, NEW h \in Hosts, HostCalls(h) \/ HostReturns(h)
  PROVE  QueuesKept \/ Pushed
<1> USE DEF mgrVars, histVars
<1>1. CASE HostCalls(h)
  <2>1. CASE \E s \in Streams, k \in Kinds : PushConcurrent(h, s, k)
    BY <2>1 DEF PushConcurrent, Pushed, AllStreams
  <2>2. CASE StartSim(h)
    BY <2>2 DEF StartSim, QueuesKept
  <2>3. CASE \E k \in Kinds : PushBlocking(h, k)
    BY <2>3 DEF PushBlocking, QueuesKept
  <2>4. CASE SyncBegin(h)
    BY <2>4 DEF SyncBegin, QueuesKept
  <2>5. CASE \E s \in Streams : StreamSync(h, s) \/ AddStream(h, s) \/ DestroyBegin(h, s)
    BY <2>5 DEF StreamSync, AddStream, DestroyBegin, QueuesKept
  <2>6. CASE ExitBegin(h)
    BY <2>6 DEF ExitBegin, QueuesKept
  <2> QED BY <1>1, <2>1, <2>2, <2>3, <2>4, <2>5, <2>6 DEF HostCalls
<1>2. CASE HostReturns(h)
  <2>1. CASE PushZero(h)
    <3>1. req[h] \in Kinds
      BY DEF IInv, TypeOK, ThreadTypes
    <3> QED BY <2>1, <3>1 DEF PushZero, Pushed, AllStreams
  <2>2. CASE Unblock(h) \/ ScanStream(h) \/ WaitEnd(h) \/ SyncBegin(h)
    BY <2>2 DEF Unblock, ScanStream, WaitEnd, SyncBegin, QueuesKept
  <2>3. CASE SyncEnd(h) \/ StreamSyncEnd(h) \/ DestroyEnd(h) \/ ExitEnd(h)
    BY <2>3 DEF SyncEnd, StreamSyncEnd, DestroyEnd, ExitEnd, QueuesKept
  <2> QED BY <1>2, <2>1, <2>2, <2>3 DEF HostReturns
<1> QED
  BY <1>1, <1>2

\* A step pushes one operation, pops one, or leaves all queues alone.
LEMMA QueueEffect ==
  ASSUME IInv, [Next]_vars
  PROVE  QueuesKept \/ Pushed \/ Popped
<1> USE DEF mgrVars, histVars
<1>1. CASE UNCHANGED vars
  BY <1>1 DEF vars, QueuesKept
<1>2. CASE GpuStep
  <2>1. CASE CheckFinishedKernel
    BY <2>1, CheckEffect
  <2>2. CASE DoOperation
    BY <2>2, DoOperationEffect
  <2>3. CASE FrontZero \/ FrontConcurrent
    BY <2>3 DEF FrontZero, FrontConcurrent, QueuesKept
  <2>4. CASE Advance
    BY <2>4 DEF Advance, Cycle, QueuesKept
  <2>5. CASE DetectWork \/ Activate \/ SkipCycle \/ MoreWork \/ Deactivate
             \/ OuterLoop
    BY <2>5 DEF DetectWork, Activate, SkipCycle, MoreWork, Deactivate,
                OuterLoop, QueuesKept
  <2> QED BY <1>2, <2>1, <2>2, <2>3, <2>4, <2>5 DEF GpuStep
<1>3. ASSUME NEW h \in Hosts, HostCalls(h) \/ HostReturns(h)
      PROVE  QueuesKept \/ Pushed
  BY <1>3, HostEffect
<1> QED
  BY <1>1, <1>2, <1>3 DEF Next

-----------------------------------------------------------------------------
\* A new operation has the largest uid and goes to the end of its queue.
LEMMA PushedOrder ==
  ASSUME IInv, OrderInv, Pushed
  PROVE  OrderInv'
<1>0. QueueTypes
  BY DEF IInv, TypeOK
<1>1. PICK s \in AllStreams, kind \in Kinds : Enqueue(s, kind)
  BY DEF Pushed
<1> DEFINE new == [id |-> nextId + 1, kind |-> kind]
<1>2. nextId \in Nat /\ nextId + 1 \in Ids /\ new \in Op /\ new.id = nextId + 1
  BY <1>0, <1>1, StreamAssumption DEF QueueTypes, Enqueue, Op, Ids
<1>3. /\ nextId' = nextId + 1 /\ done' = done
      /\ origin' = [origin EXCEPT ![nextId + 1] = s]
      /\ ops' = [ops EXCEPT ![s] = Append(ops[s], new)]
  BY <1>1 DEF Enqueue
<1> HIDE DEF new
<1>4. /\ ops'[s] = Append(ops[s], new)
      /\ \A t \in AllStreams : t # s => ops'[t] = ops[t]
      /\ \A t \in AllStreams : ops[t] \in Seq(Op)
      /\ origin'[nextId + 1] = s
      /\ \A u \in 1 .. nextId : origin'[u] = origin[u] /\ origin[u] \in AllStreams
  <2>1. \A u \in 1 .. nextId : u \in Ids /\ u # nextId + 1
    BY <1>0, <1>2, StreamAssumption DEF QueueTypes, Ids
  <2>2. ops \in [AllStreams -> Seq(Op)] /\ origin \in [Ids -> AllStreams]
    BY <1>0 DEF QueueTypes
  <2>3. ops'[s] = Append(ops[s], new) /\ origin'[nextId + 1] = s
    BY <1>2, <1>3, <2>2
  <2>4. \A t \in AllStreams : (t # s => ops'[t] = ops[t]) /\ ops[t] \in Seq(Op)
    BY <1>3, <2>2
  <2>5. \A u \in 1 .. nextId : origin'[u] = origin[u] /\ origin[u] \in AllStreams
    BY <1>3, <2>1, <2>2
  <2> QED BY <2>3, <2>4, <2>5
<1>5. \A t \in AllStreams : \A k \in DOMAIN ops[t] :
        k \in DOMAIN ops'[t] /\ ops'[t][k] = ops[t][k]
  <2> SUFFICES ASSUME NEW t \in AllStreams, NEW k \in DOMAIN ops[t]
               PROVE  k \in DOMAIN ops'[t] /\ ops'[t][k] = ops[t][k]
    OBVIOUS
  <2>1. CASE t = s
    <3>1. k \in 1 .. Len(ops[s]) /\ Len(ops[s]) \in Nat /\ ops[s] \in Seq(Op)
      BY <1>4, <2>1
    <3>2. /\ Append(ops[s], new)[k] = ops[s][k]
          /\ k \in DOMAIN Append(ops[s], new)
      BY <1>2, <3>1, AppendProperties
    <3> QED BY <1>4, <2>1, <3>2
  <2>2. CASE t # s
    BY <1>4, <2>2
  <2> QED BY <2>1, <2>2
<1>6. \A t \in AllStreams : \A k \in DOMAIN ops'[t] :
        k \notin DOMAIN ops[t] =>
          t = s /\ k = Len(ops[s]) + 1 /\ ops'[t][k].id = nextId + 1
  <2> SUFFICES ASSUME NEW t \in AllStreams, NEW k \in DOMAIN ops'[t],
                      k \notin DOMAIN ops[t]
               PROVE  t = s /\ k = Len(ops[s]) + 1 /\ ops'[t][k].id = nextId + 1
    OBVIOUS
  <2>1. t = s
    BY <1>4
  <2>2. k \in 1 .. Len(ops[s]) + 1 /\ Len(ops[s]) \in Nat
    BY <1>2, <1>4, <2>1, AppendProperties
  <2>3. k = Len(ops[s]) + 1
    BY <1>4, <2>1, <2>2
  <2> QED BY <1>2, <1>4, <2>1, <2>3, AppendProperties
<1>7. \A t \in AllStreams : \A k \in DOMAIN ops[t] :
        k \in Nat /\ ops[t][k].id \in Nat /\ ops[t][k].id <= nextId
  <2> SUFFICES ASSUME NEW t \in AllStreams, NEW k \in DOMAIN ops[t]
               PROVE  k \in Nat /\ ops[t][k].id \in Nat /\ ops[t][k].id <= nextId
    OBVIOUS
  <2>1. ops[t][k] \in Op /\ k \in Nat
    BY <1>4, ElementOfSeq
  <2>2. ops[t][k].id \in Nat
    BY <2>1, StreamAssumption DEF Op, Ids
  <2> QED BY <2>1, <2>2 DEF IInv, QueuedAtOrigin
<1>8. \A u \in done : u \in 1 .. nextId
  BY <1>0, <1>2 DEF QueueTypes, Ids, OrderInv
<1>9. Ascending'
  <2> SUFFICES ASSUME NEW t \in AllStreams, NEW i \in DOMAIN ops'[t],
                      NEW j \in DOMAIN ops'[t], i < j
               PROVE  ops'[t][i].id < ops'[t][j].id
    BY DEF Ascending
  <2>1. CASE i \in DOMAIN ops[t] /\ j \in DOMAIN ops[t]
    BY <1>5, <2>1 DEF OrderInv, Ascending
  <2>2. CASE i \in DOMAIN ops[t] /\ j \notin DOMAIN ops[t]
    BY <1>2, <1>5, <1>6, <1>7, <2>2
  <2>3. CASE i \notin DOMAIN ops[t]
    <3>1. t = s /\ i = Len(ops[s]) + 1
      BY <1>6, <2>3
    <3>2. j \in 1 .. Len(ops[s]) + 1 /\ Len(ops[s]) \in Nat
      BY <1>2, <1>4, <3>1, AppendProperties
    <3> QED BY <3>1, <3>2
  <2> QED BY <2>1, <2>2, <2>3
<1>10. DoneOrQueued'
  <2> SUFFICES ASSUME NEW u \in 1 .. nextId + 1, u \notin done
               PROVE  Queued(origin[u], u)'
    BY <1>3 DEF DoneOrQueued
  <2>1. CASE u = nextId + 1
    <3>1. Len(ops[s]) + 1 \in DOMAIN ops'[s]
      BY <1>2, <1>4, AppendProperties
    <3>2. ops'[s][Len(ops[s]) + 1].id = nextId + 1
      BY <1>2, <1>4, AppendProperties
    <3> QED BY <1>4, <2>1, <3>1, <3>2 DEF Queued
  <2>2. CASE u # nextId + 1
    <3>1. u \in 1 .. nextId
      BY <1>2, <2>2
    <3>2. Queued(origin[u], u)
      BY <3>1 DEF OrderInv, DoneOrQueued
    <3> QED BY <1>4, <1>5, <3>1, <3>2 DEF Queued
  <2> QED BY <2>1, <2>2
<1>11. StreamOrder'
  <2> SUFFICES ASSUME NEW j \in done, NEW i \in 1 .. j - 1,
                      origin'[i] = origin'[j]
               PROVE  i \in done
    BY <1>3 DEF StreamOrder
  <2>1. j \in 1 .. nextId
    BY <1>8
  <2>2. i \in 1 .. nextId
    BY <1>2, <2>1
  <2>3. origin[i] = origin[j]
    BY <1>4, <2>1, <2>2
  <2> QED BY <2>3 DEF OrderInv, StreamOrder
<1>12. \A u \in done' : u <= nextId'
  BY <1>2, <1>3, <1>8
<1> QED
  BY <1>9, <1>10, <1>11, <1>12 DEF OrderInv

\* The front operation of a queue has the smallest uid there, so every
\* earlier operation of the stream is done.
LEMMA PoppedOrder ==
  ASSUME IInv, OrderInv, Popped
  PROVE  OrderInv'
<1>0. QueueTypes
  BY DEF IInv, TypeOK
<1>1. PICK s \in AllStreams :
        /\ ops[s] # <<>>
        /\ ops' = [ops EXCEPT ![s] = Tail(ops[s])]
        /\ done' = done \cup {Head(ops[s]).id}
        /\ UNCHANGED <<nextId, origin>>
  BY DEF Popped
<1>2. /\ \A t \in AllStreams : ops[t] \in Seq(Op)
      /\ ops'[s] = Tail(ops[s])
      /\ \A t \in AllStreams : t # s => ops'[t] = ops[t]
      /\ Head(ops[s]) = ops[s][1] /\ 1 \in DOMAIN ops[s]
      /\ nextId \in Nat
  BY <1>0, <1>1 DEF QueueTypes
<1>3. PICK u : u = Head(ops[s]).id
  OBVIOUS
<1>4. u = ops[s][1].id /\ u <= nextId /\ origin[u] = s /\ u \in Nat
  <2>1. ops[s][1] \in Op
    BY <1>2, ElementOfSeq
  <2> QED BY <1>2, <1>3, <2>1, StreamAssumption
          DEF IInv, QueuedAtOrigin, Op, Ids
<1>5. /\ DOMAIN Tail(ops[s]) = 1 .. Len(ops[s]) - 1
      /\ \A i \in DOMAIN Tail(ops[s]) :
           i + 1 \in DOMAIN ops[s] /\ Tail(ops[s])[i] = ops[s][i + 1]
  BY <1>1, <1>2, TailFacts
<1>6. Ascending'
  <2> SUFFICES ASSUME NEW t \in AllStreams, NEW i \in DOMAIN ops'[t],
                      NEW j \in DOMAIN ops'[t], i < j
               PROVE  ops'[t][i].id < ops'[t][j].id
    BY DEF Ascending
  <2>1. CASE t = s
    <3>1. /\ i + 1 \in DOMAIN ops[s] /\ ops'[t][i] = ops[s][i + 1]
          /\ j + 1 \in DOMAIN ops[s] /\ ops'[t][j] = ops[s][j + 1]
          /\ i \in Int /\ j \in Int
      <4>1. i \in DOMAIN Tail(ops[s]) /\ j \in DOMAIN Tail(ops[s])
        BY <1>2, <2>1
      <4>2. i \in Int /\ j \in Int
        BY <1>5, <4>1
      <4> QED BY <1>2, <1>5, <2>1, <4>1, <4>2
    <3>2. i + 1 < j + 1
      BY <3>1
    <3> QED BY <3>1, <3>2 DEF OrderInv, Ascending
  <2>2. CASE t # s
    BY <1>2, <2>2 DEF OrderInv, Ascending
  <2> QED BY <2>1, <2>2
<1>7. DoneOrQueued'
  <2> SUFFICES ASSUME NEW v \in 1 .. nextId, v \notin done, v # u
               PROVE  Queued(origin[v], v)'
    BY <1>1, <1>3 DEF DoneOrQueued
  <2>0. PICK t : t = origin[v]
    OBVIOUS
  <2>1. t \in AllStreams
    BY <1>0, <1>2, <2>0, StreamAssumption DEF QueueTypes, Ids
  <2>2. PICK k \in DOMAIN ops[t] : ops[t][k].id = v
    BY <2>0 DEF OrderInv, DoneOrQueued, Queued
  <2>3. CASE t # s
    BY <1>1, <1>2, <2>0, <2>1, <2>2, <2>3 DEF Queued
  <2>4. CASE t = s
    <3>1. k # 1 /\ k \in 1 .. Len(ops[s]) /\ Len(ops[s]) \in Nat
      BY <1>2, <1>4, <2>2, <2>4
    <3>2. k - 1 \in DOMAIN Tail(ops[s]) /\ (k - 1) + 1 = k
      BY <1>5, <3>1
    <3>3. ops'[s][k - 1] = ops[s][k]
      BY <1>2, <1>5, <3>2
    <3> QED BY <1>1, <1>2, <2>0, <2>2, <2>4, <3>2, <3>3 DEF Queued
  <2> QED BY <2>3, <2>4
<1>8. \A i \in 1 .. u - 1 : origin[i] = s => i \in done
  <2> SUFFICES ASSUME NEW i \in 1 .. u - 1, origin[i] = s, i \notin done
               PROVE  FALSE
    OBVIOUS
  <2>1. i \in 1 .. nextId
    BY <1>2, <1>4
  <2>2. PICK k \in DOMAIN ops[s] : ops[s][k].id = i
    BY <2>1 DEF OrderInv, DoneOrQueued, Queued
  <2>3. k \in Nat /\ (k = 1 \/ 1 < k)
    BY <1>2
  <2>4. u = i \/ u < i
    BY <1>2, <1>4, <2>2, <2>3 DEF OrderInv, Ascending
  <2> QED BY <1>4, <2>4
<1>9. StreamOrder'
  BY <1>1, <1>3, <1>4, <1>8 DEF OrderInv, StreamOrder
<1>10. \A v \in done' : v <= nextId'
  BY <1>1, <1>3, <1>4 DEF OrderInv
<1> QED
  BY <1>6, <1>7, <1>9, <1>10 DEF OrderInv

-----------------------------------------------------------------------------
\* No operation is lost or overtaken in its stream, however many host threads
\* push, scan and destroy streams meanwhile.
THEOREM OrderInductive == Spec => []OrderInv
<1>1. IInv /\ OrderInv /\ [Next]_vars => OrderInv'
  <2> SUFFICES ASSUME IInv, OrderInv, [Next]_vars PROVE OrderInv'
    OBVIOUS
  <2>1. CASE QueuesKept
    BY <2>1 DEF QueuesKept, OrderInv, Ascending, DoneOrQueued, Queued, StreamOrder
  <2> QED BY <2>1, QueueEffect, PushedOrder, PoppedOrder
<1> QED
  BY <1>1, InitOrder, Inductive, PTL DEF Spec

\* Operations of one stream take effect in the order in which push() put
\* them there.
THEOREM EachStreamInOrder == Spec => []StreamOrder
<1>1. OrderInv => StreamOrder
  BY DEF OrderInv
<1> QED
  BY <1>1, OrderInductive, PTL

-----------------------------------------------------------------------------
(* Operations that are taken are started. *)

\* m_lock belongs to the simulation thread within operation(), and to a host
\* thread that waits in destroy_stream().
LockHolders ==
  /\ lock = Gpu <=> gpc \in {"front", "do"}
  /\ \A h \in Hosts : hpc[h] = "destroy" => lock = h

Started(s) ==
  Head(ops[s]).id \in OnGpu \cup {finished[i] : i \in DOMAIN finished}

\* An operation in progress is on the GPU or reported, but for the one that
\* front() has just returned.
TakenIsStarted == \A s \in AllStreams :
  pending[s] => Started(s) \/ (cur # NoOp /\ cur.stream = s)

SlotsSuffice == IsFiniteSet(Streams) /\ Cardinality(Streams) <= Slots

\* With as many slots as streams a kernel that front() returns finds a free
\* slot: the kernels on the GPU belong to other streams, one each.
LEMMA FreeSlot ==
  ASSUME SlotsSuffice, IInv, cur # NoOp
  PROVE  CanStartKernel
<1> SUFFICES ASSUME ~CanStartKernel PROVE FALSE
  OBVIOUS
<1>0. QueueTypes /\ GpuTypes /\ Slots \in Nat \ {0}
  BY StreamAssumption DEF IInv, TypeOK
<1> DEFINE f == [n \in 1 .. Slots |-> gridMap[running[n]]]
<1>1. /\ cur.stream \in AllStreams /\ InProgress(cur.stream, cur.id)
      /\ cur.id \notin OnGpu
  BY <1>0 DEF QueueTypes, IInv, CurrentIsFront
<1>2. ASSUME NEW n \in 1 .. Slots
      PROVE  /\ running[n] \in OnGpu
             /\ f[n] \in AllStreams /\ InProgress(f[n], running[n])
  <2>1. running[n] \in OnGpu
    BY <1>0 DEF CanStartKernel, OnGpu
  <2>2. running[n] \in DOMAIN gridMap
    BY <2>1 DEF IInv, FinishedKernelIsFront
  <2> QED BY <1>0, <2>1, <2>2 DEF QueueTypes, IInv, FinishedKernelIsFront
<1>3. \A n \in 1 .. Slots : f[n] # cur.stream
  BY <1>1, <1>2 DEF InProgress
<1>4. \A m, n \in 1 .. Slots : f[m] = f[n] => m = n
  <2> SUFFICES ASSUME NEW m \in 1 .. Slots, NEW n \in 1 .. Slots, f[m] = f[n]
               PROVE  m = n
    OBVIOUS
  <2>1. running[m] = running[n]
    BY <1>2 DEF InProgress
  <2>2. running[m] # 0
    BY <1>2 DEF OnGpu
  <2> QED BY <2>1, <2>2 DEF IInv, FinishedOnce
<1>5. \A s \in Streams : ~(pending[s] /\ pending[Zero])
  BY DEF IInv, ServiceSeparates
<1>6. cur.stream # Zero
  <2> SUFFICES ASSUME cur.stream = Zero PROVE FALSE
    OBVIOUS
  <2>1. 1 \in 1 .. Slots
    BY <1>0
  <2>2. f[1] \in AllStreams /\ f[1] # Zero /\ pending[f[1]] /\ pending[Zero]
    BY <1>1, <1>2, <1>3, <2>1 DEF InProgress
  <2> QED BY <1>5, <2>2 DEF AllStreams
<1>7. cur.stream \in Streams
  BY <1>1, <1>6 DEF AllStreams
<1>8. \A n \in 1 .. Slots : f[n] \in Streams \ {cur.stream}
  BY <1>1, <1>2, <1>3, <1>5, <1>7 DEF InProgress, AllStreams
<1> HIDE DEF f
<1>9. f \in Injection(1 .. Slots, Streams \ {cur.stream})
  <2>1. f \in [1 .. Slots -> Streams \ {cur.stream}]
    BY <1>8 DEF f
  <2> QED BY <1>4, <2>1 DEF Injection, IsInjective
<1>10. /\ IsFiniteSet(Streams \ {cur.stream})
       /\ Cardinality(Streams \ {cur.stream}) = Cardinality(Streams) - 1
  BY <1>7, FS_RemoveElement DEF SlotsSuffice
<1>11. Cardinality(1 .. Slots) <= Cardinality(Streams \ {cur.stream})
  BY <1>9, <1>10, FS_Injection
<1>12. Cardinality(1 .. Slots) = Slots
  BY <1>0, FS_Interval
<1>13. Cardinality(Streams) \in Nat
  BY FS_CardinalityType DEF SlotsSuffice
<1> QED
  BY <1>0, <1>10, <1>11, <1>12, <1>13 DEF SlotsSuffice

\* operation() and destroy_stream() give back the lock they have taken.
LEMMA LocksKept ==
  ASSUME IInv, LockHolders, [Next]_vars
  PROVE  LockHolders'
<1> USE DEF mgrVars, thrVars, simVars, hostVars
<1>0. ThreadTypes /\ ThreadTypes' /\ Gpu \notin Hosts /\ NoOne \notin Hosts \cup {Gpu}
  <2>1. IInv'
    BY NextInv
  <2> QED BY <2>1, StreamAssumption DEF IInv, TypeOK
<1>1. CASE UNCHANGED <<lock, gpc, hpc>>
  BY <1>1 DEF LockHolders
<1>2. CASE \/ UNCHANGED vars
           \/ DetectWork \/ Activate \/ SkipCycle \/ MoreWork \/ Deactivate
           \/ OuterLoop \/ Advance \/ FrontZero \/ FrontConcurrent
           \/ CheckFinishedKernel \/ DoOperation
  <2>1. /\ UNCHANGED hpc
        /\ \/ /\ UNCHANGED lock
              /\ (gpc \in {"front", "do"}) = (gpc' \in {"front", "do"})
           \/ lock = NoOne /\ lock' = Gpu /\ gpc' = "front"
           \/ gpc = "do" /\ lock' = NoOne /\ gpc' \in {"stop", "cycle"}
    <3>1. CASE UNCHANGED vars
      BY <3>1 DEF vars
    <3>2. CASE DetectWork \/ Activate \/ SkipCycle \/ MoreWork \/ Deactivate
      BY <3>2 DEF DetectWork, Activate, SkipCycle, MoreWork, Deactivate,
         GpuGoto
    <3>3. CASE OuterLoop \/ Advance
      <4>1. CASE OuterLoop
        <5>1. GpuGoto("outer", IF simDone THEN "exited" ELSE "spin")
          BY <4>1, Zenon DEF OuterLoop
        <5>2. UNCHANGED <<lock, hpc>>
          BY <4>1 DEF OuterLoop
        <5> QED BY <5>1, <5>2 DEF GpuGoto
      <4>2. CASE Advance
        BY <4>2 DEF Advance, Cycle, GpuGoto
      <4> QED BY <3>3, <4>1, <4>2
    <3>4. CASE FrontZero \/ FrontConcurrent
      <4>1. gpc = "front" /\ gpc' = "do" /\ UNCHANGED <<lock, hpc>>
        BY <3>4, Zenon DEF FrontZero, FrontConcurrent, GpuGoto
      <4> QED BY <4>1
    <3>5. CASE CheckFinishedKernel
      BY <3>5 DEF CheckFinishedKernel, GpuGoto
    <3>6. CASE DoOperation
      <4>1. UNCHANGED hpc /\ lock' = NoOne
        BY <3>6 DEF DoOperation
      <4>2. gpc = "do" /\ (gpc' = "stop" \/ gpc' = "cycle")
        <5>1. GpuGoto("do", IF check /\ ~(Active') THEN "stop" ELSE "cycle")
          BY <3>6, Zenon DEF DoOperation
        <5> QED BY <5>1, Zenon DEF GpuGoto
      <4> QED BY <4>1, <4>2
    <3> QED BY <1>2, <3>1, <3>2, <3>3, <3>4, <3>5, <3>6
  <2> QED BY <1>0, <2>1 DEF LockHolders
<1>3. ASSUME NEW h \in Hosts, HostCalls(h) \/ HostReturns(h)
      PROVE  LockHolders'
  <2>1. CASE \E s \in Streams : DestroyBegin(h, s)
    <3>1. /\ lock = NoOne /\ lock' = h /\ UNCHANGED gpc
          /\ \A g \in Hosts : g # h => hpc'[g] = hpc[g]
      BY <1>0, <2>1 DEF DestroyBegin, HostGoto, ThreadTypes
    <3> QED BY <1>0, <3>1 DEF LockHolders
  <2>2. CASE DestroyEnd(h)
    <3>1. /\ lock = h /\ lock' = NoOne /\ UNCHANGED gpc
          /\ \A g \in Hosts : hpc'[g] = "destroy" => g # h /\ hpc[g] = "destroy"
      BY <1>0, <2>2 DEF DestroyEnd, HostGoto, ThreadTypes, LockHolders
    <3> QED BY <1>0, <3>1 DEF LockHolders
  <2>3. CASE StartSim(h)
    <3>1. UNCHANGED <<lock, hpc>> /\ gpc = "exited" /\ gpc' = "spin"
      BY <2>3 DEF StartSim
    <3> QED BY <3>1 DEF LockHolders
  <2>4. CASE \/ Unblock(h) \/ ScanStream(h) \/ WaitEnd(h) \/ SyncBegin(h)
             \/ SyncEnd(h) \/ StreamSyncEnd(h) \/ PushZero(h)
             \/ (\E s \in Streams, k \in Kinds : PushConcurrent(h, s, k))
             \/ (\E k \in Kinds : PushBlocking(h, k))
             \/ (\E s \in Streams : StreamSync(h, s) \/ AddStream(h, s))
             \/ ExitBegin(h) \/ ExitEnd(h)
    <3>1. UNCHANGED <<lock, gpc>>
      BY <2>4 DEF Unblock, ScanStream, WaitEnd, SyncBegin, SyncEnd,
         StreamSyncEnd, PushZero, PushConcurrent, PushBlocking, StreamSync,
         AddStream, ExitBegin, ExitEnd
    <3>2. \A g \in Hosts : hpc'[g] = "destroy" => hpc[g] = "destroy"
      BY <1>0, <2>4 DEF Unblock, ScanStream, WaitEnd, SyncBegin, SyncEnd,
         StreamSyncEnd, PushZero, PushConcurrent, PushBlocking, StreamSync,
         AddStream, ExitBegin, ExitEnd, HostGoto, ThreadTypes
    <3> QED BY <3>1, <3>2 DEF LockHolders
  <2> QED BY <1>3, <2>1, <2>2, <2>3, <2>4 DEF HostCalls, HostReturns
<1> QED
  BY <1>2, <1>3 DEF Next, GpuStep

\* What a step changes of what TakenIsStarted speaks of, when it is not a step
\* of operation() or cycle().
LEMMA WaitingStarted ==
  ASSUME IInv, TakenIsStarted, UNCHANGED <<pending, running, finished, cur>>,
         UNCHANGED ops \/ Pushed
  PROVE  TakenIsStarted'
<1>0. QueueTypes
  BY DEF IInv, TypeOK
<1>1. CASE UNCHANGED ops
  BY <1>1 DEF TakenIsStarted, Started, OnGpu
<1>2. CASE Pushed
  <2>1. PICK s \in AllStreams, kind \in Kinds : Enqueue(s, kind)
    BY <1>2 DEF Pushed
  <2>2. PICK new : new = [id |-> nextId + 1, kind |-> kind]
    OBVIOUS
  <2>3. new \in Op /\ ops' = [ops EXCEPT ![s] = Append(ops[s], new)]
    BY <1>0, <2>1, <2>2, StreamAssumption DEF Enqueue, QueueTypes, Op, Ids
  <2>4. ASSUME NEW t \in AllStreams, pending[t]
        PROVE  Head(ops'[t]) = Head(ops[t])
    <3>1. ops[t] \in Seq(Op) /\ ops[t] # <<>>
      BY <1>0, <2>4 DEF QueueTypes, IInv, PendingHasFront
    <3>2. ops'[t] = Append(ops[t], new) \/ ops'[t] = ops[t]
      BY <1>0, <2>3 DEF QueueTypes
    <3> QED BY <2>3, <3>1, <3>2, HeadTailAppend
  <2> QED BY <2>4 DEF TakenIsStarted, Started, OnGpu
<1> QED
  BY <1>1, <1>2

\* record_next_done() ends what was in progress on its stream.
LEMMA PopStarted ==
  ASSUME IInv, TakenIsStarted, NEW s \in AllStreams, RecordNextDone(s),
         UNCHANGED running, cur' = NoOp, cur # NoOp => cur.stream = s,
         \A u \in Ids : Reported(u) =>
           Reported(u)' \/ (ops[s] # <<>> /\ u = Head(ops[s]).id)
  PROVE  TakenIsStarted'
<1>0. QueueTypes
  BY DEF IInv, TypeOK
<1> SUFFICES ASSUME NEW t \in AllStreams, pending'[t]
             PROVE  Started(t)'
  BY DEF TakenIsStarted
<1>1. t # s /\ pending[t] /\ ops'[t] = ops[t]
  BY <1>0 DEF QueueTypes, RecordNextDone
<1>2. PICK u : u = Head(ops[t]).id
  OBVIOUS
<1>3. u \in OnGpu \/ Reported(u)
  BY <1>1, <1>2 DEF TakenIsStarted, Started, Reported
<1>4. u \in Ids /\ origin[u] = t
  <2>1. ops[t] \in Seq(Op) /\ ops[t] # <<>>
    BY <1>0, <1>1 DEF QueueTypes, IInv, PendingHasFront
  <2>2. Head(ops[t]) = ops[t][1] /\ 1 \in DOMAIN ops[t] /\ ops[t][1] \in Op
    BY <2>1, ElementOfSeq
  <2> QED BY <1>2, <2>2 DEF Op, IInv, QueuedAtOrigin
<1>5. ops[s] # <<>> => u # Head(ops[s]).id
  <2> SUFFICES ASSUME ops[s] # <<>> PROVE origin[Head(ops[s]).id] = s
    BY <1>1, <1>4
  <2>1. Head(ops[s]) = ops[s][1] /\ 1 \in DOMAIN ops[s]
    BY <1>0 DEF QueueTypes
  <2> QED BY <2>1 DEF IInv, QueuedAtOrigin
<1> QED
  BY <1>1, <1>2, <1>3, <1>4, <1>5 DEF Started, Reported, OnGpu

LEMMA CheckStarted ==
  ASSUME IInv, TakenIsStarted, CheckFinishedKernel
  PROVE  TakenIsStarted'
<1>0. QueueTypes /\ GpuTypes /\ cur = NoOp /\ cur' = NoOp /\ UNCHANGED running
  BY DEF IInv, TypeOK, CheckFinishedKernel, GpuGoto, CurrentIsFront
<1>1. CASE finished = <<>>
  <2>1. UNCHANGED <<ops, pending, running, finished, cur>>
    BY <1>1 DEF CheckFinishedKernel
  <2> QED BY <2>1, WaitingStarted
<1>2. CASE finished # <<>>
  <2>1. PICK u : u = Head(finished)
    OBVIOUS
  <2>2. /\ u = finished[1] /\ 1 \in DOMAIN finished /\ finished \in Seq(Ids)
        /\ finished' = Tail(finished)
    BY <1>0, <1>2, <2>1 DEF GpuTypes, CheckFinishedKernel
  <2>3. PICK s : s = gridMap[u]
    OBVIOUS
  <2>4. s \in AllStreams /\ InProgress(s, u)
    BY <1>0, <2>2, <2>3 DEF QueueTypes, IInv, FinishedKernelIsFront
  <2>5. RecordNextDone(s)
    BY <1>2, <2>1, <2>3 DEF CheckFinishedKernel, RegisterFinished
  <2>6. ASSUME NEW v \in Ids, Reported(v), v # u
        PROVE  Reported(v)'
    <3>1. PICK i \in DOMAIN finished : finished[i] = v
      BY <2>6 DEF Reported
    <3>2. i # 1 /\ i \in 1 .. Len(finished) /\ Len(finished) \in Nat
      BY <2>2, <2>6, <3>1
    <3>3. /\ DOMAIN finished' = 1 .. Len(finished) - 1
          /\ \A k \in DOMAIN finished' : finished'[k] = finished[k + 1]
      BY <1>2, <2>2, TailFacts
    <3>4. i - 1 \in DOMAIN finished' /\ (i - 1) + 1 = i
      BY <3>2, <3>3
    <3> QED BY <3>1, <3>3, <3>4 DEF Reported
  <2> QED BY <1>0, <2>4, <2>5, <2>6, PopStarted DEF InProgress
<1> QED
  BY <1>1, <1>2

\* The operation front() takes is the current one.
LEMMA FrontStarted ==
  ASSUME IInv, TakenIsStarted, FrontZero \/ FrontConcurrent
  PROVE  TakenIsStarted'
<1>0. QueueTypes /\ cur = NoOp /\ UNCHANGED <<ops, running, finished>>
  BY DEF IInv, TypeOK, FrontZero, FrontConcurrent, GpuGoto, CurrentIsFront, gpuVars
<1>1. CASE UNCHANGED pending
  BY <1>0, <1>1 DEF TakenIsStarted, Started, OnGpu
<1>2. ASSUME NEW s \in AllStreams, Take(s), ops[s] # <<>>
      PROVE  TakenIsStarted'
  <2>1. /\ \A t \in AllStreams : t # s => pending'[t] = pending[t]
        /\ cur'.stream = s
    BY <1>0, <1>2 DEF Take, QueueTypes
  <2>2. cur' # NoOp
    <3>1. ops[s] \in Seq(Op)
      BY <1>0 DEF QueueTypes
    <3>2. Head(ops[s]) \in Op
      BY <1>2, <3>1
    <3>3. Head(ops[s]).kind # "noop"
      BY <3>2 DEF Op, Kinds
    <3> QED BY <1>2, <3>3 DEF Take, NoOp
  <2> QED BY <1>0, <2>1, <2>2 DEF TakenIsStarted, Started, OnGpu
<1>3. CASE \E s \in AllStreams : Take(s) /\ ops[s] # <<>>
  BY <1>2, <1>3
<1>4. UNCHANGED pending \/ \E s \in AllStreams : Take(s) /\ ops[s] # <<>>
  <2>1. CASE FrontZero
    BY <2>1 DEF FrontZero, AllStreams
  <2>2. CASE FrontConcurrent
    <3>1. \A i \in DOMAIN list : list[i] \in AllStreams
      BY <1>0, ElementOfSeq DEF QueueTypes, AllStreams
    <3> QED BY <2>2, <3>1 DEF FrontConcurrent, Ready
  <2> QED BY <2>1, <2>2
<1> QED
  BY <1>1, <1>3, <1>4

\* What do_operation() is given takes effect at once or gets a slot.
LEMMA DoStarted ==
  ASSUME SlotsSuffice, IInv, TakenIsStarted, DoOperation
  PROVE  TakenIsStarted'
<1>0. QueueTypes /\ GpuTypes /\ cur' = NoOp /\ UNCHANGED finished
  BY DEF IInv, TypeOK, DoOperation
<1>1. CASE cur = NoOp
  <2>1. cur.kind = "noop"
    BY <1>1 DEF NoOp
  <2>2. UNCHANGED <<ops, pending, running, finished, cur>>
    BY <1>0, <1>1, <2>1 DEF DoOperation
  <2> QED BY <2>2, WaitingStarted
<1>2. CASE cur # NoOp
  <2>1. CanStartKernel
    BY <1>2, FreeSlot
  <2>2. cur.stream \in AllStreams /\ cur.kind \in Kinds
    BY <1>0, <1>2 DEF QueueTypes
  <2>3. CASE cur.kind = "copy"
    <3>1. RecordNextDone(cur.stream) /\ UNCHANGED running
      BY <2>3 DEF DoOperation
    <3> QED BY <1>0, <2>2, <3>1, PopStarted DEF Reported
  <2>4. CASE cur.kind = "functional"
    <3>1. gridMap[cur.id] = cur.stream
      BY <1>2, <2>4 DEF IInv, CurrentIsFront
    <3>2. RecordNextDone(cur.stream) /\ UNCHANGED running
      BY <2>1, <2>4, <3>1 DEF DoOperation, RegisterFinished
    <3> QED BY <1>0, <2>2, <3>2, PopStarted DEF Reported
  <2>5. CASE cur.kind = "kernel"
    <3>1. Launch(cur.id) /\ UNCHANGED <<ops, pending>>
      BY <2>1, <2>5 DEF DoOperation
    <3>2. cur.id \in Ids /\ Head(ops[cur.stream]).id = cur.id
      BY <1>0, <1>2 DEF QueueTypes, IInv, CurrentIsFront, InProgress
    <3>3. cur.id \in OnGpu' /\ OnGpu \subseteq OnGpu'
      <4>1. PICK n \in 1 .. Slots :
              running[n] = 0 /\ running' = [running EXCEPT ![n] = cur.id]
        BY <3>1 DEF Launch
      <4>2. /\ running'[n] = cur.id
            /\ \A m \in 1 .. Slots : m # n => running'[m] = running[m]
        BY <1>0, <4>1 DEF GpuTypes
      <4>3. cur.id # 0
        BY <3>2, StreamAssumption DEF Ids
      <4> QED BY <4>1, <4>2, <4>3 DEF OnGpu
    <3> QED BY <1>0, <3>1, <3>2, <3>3 DEF TakenIsStarted, Started
  <2> QED BY <2>2, <2>3, <2>4, <2>5 DEF Kinds
<1> QED
  BY <1>1, <1>2

\* A kernel that leaves its slot is reported.
LEMMA CycleStarted ==
  ASSUME IInv, TakenIsStarted, Advance
  PROVE  TakenIsStarted'
<1>0. QueueTypes /\ GpuTypes
  BY DEF IInv, TypeOK
<1>1. PICK ended \in SUBSET OnGpu : Cycle(ended)
  BY DEF Advance
<1>2. PICK q \in SeqsOf(ended) : finished' = finished \o q
  BY <1>1 DEF Cycle
<1>3. UNCHANGED <<ops, pending, cur>>
  BY <1>1 DEF Cycle, mgrVars, thrVars
<1>4. /\ q \in Seq(ended) /\ finished \in Seq(Ids) /\ ended \subseteq Ids
      /\ \A u \in ended : \E i \in DOMAIN q : q[i] = u
  <2>1. q \in UNION {[1 .. k -> ended] : k \in 0 .. Slots}
    BY <1>2 DEF SeqsOf
  <2>2. \E k \in 0 .. Slots : q \in [1 .. k -> ended]
    BY <2>1
  <2>3. PICK k \in Nat : q \in [1 .. k -> ended]
    BY <2>2, StreamAssumption
  <2>4. q \in Seq(ended)
    BY <2>3, IsASeq
  <2>5. \A u \in ended : \E i \in DOMAIN q : q[i] = u
    BY <1>2 DEF SeqsOf
  <2> QED BY <1>0, <2>4, <2>5 DEF GpuTypes, OnGpu
<1>5. q \in Seq(Ids) /\ finished' \in Seq(Ids)
  <2>1. q \in Seq(Ids)
    BY <1>4
  <2> QED BY <1>2, <1>4, <2>1, ConcatProperties
<1>6. ASSUME NEW u, Reported(u) PROVE Reported(u)'
  <2>1. PICK i \in DOMAIN finished : finished[i] = u
    BY <1>6 DEF Reported
  <2>2. i \in 1 .. Len(finished) /\ Len(finished) \in Nat /\ Len(q) \in Nat
    BY <1>4, <1>5, <2>1
  <2>3. i \in DOMAIN (finished \o q) /\ (finished \o q)[i] = finished[i]
    BY <1>4, <1>5, <2>2, ConcatProperties
  <2> QED BY <1>2, <2>1, <2>3 DEF Reported
<1>7. ASSUME NEW u \in ended PROVE Reported(u)'
  <2>1. PICK i \in DOMAIN q : q[i] = u
    BY <1>4
  <2>2. i \in 1 .. Len(q) /\ Len(finished) \in Nat /\ Len(q) \in Nat
    BY <1>4, <1>5, <2>1
  <2>3. PICK k : k = Len(finished) + i
    OBVIOUS
  <2>4. k \in 1 .. Len(finished) + Len(q) /\ k > Len(finished) /\ k - Len(finished) = i
    BY <2>2, <2>3
  <2>5. k \in DOMAIN (finished \o q) /\ (finished \o q)[k] = q[i]
    BY <1>4, <1>5, <2>4, ConcatProperties
  <2> QED BY <1>2, <2>1, <2>5 DEF Reported
<1>8. \A u \in OnGpu : u \in OnGpu' \/ u \in ended
  BY <1>0, <1>1 DEF Cycle, OnGpu, GpuTypes
<1> QED
  BY <1>3, <1>6, <1>7, <1>8 DEF TakenIsStarted, Started, Reported

LEMMA StartedKept ==
  ASSUME SlotsSuffice, IInv, TakenIsStarted, [Next]_vars
  PROVE  TakenIsStarted'
<1> USE DEF mgrVars, thrVars, gpuVars
<1>1. CASE UNCHANGED vars
  BY <1>1, WaitingStarted DEF vars
<1>2. CASE GpuStep
  <2>1. CASE DetectWork \/ Activate \/ SkipCycle \/ MoreWork \/ Deactivate
             \/ OuterLoop
    <3>1. UNCHANGED <<ops, pending, running, finished, cur>>
      BY <2>1 DEF DetectWork, Activate, SkipCycle, MoreWork, Deactivate,
                  OuterLoop
    <3> QED BY <3>1, WaitingStarted
  <2> QED BY <1>2, <2>1, CheckStarted, FrontStarted, DoStarted, CycleStarted
          DEF GpuStep
<1>3. ASSUME NEW h \in Hosts, HostCalls(h) \/ HostReturns(h)
      PROVE  TakenIsStarted'
  <2>1. UNCHANGED <<pending, running, finished, cur>>
    BY <1>3 DEF HostCalls, HostReturns, Unblock, ScanStream, WaitEnd,
       SyncBegin, SyncEnd, StreamSyncEnd, StartSim, PushConcurrent, PushZero,
       PushBlocking, StreamSync, AddStream, DestroyBegin, DestroyEnd,
       ExitBegin, ExitEnd
  <2>2. QueuesKept \/ Pushed
    BY <1>3, HostEffect
  <2> QED BY <2>1, <2>2, WaitingStarted DEF QueuesKept
<1> QED
  BY <1>1, <1>2, <1>3 DEF Next

\* With a slot for every stream, what is marked as in progress outside
\* operation() really is a kernel on the GPU or a finished one.
THEOREM KernelsStart ==
  ASSUME SlotsSuffice
  PROVE  Spec => []PendingMeansStarted
<1>1. Init => LockHolders /\ TakenIsStarted
  BY StreamAssumption DEF Init, LockHolders, TakenIsStarted
<1>2. /\ IInv /\ LockHolders /\ TakenIsStarted /\ [Next]_vars
      => (LockHolders /\ TakenIsStarted)'
  BY LocksKept, StartedKept
<1>3. IInv /\ LockHolders /\ TakenIsStarted => PendingMeansStarted
  BY DEF PendingMeansStarted, TakenIsStarted, Started, LockHolders, IInv,
         CurrentIsFront
<1> QED
  BY <1>1, <1>2, <1>3, Inductive, PTL DEF Spec

-----------------------------------------------------------------------------
(* What CUDA promises to one host thread, for any number of streams, slots *)
(* and operations: the default stream is a barrier between the operations  *)
(* before it and those after it, and synchronize() returns when nothing is *)
(* left to do.  With a second host thread neither holds, as push() and     *)
(* empty() look at the streams one after the other, without the lock.      *)

OneHost == \A g, h \in Hosts : g = h

\* An operation of the default stream is the last one pushed, its push() has
\* not returned yet, and no other stream has work.
ZeroBlocks ==
  /\ ops[Zero] # <<>> => \A h \in Hosts : hpc[h] = "wait"
  /\ ops[Zero] # <<>> => \A s \in Streams : ops[s] = <<>>
  /\ \A k \in DOMAIN ops[Zero] : ops[Zero][k].id = nextId

\* push() on the default stream goes on when it has found all others empty.
OthersEmpty == \A h \in Hosts :
  hpc[h] = "push" => \A s \in Streams : ops[s] = <<>>

ToScan(h, s) == \E i \in DOMAIN todo[h] : todo[h][i] = s

\* A scan that has found nothing has still to read every stream with work.
ScanIsRight == \A h \in Hosts : hpc[h] = "sync" /\ clean[h] =>
  \A s \in Streams : ops[s] # <<>> => ToScan(h, s)

HostInv == ZeroBlocks /\ OthersEmpty /\ ScanIsRight

LEMMA InitHost == Init => HostInv /\ DefaultStreamOrder
  BY DEF Init, HostInv, ZeroBlocks, OthersEmpty, ScanIsRight,
         DefaultStreamOrder, AllStreams

\* What the simulation thread takes away, no host thread misses.
LEMMA HostKept ==
  ASSUME IInv, HostInv, QueuesKept \/ Popped, UNCHANGED hostVars
  PROVE  HostInv'
<1> USE DEF hostVars, HostInv, ZeroBlocks, OthersEmpty, ScanIsRight, ToScan
<1>1. CASE QueuesKept
  BY <1>1 DEF QueuesKept
<1>2. CASE Popped
  <2>0. ops \in [AllStreams -> Seq(Op)] /\ Zero \in AllStreams
    BY DEF IInv, TypeOK, QueueTypes, AllStreams
  <2>1. PICK s \in AllStreams :
          /\ ops[s] # <<>>
          /\ ops' = [ops EXCEPT ![s] = Tail(ops[s])]
          /\ UNCHANGED <<nextId, origin>>
    BY <1>2 DEF Popped
  <2>2. ops'[s] = Tail(ops[s]) /\ \A t \in AllStreams : t # s => ops'[t] = ops[t]
    BY <2>0, <2>1
  <2>3. \A t \in AllStreams : ops[t] = <<>> => ops'[t] = <<>>
    BY <2>1, <2>2
  <2>4. ASSUME NEW k \in DOMAIN ops'[Zero]
        PROVE  ops'[Zero][k].id = nextId
    <3>1. CASE s = Zero
      <4>1. k \in DOMAIN Tail(ops[Zero]) /\ ops[Zero] \in Seq(Op)
        BY <2>0, <2>2, <2>4, <3>1
      <4>2. k + 1 \in DOMAIN ops[Zero] /\ Tail(ops[Zero])[k] = ops[Zero][k + 1]
        BY <2>1, <3>1, <4>1, TailFacts
      <4> QED BY <2>2, <3>1, <4>2
    <3>2. CASE s # Zero
      BY <2>0, <2>2, <2>4, <3>2
    <3> QED BY <3>1, <3>2
  <2>5. ZeroBlocks'
    BY <2>0, <2>1, <2>3, <2>4
  <2>6. OthersEmpty'
    BY <2>3 DEF AllStreams
  <2>7. ScanIsRight'
    BY <2>3 DEF AllStreams
  <2> QED BY <2>5, <2>6, <2>7
<1> QED
  BY <1>1, <1>2

\* A step of the simulation thread.
LEMMA GpuEffect ==
  ASSUME IInv, GpuStep
  PROVE  (QueuesKept \/ Popped) /\ UNCHANGED hostVars
<1>1. CASE CheckFinishedKernel
  BY <1>1, CheckEffect DEF CheckFinishedKernel
<1>2. CASE DoOperation
  BY <1>2, DoOperationEffect DEF DoOperation
<1>3. CASE FrontZero \/ FrontConcurrent \/ Advance
  BY <1>3 DEF FrontZero, FrontConcurrent, Advance, Cycle, mgrVars, histVars,
              QueuesKept
<1>4. CASE DetectWork \/ Activate \/ SkipCycle \/ MoreWork \/ Deactivate
           \/ OuterLoop
  BY <1>4 DEF DetectWork, Activate, SkipCycle, MoreWork, Deactivate, OuterLoop,
              mgrVars, histVars, QueuesKept
<1> QED
  BY <1>1, <1>2, <1>3, <1>4 DEF GpuStep

-----------------------------------------------------------------------------
(* The calls of the one host thread. *)

\* A host thread that is in no push() and no scan, and does not enter one.
LEMMA Elsewhere ==
  ASSUME OneHost, ThreadTypes, HostInv, NEW h \in Hosts,
         UNCHANGED <<ops, nextId>>,
         hpc[h] # "wait", hpc'[h] \notin {"push", "wait", "sync"}
  PROVE  HostInv'
BY DEF HostInv, ZeroBlocks, OthersEmpty, ScanIsRight, OneHost

LEMMA EmptyStreams ==
  ASSUME IInv, ConcurrentEmpty
  PROVE  \A s \in Streams : ops[s] = <<>>
BY DEF IInv, WorkIsListed, InList, ConcurrentEmpty

LEMMA PushZeroHost ==
  ASSUME OneHost, IInv, HostInv, NEW h \in Hosts, PushZero(h)
  PROVE  HostInv'
<1>0. QueueTypes /\ ThreadTypes /\ Zero \in AllStreams
  BY DEF IInv, TypeOK, AllStreams
<1>1. hpc[h] = "push" /\ hpc'[h] = "wait" /\ Enqueue(Zero, req[h]) /\ req[h] \in Kinds
  BY <1>0 DEF PushZero, HostGoto, ThreadTypes
<1>2. ops[Zero] = <<>> /\ \A s \in Streams : ops[s] = <<>>
  BY <1>1 DEF HostInv, ZeroBlocks, OthersEmpty
<1>3. PICK new : new = [id |-> nextId + 1, kind |-> req[h]]
  OBVIOUS
<1>4. nextId' = nextId + 1 /\ ops' = [ops EXCEPT ![Zero] = Append(ops[Zero], new)]
  BY <1>1, <1>3 DEF Enqueue
<1>5. ops'[Zero] = <<new>> /\ new.id = nextId + 1
  BY <1>0, <1>2, <1>3, <1>4 DEF QueueTypes
<1>6. \A s \in Streams : ops'[s] = <<>>
  BY <1>0, <1>2, <1>4, StreamAssumption DEF QueueTypes, AllStreams
<1>7. \A k \in DOMAIN ops'[Zero] : ops'[Zero][k].id = nextId'
  BY <1>4, <1>5
<1>8. \A g \in Hosts : hpc'[g] = "wait"
  BY <1>1 DEF OneHost
<1> QED
  BY <1>6, <1>7, <1>8 DEF HostInv, ZeroBlocks, OthersEmpty, ScanIsRight

LEMMA PushHost ==
  ASSUME OneHost, IInv, HostInv, NEW h \in Hosts, NEW s \in Streams,
         NEW k \in Kinds, PushConcurrent(h, s, k)
  PROVE  HostInv'
<1>0. QueueTypes /\ Zero \in AllStreams /\ s # Zero
  BY StreamAssumption DEF IInv, TypeOK, AllStreams
<1>1. \A g \in Hosts : hpc[g] = "idle" /\ hpc'[g] = "idle"
  BY DEF PushConcurrent, hostVars, OneHost
<1>2. ops[Zero] = <<>>
  BY <1>1 DEF HostInv, ZeroBlocks
<1>3. ops'[Zero] = ops[Zero]
  BY <1>0 DEF PushConcurrent, Enqueue, QueueTypes
<1> QED
  BY <1>1, <1>2, <1>3 DEF HostInv, ZeroBlocks, OthersEmpty, ScanIsRight

LEMMA ScanHost ==
  ASSUME OneHost, IInv, HostInv, NEW h \in Hosts, ScanStream(h)
  PROVE  HostInv'
<1>0. ThreadTypes
  BY DEF IInv, TypeOK
<1>1. /\ UNCHANGED <<ops, nextId, hpc>>
      /\ todo[h] \in Seq(Streams) /\ todo[h] # <<>>
      /\ todo'[h] = Tail(todo[h])
  BY <1>0 DEF ScanStream, mgrVars, histVars, ThreadTypes
<1>2. ZeroBlocks' /\ OthersEmpty'
  BY <1>1 DEF HostInv, ZeroBlocks, OthersEmpty
<1>3. clean'[h] => clean[h] /\ ops[Head(todo[h])] = <<>>
  <2> DEFINE found == clean[h] /\ ops[Head(todo[h])] = <<>>
  <2>1. clean' = [clean EXCEPT ![h] = found]
    BY DEF ScanStream
  <2> HIDE DEF found
  <2>2. clean'[h] = found
    BY <1>0, <2>1 DEF ThreadTypes
  <2> QED BY <2>2, Zenon DEF found
<1>4. ASSUME NEW s \in Streams, ToScan(h, s), ops[s] # <<>>, clean'[h]
      PROVE  ToScan(h, s)'
  <2>1. PICK i \in DOMAIN todo[h] : todo[h][i] = s
    BY <1>4 DEF ToScan
  <2>2. Head(todo[h]) = todo[h][1]
    BY <1>1
  <2>3. i # 1 /\ i \in 1 .. Len(todo[h]) /\ Len(todo[h]) \in Nat
    BY <1>1, <1>3, <1>4, <2>1, <2>2
  <2>4. /\ DOMAIN Tail(todo[h]) = 1 .. Len(todo[h]) - 1
        /\ \A j \in DOMAIN Tail(todo[h]) : Tail(todo[h])[j] = todo[h][j + 1]
    BY <1>1, TailFacts
  <2>5. i - 1 \in DOMAIN Tail(todo[h]) /\ (i - 1) + 1 = i
    BY <2>3, <2>4
  <2>6. Tail(todo[h])[i - 1] = s
    BY <2>1, <2>4, <2>5
  <2> QED BY <1>1, <2>5, <2>6 DEF ToScan
<1>5. ScanIsRight'
  <2> SUFFICES ASSUME NEW g \in Hosts, hpc[g] = "sync", clean'[g],
                      NEW s \in Streams, ops[s] # <<>>
               PROVE  ToScan(g, s)'
    BY <1>1 DEF ScanIsRight
  <2>1. g = h
    BY DEF OneHost
  <2>2. ToScan(h, s)
    BY <1>3, <2>1 DEF HostInv, ScanIsRight
  <2> QED BY <1>4, <2>1, <2>2
<1> QED
  BY <1>2, <1>5 DEF HostInv

\* A scan begins with all streams that have work.
LEMMA SyncHost ==
  ASSUME OneHost, IInv, HostInv, NEW h \in Hosts, SyncBegin(h)
  PROVE  HostInv'
<1>0. ThreadTypes
  BY DEF IInv, TypeOK
<1>1. /\ UNCHANGED <<ops, nextId>> /\ todo'[h] = list
      /\ hpc[h] \in {"idle", "resync"} /\ hpc'[h] = "sync"
  BY <1>0 DEF SyncBegin, StartScan, mgrVars, histVars, ThreadTypes
<1>2. \A s \in Streams : ops'[s] # <<>> => ToScan(h, s)'
  BY <1>1 DEF IInv, WorkIsListed, InList, ToScan
<1>3. ScanIsRight' /\ OthersEmpty'
  BY <1>1, <1>2 DEF ScanIsRight, OthersEmpty, OneHost
<1>4. ZeroBlocks'
  BY <1>1 DEF HostInv, ZeroBlocks
<1> QED
  BY <1>3, <1>4 DEF HostInv

LEMMA HostStep ==
  ASSUME OneHost, IInv, HostInv, NEW h \in Hosts, HostCalls(h) \/ HostReturns(h)
  PROVE  HostInv'
<1>0. ThreadTypes
  BY DEF IInv, TypeOK
<1> USE DEF mgrVars, histVars
<1>1. CASE Unblock(h)
  <2>1. UNCHANGED <<ops, nextId>> /\ hpc[h] = "block" /\ hpc'[h] = "push"
    BY <1>0, <1>1 DEF Unblock, HostGoto, ThreadTypes
  <2>2. \A s \in Streams : ops[s] = <<>>
    BY <1>1, EmptyStreams DEF Unblock
  <2> QED BY <2>1, <2>2 DEF HostInv, ZeroBlocks, OthersEmpty, ScanIsRight, OneHost
<1>2. CASE WaitEnd(h)
  <2>1. UNCHANGED <<ops, nextId>> /\ hpc[h] = "wait"
    BY <1>2 DEF WaitEnd, HostGoto
  <2>2. hpc'[h] = "wait" \/ (hpc'[h] = "idle" /\ ops[Zero] = <<>>)
    BY <1>0, <1>2 DEF WaitEnd, HostGoto, ScanResult, ThreadTypes
  <2> QED BY <2>1, <2>2 DEF HostInv, ZeroBlocks, OthersEmpty, ScanIsRight, OneHost
<1>3. CASE SyncEnd(h)
  <2>1. UNCHANGED <<ops, nextId>> /\ hpc[h] = "sync"
    BY <1>3 DEF SyncEnd, HostGoto
  <2>2. hpc'[h] = "idle" \/ hpc'[h] = "resync"
    <3>1. HostGoto(h, "sync", IF ScanResult(h) /\ ~simActive THEN "idle"
                                                             ELSE "resync")
      BY <1>3, Zenon DEF SyncEnd
    <3>2. HostGoto(h, "sync", "idle") \/ HostGoto(h, "sync", "resync")
      BY <3>1, Zenon
    <3> QED BY <1>0, <3>2 DEF HostGoto, ThreadTypes
  <2> QED BY <1>0, <2>1, <2>2, Elsewhere
<1>4. CASE StartSim(h) \/ (\E s \in Streams : AddStream(h, s))
  <2>1. UNCHANGED <<ops, nextId, hpc>> /\ hpc[h] = "idle"
    BY <1>4 DEF StartSim, AddStream, hostVars
  <2> QED BY <1>0, <2>1, Elsewhere
<1>5. CASE \/ \E k \in Kinds : PushBlocking(h, k)
           \/ \E s \in Streams : StreamSync(h, s) \/ DestroyBegin(h, s)
           \/ StreamSyncEnd(h) \/ DestroyEnd(h) \/ ExitBegin(h) \/ ExitEnd(h)
  <2>1. UNCHANGED <<ops, nextId>>
    BY <1>5 DEF PushBlocking, StreamSync, DestroyBegin, StreamSyncEnd,
                DestroyEnd, ExitBegin, ExitEnd
  <2>2. /\ hpc[h] # "wait"
        /\ hpc'[h] \in {"block", "streamSync", "destroy", "exit", "idle"}
    BY <1>0, <1>5 DEF PushBlocking, StreamSync, DestroyBegin, StreamSyncEnd,
                DestroyEnd, ExitBegin, ExitEnd, HostGoto, ThreadTypes
  <2> QED BY <1>0, <2>1, <2>2, Elsewhere
<1> QED
  BY <1>1, <1>2, <1>3, <1>4, <1>5, PushZeroHost, PushHost, ScanHost, SyncHost
  DEF HostCalls, HostReturns

LEMMA HostInductive ==
  ASSUME OneHost PROVE Spec => []HostInv
<1>1. IInv /\ HostInv /\ [Next]_vars => HostInv'
  <2> SUFFICES ASSUME IInv, HostInv, [Next]_vars PROVE HostInv'
    OBVIOUS
  <2>1. CASE UNCHANGED vars
    BY <2>1, HostKept DEF vars, QueuesKept, mgrVars, histVars
  <2>2. CASE GpuStep
    BY <2>2, GpuEffect, HostKept
  <2> QED BY <2>1, <2>2, HostStep DEF Next
<1> QED
  BY <1>1, InitHost, Inductive, PTL DEF Spec

-----------------------------------------------------------------------------
\* An operation takes effect: what it has to wait for is done.
LEMMA PoppedBarrier ==
  ASSUME IInv, OrderInv, OrderInv', HostInv, DefaultStreamOrder, Popped
  PROVE  DefaultStreamOrder'
<1>0. QueueTypes /\ nextId \in Nat
  BY StreamAssumption DEF IInv, TypeOK, QueueTypes
<1>1. PICK s \in AllStreams :
        /\ ops[s] # <<>>
        /\ done' = done \cup {Head(ops[s]).id}
        /\ UNCHANGED <<nextId, origin>>
  BY DEF Popped
<1>2. PICK u : u = Head(ops[s]).id
  OBVIOUS
<1>3. u = ops[s][1].id /\ 1 \in DOMAIN ops[s] /\ ops[s] \in Seq(Op)
  BY <1>0, <1>1, <1>2 DEF QueueTypes
<1>4. u \in Nat /\ u <= nextId /\ origin[u] = s
  <2>1. ops[s][1] \in Op
    BY <1>3, ElementOfSeq
  <2> QED BY <1>3, <2>1, StreamAssumption DEF IInv, QueuedAtOrigin, Op, Ids
<1>5. ASSUME NEW i \in 1 .. u - 1, Zero \in {origin[i], s}, i \notin done
      PROVE  FALSE
  <2>1. i \in 1 .. nextId /\ i < u
    BY <1>0, <1>4
  <2>2. PICK k \in DOMAIN ops[origin[i]] : ops[origin[i]][k].id = i
    BY <1>5, <2>1 DEF OrderInv, DoneOrQueued, Queued
  <2>3. origin[i] \in AllStreams
    BY <1>0, <1>4, <2>1, StreamAssumption DEF QueueTypes, Ids
  <2>4. CASE origin[i] = Zero
    BY <1>4, <2>1, <2>2, <2>4 DEF HostInv, ZeroBlocks
  <2>5. CASE origin[i] # Zero
    <3>1. s = Zero /\ origin[i] \in Streams
      BY <1>5, <2>3, <2>5 DEF AllStreams
    <3>2. ops[origin[i]] = <<>>
      BY <1>1, <3>1 DEF HostInv, ZeroBlocks
    <3> QED BY <2>2, <3>2
  <2> QED BY <2>4, <2>5
<1> SUFFICES ASSUME NEW j \in done', NEW i \in 1 .. j - 1,
                    origin[i] = origin[j] \/ Zero \in {origin[i], origin[j]}
             PROVE  i \in done'
  BY <1>1 DEF DefaultStreamOrder
<1>6. CASE origin[i] = origin[j]
  BY <1>1, <1>6 DEF OrderInv, StreamOrder
<1>7. CASE j \in done
  BY <1>1, <1>7 DEF DefaultStreamOrder
<1>8. CASE j = u /\ origin[i] # origin[j]
  BY <1>1, <1>4, <1>5, <1>8
<1> QED
  BY <1>1, <1>2, <1>6, <1>7, <1>8

LEMMA PushedBarrier ==
  ASSUME IInv, OrderInv, DefaultStreamOrder, Pushed
  PROVE  DefaultStreamOrder'
<1>0. QueueTypes /\ nextId \in Nat
  BY StreamAssumption DEF IInv, TypeOK, QueueTypes
<1>1. PICK s \in AllStreams, kind \in Kinds : Enqueue(s, kind)
  BY DEF Pushed
<1>2. \A u \in Ids : u <= nextId => origin'[u] = origin[u]
  BY <1>0, <1>1 DEF Enqueue, QueueTypes
<1>3. \A u \in done : u \in 1 .. nextId /\ \A i \in 1 .. u - 1 : i \in Ids /\ i <= nextId
  BY <1>0, StreamAssumption DEF OrderInv, QueueTypes, Ids
<1>4. done' = done
  BY <1>1 DEF Enqueue
<1> SUFFICES ASSUME NEW j \in done, NEW i \in 1 .. j - 1,
                    origin'[i] = origin'[j] \/ Zero \in {origin'[i], origin'[j]}
             PROVE  i \in done
  BY <1>4 DEF DefaultStreamOrder
<1>5. origin'[i] = origin[i] /\ origin'[j] = origin[j]
  BY <1>0, <1>2, <1>3 DEF QueueTypes
<1> QED
  BY <1>5 DEF DefaultStreamOrder

\* The default stream is a barrier for all others, whatever one host thread
\* calls: push() on it blocks until everything is done (stream_manager.cc:361-389).
THEOREM DefaultBarrier ==
  ASSUME OneHost PROVE Spec => []DefaultStreamOrder
<1>1. /\ IInv /\ OrderInv /\ OrderInv' /\ HostInv /\ DefaultStreamOrder
      /\ [Next]_vars
      => DefaultStreamOrder'
  <2> SUFFICES ASSUME IInv, OrderInv, OrderInv', HostInv, DefaultStreamOrder,
                      [Next]_vars
               PROVE  DefaultStreamOrder'
    OBVIOUS
  <2>1. CASE QueuesKept
    BY <2>1 DEF QueuesKept, DefaultStreamOrder
  <2> QED BY <2>1, QueueEffect, PushedBarrier, PoppedBarrier
<1> QED
  BY <1>1, InitHost, HostInductive, OrderInductive, Inductive, PTL DEF Spec

-----------------------------------------------------------------------------
(* synchronize() also reads g_sim_active. *)

\* g_sim_active is set while the inner loop may run, which ends when the GPU is
\* idle or has reached a limit.
SimInv ==
  /\ simActive <=> gpc \in {"operation", "front", "do", "cycle", "more", "stop"}
  /\ gpc \notin {"operation", "front", "do", "cycle", "more"} => ~Active

LEMMA SimQuiet ==
  ASSUME IInv, SimInv, UNCHANGED <<gpc, simActive, gpuVars>>
  PROVE  SimInv'
BY DEF SimInv, Active, OnGpu, gpuVars

LEMMA SimGpu ==
  ASSUME IInv, SimInv, GpuStep
  PROVE  SimInv'
<1> USE DEF GpuGoto
<1>1. CASE DetectWork \/ OuterLoop \/ Activate \/ Deactivate
  <2>1. UNCHANGED gpuVars
    BY <1>1 DEF DetectWork, OuterLoop, Activate, Deactivate
  <2>2. Active' = Active
    BY <2>1 DEF Active, OnGpu, gpuVars
  <2>3. CASE DetectWork
    BY <2>2, <2>3 DEF DetectWork, SimInv, simVars
  <2>4. CASE OuterLoop
    <3>1. gpc = "outer" /\ gpc' \in {"exited", "spin"} /\ UNCHANGED simActive
      BY <2>4 DEF OuterLoop
    <3> QED BY <2>2, <3>1 DEF SimInv
  <2>5. CASE Activate
    BY <2>2, <2>5 DEF Activate, SimInv
  <2>6. CASE Deactivate
    BY <2>2, <2>6 DEF Deactivate, SimInv
  <2> QED BY <1>1, <2>3, <2>4, <2>5, <2>6
<1>2. CASE CheckFinishedKernel \/ FrontZero \/ FrontConcurrent
  <2>1. /\ UNCHANGED simActive
        /\ gpc \in {"operation", "front"} /\ gpc' \in {"front", "do"}
    BY <1>2 DEF CheckFinishedKernel, FrontZero, FrontConcurrent, simVars
  <2> QED BY <2>1 DEF SimInv
<1>3. CASE DoOperation
  <2>1. GpuGoto("do", IF check /\ ~(Active') THEN "stop" ELSE "cycle")
    BY <1>3, Zenon DEF DoOperation
  <2>2. gpc = "do" /\ (gpc' = "cycle" \/ (gpc' = "stop" /\ ~(Active')))
    BY <2>1, Zenon
  <2>3. UNCHANGED simActive
    BY <1>3 DEF DoOperation, simVars
  <2> QED BY <2>2, <2>3 DEF SimInv
<1>4. CASE Advance \/ SkipCycle
  <2>1. UNCHANGED simActive /\ gpc = "cycle" /\ gpc' = "more"
    BY <1>4 DEF Advance, Cycle, SkipCycle, simVars
  <2> QED BY <2>1 DEF SimInv
<1>5. CASE MoreWork
  <2>1. GpuGoto("more", IF Active \/ ~Empty THEN "operation" ELSE "stop")
    BY <1>5, Zenon DEF MoreWork
  <2>2. gpc = "more" /\ (gpc' = "operation" \/ (gpc' = "stop" /\ ~Active))
    BY <2>1, Zenon
  <2>3. UNCHANGED <<simActive, gpuVars>>
    BY <1>5 DEF MoreWork, simVars
  <2>4. Active' = Active
    BY <2>3 DEF Active, OnGpu, gpuVars
  <2> QED BY <2>2, <2>3, <2>4 DEF SimInv
<1> QED
  BY <1>1, <1>2, <1>3, <1>4, <1>5 DEF GpuStep

LEMMA SimHost ==
  ASSUME IInv, SimInv, NEW h \in Hosts, HostCalls(h) \/ HostReturns(h)
  PROVE  SimInv'
<1>1. CASE StartSim(h)
  <2>1. UNCHANGED <<simActive, gpuVars>> /\ gpc = "exited" /\ gpc' = "spin"
    BY <1>1 DEF StartSim
  <2>2. Active' = Active
    BY <2>1 DEF Active, OnGpu, gpuVars
  <2> QED BY <2>1, <2>2 DEF SimInv
<1>2. CASE ~StartSim(h)
  <2>1. UNCHANGED <<gpc, simActive, gpuVars>>
    BY <1>2 DEF HostCalls, HostReturns, Unblock, ScanStream, WaitEnd,
       SyncBegin, SyncEnd, StreamSyncEnd, PushConcurrent, PushZero,
       PushBlocking, StreamSync, AddStream, DestroyBegin, DestroyEnd,
       ExitBegin, ExitEnd, simVars
  <2> QED BY <2>1, SimQuiet
<1> QED
  BY <1>1, <1>2

LEMMA SimInductive == Spec => []SimInv
<1>1. Init => SimInv
  BY DEF Init, SimInv, Active, OnGpu
<1>2. IInv /\ SimInv /\ [Next]_vars => SimInv'
  <2> SUFFICES ASSUME IInv, SimInv, [Next]_vars PROVE SimInv'
    OBVIOUS
  <2>1. CASE UNCHANGED vars
    BY <2>1, SimQuiet DEF vars, simVars
  <2> QED BY <2>1, SimGpu, SimHost DEF Next
<1> QED
  BY <1>1, <1>2, Inductive, PTL DEF Spec

\* Only the end of a round of synchronize() makes it return.
LEMMA SyncReturns ==
  ASSUME OneHost, IInv, [Next]_vars, NEW h \in Hosts,
         hpc[h] = "sync", hpc'[h] = "idle"
  PROVE  SyncEnd(h)
<1>0. ThreadTypes
  BY DEF IInv, TypeOK
<1>1. hpc' # hpc
  OBVIOUS
<1>2. ~UNCHANGED vars
  BY <1>1 DEF vars, hostVars
<1>3. ~GpuStep
  BY <1>1, GpuEffect DEF hostVars
<1>4. HostCalls(h) \/ HostReturns(h)
  BY <1>2, <1>3 DEF Next, OneHost
<1>5. ~HostCalls(h)
  BY <1>0, <1>1 DEF HostCalls, StartSim, PushConcurrent, PushBlocking, SyncBegin,
     StreamSync, AddStream, DestroyBegin, ExitBegin, HostGoto, hostVars
<1>6. ~(hpc[h] = "resync" /\ SyncBegin(h))
  OBVIOUS
<1>7. ~ScanStream(h)
  BY <1>1 DEF ScanStream
<1>8. ~(Unblock(h) \/ PushZero(h) \/ WaitEnd(h))
  BY DEF Unblock, PushZero, WaitEnd, HostGoto
<1>9. ~(StreamSyncEnd(h) \/ DestroyEnd(h) \/ ExitEnd(h))
  BY DEF StreamSyncEnd, DestroyEnd, ExitEnd, HostGoto
<1> QED
  BY <1>4, <1>5, <1>6, <1>7, <1>8, <1>9 DEF HostReturns

\* synchronize() returns when every stream is empty and the GPU is idle,
\* although empty() reads the streams one by one while the simulation thread
\* works on them (gpgpusim_entrypoint.cc:172).
THEOREM SyncQuiescent ==
  ASSUME OneHost PROVE Spec => SyncMeansQuiescent
<1> DEFINE Quiescent == \A h \in Hosts : hpc[h] = "sync" /\ hpc'[h] = "idle" =>
                          Empty /\ ~Active /\ \A s \in AllStreams : ~pending[s]
<1>1. IInv /\ HostInv /\ SimInv /\ [Next]_vars => Quiescent
  <2> SUFFICES ASSUME IInv, HostInv, SimInv, [Next]_vars, NEW h \in Hosts,
                      hpc[h] = "sync", hpc'[h] = "idle"
               PROVE  Empty /\ ~Active /\ \A s \in AllStreams : ~pending[s]
    OBVIOUS
  <2>0. ThreadTypes
    BY DEF IInv, TypeOK
  <2>1. SyncEnd(h)
    BY SyncReturns
  <2>2. todo[h] = <<>> /\ ScanResult(h) /\ ~simActive
    <3>1. todo[h] = <<>>
      BY <2>1 DEF SyncEnd
    <3>2. HostGoto(h, "sync", IF ScanResult(h) /\ ~simActive THEN "idle"
                                                              ELSE "resync")
      BY <2>1, Zenon DEF SyncEnd
    <3>3. CASE ~(ScanResult(h) /\ ~simActive)
      <4>1. HostGoto(h, "sync", "resync")
        BY <3>2, <3>3, Zenon
      <4>2. hpc'[h] = "resync"
        BY <2>0, <4>1 DEF HostGoto, ThreadTypes
      <4> QED BY <4>2
    <3> QED BY <3>1, <3>3
  <2>3. clean[h] /\ ops[Zero] = <<>>
    BY <2>2 DEF ScanResult
  <2>4. \A s \in Streams : ops[s] = <<>>
    BY <2>2, <2>3 DEF HostInv, ScanIsRight, ToScan
  <2>5. Empty
    BY <2>3, <2>4 DEF Empty, ConcurrentEmpty, IInv, TypeOK, QueueTypes
  <2>6. \A s \in AllStreams : ~pending[s]
    BY <2>3, <2>4 DEF IInv, PendingHasFront, AllStreams
  <2>7. ~Active
    BY <2>2 DEF SimInv
  <2> QED BY <2>5, <2>6, <2>7
<1>2. Quiescent => [Quiescent]_vars
  OBVIOUS
<1> QED
  BY <1>1, <1>2, HostInductive, SimInductive, Inductive, PTL
  DEF Spec, SyncMeansQuiescent
=============================================================================
