-------------------------- MODULE MemoryPartition --------------------------
(***************************************************************************)
(* A memory partition: the sub-partitions' queues to and from DRAM, the    *)
(* credits that arbitrate among them, the DRAM latency queue, the FR-FCFS  *)
(* scheduler, the banks and the return queue.  Translated from             *)
(* memory_partition_unit::dram_cycle(), dram_t::cycle() and                *)
(* frfcfs_scheduler; DRAM timing is left open.                             *)
(***************************************************************************)
EXTENDS Integers, SequencesExt, FiniteSetsExt

CONSTANTS
  SubCount,      \* m_n_sub_partition_per_memory_channel
  BankCount,     \* nbk
  Rows,          \* rows of a bank that are accessed
  SchedSizes,    \* configurations of gpgpu_frfcfs_dram_sched_queue_size
  ReturnSize,    \* gpgpu_dram_return_queue_size
  RwqSize,       \* commands in flight, CL + 1
  QueueSize,     \* of m_L2_dram_queue and m_dram_L2_queue
  WrittenRows,   \* bound: rows that write-backs (L2_WRBK_ACC) go to
  MaxRequests    \* bound: requests of a behaviour

ASSUME PartitionAssumption ==
  /\ {SubCount, BankCount, ReturnSize, RwqSize, QueueSize,
      MaxRequests} \subseteq Nat \ {0}
  /\ WrittenRows \subseteq Rows
  /\ SchedSizes \subseteq Nat \ {0}
  /\ \A size \in SchedSizes : size + ReturnSize >= SubCount - 1

VARIABLES
  schedSize, \* gpgpu_frfcfs_dram_sched_queue_size
  mp,      \* the memory partition
  sent,    \* history: number of requests of the sub-partitions
  served,  \* history: requests DRAM finished, in order
  taken    \* history: requests returned to the L2 caches

vars == <<schedSize, mp, sent, served, taken>>

Subs == 0 .. SubCount - 1
Banks == 0 .. BankCount - 1

\* addrdec_tlx(): the bank's low bits are the sub-partition.
SubOf(m) == m.bank % SubCount

Requests == [bank : Banks, row : Rows, kind : {"reply", "wrbk"},
             id : 1 .. MaxRequests]

\* The option is read once, before the first cycle.
Init ==
  /\ schedSize \in SchedSizes
  /\ \E row \in Rows :
       mp = [toDram |-> [s \in Subs |-> <<>>],   \* m_L2_dram_queue
             latency |-> <<>>,                   \* m_dram_latency_queue
             mrqq |-> <<>>,
             pending |-> <<>>,                   \* m_queue, oldest first
             bank |-> [b \in Banks |-> <<>>],    \* bk[b]->mrq
             open |-> [b \in Banks |-> row],     \* curr_row
             rwq |-> <<>>,
             returnq |-> <<>>,
             fromDram |-> [s \in Subs |-> <<>>], \* m_dram_L2_queue
             private |-> [s \in Subs |-> 0],     \* m_private_credit
             shared |-> 0,                       \* m_shared_credit
             last |-> SubCount - 1]              \* m_last_borrower
  /\ sent = 0
  /\ served = <<>>
  /\ taken = {}

\* L2interface::push(), by an L2 cache's cycle.
Send == \E bank \in Banks, row \in Rows, kind \in {"reply", "wrbk"} :
  LET m == [bank |-> bank, row |-> row, kind |-> kind, id |-> sent + 1] IN
  /\ sent < MaxRequests
  /\ kind = "wrbk" => row \in WrittenRows
  /\ Len(mp.toDram[SubOf(m)]) < QueueSize
  /\ sent' = sent + 1
  /\ mp' = [mp EXCEPT !.toDram[SubOf(m)] = Append(@, m)]
  /\ UNCHANGED <<schedSize, served, taken>>

\* An L2 cache takes the head of m_dram_L2_queue.
Take(s) ==
  /\ mp.fromDram[s] # <<>>
  /\ taken' = taken \cup {Head(mp.fromDram[s])}
  /\ mp' = [mp EXCEPT !.fromDram[s] = Tail(@)]
  /\ UNCHANGED <<schedSize, sent, served>>

-----------------------------------------------------------------------------
\* Credits.  m_private_credit_limit is 1, and a shared limit of 0 is none.
SharedLimit == schedSize + ReturnSize - (SubCount - 1)

SharedLeft(p) == SharedLimit = 0 \/ p.shared < SharedLimit

HasCredits(p, s) == p.private[s] < 1 \/ SharedLeft(p)

\* borrow_credit(), after has_credits()
Borrow(p, s) ==
  IF p.private[s] < 1
    THEN [p EXCEPT !.private[s] = @ + 1, !.last = s]
    ELSE [p EXCEPT !.shared = @ + 1, !.last = s]

\* return_credit()
ReturnCredit(p, s) ==
  IF p.private[s] > 0
    THEN [p EXCEPT !.private[s] = @ - 1]
    ELSE [p EXCEPT !.shared = @ - 1]

-----------------------------------------------------------------------------
(* dram_cycle(), in its order.                                              *)

\* The head of the return queue goes back to its sub-partition.
Return(p) ==
  IF p.returnq = <<>> \/ Len(p.fromDram[SubOf(Head(p.returnq))]) = QueueSize
    THEN p
    ELSE LET m == Head(p.returnq) IN
         ReturnCredit([p EXCEPT !.fromDram[SubOf(m)] = Append(@, m),
                                !.returnq = Tail(@)],
                      SubOf(m))

\* Fault: a finished write-back keeps its credit.
FinishKeeps(p, done) ==
  IF p.rwq = <<>> \/ Len(p.returnq) = ReturnSize \/ ~done THEN p
  ELSE LET m == Head(p.rwq)
           popped == [p EXCEPT !.rwq = Tail(@)]
       IN IF m.kind = "wrbk" THEN popped
                             ELSE [popped EXCEPT !.returnq = Append(@, m)]

\* The oldest data transfer is over, or not yet; a write-back is deleted.
Finish(p, done) ==
  IF p.rwq = <<>> \/ Len(p.returnq) = ReturnSize \/ ~done THEN p
  ELSE LET m == Head(p.rwq)
           popped == [p EXCEPT !.rwq = Tail(@)]
       IN IF m.kind = "wrbk" THEN ReturnCredit(popped, SubOf(m))
                             ELSE [popped EXCEPT !.returnq = Append(@, m)]

\* mrqq is emptied into the scheduler as far as there is room.
AddRequests(p) ==
  LET n == Min({Len(p.mrqq), schedSize - Len(p.pending)}) IN
  [p EXCEPT !.pending = @ \o SubSeq(p.mrqq, 1, n),
            !.mrqq = SubSeq(@, n + 1, Len(@))]

InBank(p, b) == {i \in DOMAIN p.pending : p.pending[i].bank = b}

RowHits(p, b) == {i \in InBank(p, b) : p.pending[i].row = p.open[b]}

\* Fault: the newest request of the open row goes first.
ChosenNewest(p, b) ==
  IF RowHits(p, b) # {} THEN Max(RowHits(p, b)) ELSE Min(InBank(p, b))

\* schedule(): the oldest request of the open row, else the oldest.
Chosen(p, b) ==
  IF RowHits(p, b) # {} THEN Min(RowHits(p, b)) ELSE Min(InBank(p, b))

\* Fault: a bank waits for a request of its open row.
SchedulableHits(p) == {b \in Banks : p.bank[b] = <<>> /\ RowHits(p, b) # {}}

Schedulable(p) == {b \in Banks : p.bank[b] = <<>> /\ InBank(p, b) # {}}

\* scheduler_frfcfs(): one idle bank gets its next request.
Schedule(p, b) ==
  IF b \notin Schedulable(p) THEN p
  ELSE LET m == p.pending[Chosen(p, b)] IN
       [p EXCEPT !.bank[b] = <<m>>, !.open[b] = m.row,
                 !.pending = RemoveAt(@, Chosen(p, b))]

\* At most one bank issues the last column command of its request.
IssueColumn(p, b) ==
  IF b \notin Banks THEN p
  ELSE IF p.bank[b] = <<>> \/ Len(p.rwq) >= RwqSize THEN p
  ELSE [p EXCEPT !.rwq = Append(@, Head(p.bank[b])), !.bank[b] = <<>>]

\* dram_t::full()
Full(p) == Len(p.pending) >= schedSize

CanIssue(p, s) ==
  /\ p.toDram[s] # <<>>
  /\ HasCredits(p, s)
  /\ Len(p.fromDram[s]) < QueueSize

Successor(p, n) == (n + p.last) % SubCount

\* Fault: the search starts with the last borrower.
TurnsFromLast(p) == {n \in 0 .. SubCount - 1 : CanIssue(p, Successor(p, n))}

\* Sub-partitions that can issue, counted from the one after the last borrower.
Turns(p) == {n \in 1 .. SubCount : CanIssue(p, Successor(p, n))}

\* One request enters the latency queue.
Arbitrate(p) ==
  IF Full(p) \/ Turns(p) = {} THEN p
  ELSE LET s == Successor(p, Min(Turns(p))) IN
       Borrow([p EXCEPT !.latency = Append(@, Head(p.toDram[s])),
                        !.toDram[s] = Tail(@)],
              s)

\* The head of the latency queue is ready, or not yet.
ToScheduler(p, ready) ==
  IF p.latency = <<>> \/ Full(p) \/ ~ready THEN p
  ELSE [p EXCEPT !.mrqq = Append(@, Head(p.latency)), !.latency = Tail(@)]

\* The stages of a cycle, each on what the one before it leaves.  An idle
\* bank with requests is scheduled if there is one, else (-1) none is.
Cycle(done, column, ready) ==
  \E finished \in {Finish(Return(mp), done)} :
  \E added \in {AddRequests(finished)} :
  \E chosen \in IF Schedulable(added) = {} THEN {-1} ELSE Schedulable(added) :
  \E issued \in {IssueColumn(Schedule(added, chosen), column)} :
    /\ mp' = ToScheduler(Arbitrate(issued), ready)
    /\ served' = IF finished.rwq = mp.rwq THEN served
                                          ELSE Append(served, Head(mp.rwq))
    /\ UNCHANGED <<schedSize, sent, taken>>

DramCycle == \E done, ready \in BOOLEAN, column \in Banks \cup {-1} :
  Cycle(done, column, ready)

Next == Send \/ (\E s \in Subs : Take(s)) \/ DramCycle

Spec == Init /\ [][Next]_vars

\* The clock ticks, transfers and latencies pass, and every bank comes to
\* issue: prio moves past a bank with each of its commands.
FairSpec ==
  /\ Spec
  /\ \A s \in Subs : WF_vars(Take(s))
  /\ \A b \in Banks : WF_vars(Cycle(TRUE, b, TRUE))

-----------------------------------------------------------------------------
\* The requests that hold credits: those from the latency queue to the return queue.
InFlight(p) ==
  UNION ({ToSet(p.latency), ToSet(p.mrqq), ToSet(p.pending), ToSet(p.rwq), ToSet(p.returnq)}
         \cup {ToSet(p.bank[b]) : b \in Banks})

Busy(p) == {b \in Banks : p.bank[b] # <<>>}

InFlightCount(p) ==
  Len(p.latency) + Len(p.mrqq) + Len(p.pending) + Len(p.rwq) + Len(p.returnq)
  + Cardinality(Busy(p))

\* The sub-partitions whose private credit is borrowed.
Borrowers(p) == {s \in Subs : p.private[s] = 1}

\* The values the queues and counters hold.
TypeOK ==
  /\ schedSize \in SchedSizes
  /\ \A s \in Subs :
       mp.toDram[s] \in Seq(Requests) /\ mp.fromDram[s] \in Seq(Requests)
  /\ {mp.latency, mp.mrqq, mp.pending, mp.rwq, mp.returnq}
       \subseteq Seq(Requests)
  /\ \A b \in Banks : mp.bank[b] \in Seq(Requests) /\ mp.open[b] \in Rows
  /\ mp.private \in [Subs -> 0 .. 1]
  /\ mp.shared \in Nat
  /\ mp.last \in Subs
  /\ sent \in 0 .. MaxRequests
  /\ served \in Seq(Requests) /\ taken \subseteq Requests

\* mrqq and the return queues, whose push() no longer asserts room, and the
\* queue of the scheduler stay within their sizes.
QueuesBounded ==
  /\ TypeOK
  /\ Len(mp.pending) <= schedSize /\ Len(mp.mrqq) <= 2
  /\ Len(mp.returnq) <= ReturnSize
  /\ \A s \in Subs : Len(mp.fromDram[s]) <= QueueSize
  /\ \A b \in Banks : Len(mp.bank[b]) <= 1

\* Every request between borrow_credit() and return_credit() holds one
\* credit, private or shared, so "Returning more than available credits!"
\* (l2cache.cc:142) cannot fail, none is lost, and a sub-partition with
\* nothing in flight has "at least 1 credit for forward progress" (l2cache.cc:95).
CreditsMatchInFlight ==
  /\ QueuesBounded
  /\ \A s \in Borrowers(mp) : \E m \in InFlight(mp) : SubOf(m) = s
  /\ SharedLimit # 0 => mp.shared <= SharedLimit
  /\ mp.shared + Cardinality(Borrowers(mp)) = InFlightCount(mp)

\* FR-FCFS reorders requests, never two of the same row: a read does not
\* pass an earlier write to its row.
SameRowInOrder ==
  \A i, j \in DOMAIN served :
    /\ i < j
    /\ served[i].bank = served[j].bank /\ served[i].row = served[j].row
    => served[i].id < served[j].id

\* Round robin: a sub-partition that can issue, and whose queue from DRAM
\* does not fill up in this very cycle, is not passed over for the sub-partition
\* that issued last.
TurnsTaken ==
  [][\A s, other \in Subs :
       /\ s # other /\ mp.last = other
       /\ \E n \in 1 .. Len(mp.toDram[other]) :
            mp'.toDram[other] = Tail(mp.toDram[other])
       => ~CanIssue(mp, s) \/ Len(mp'.fromDram[s]) = QueueSize]_vars

\* Every request is served, and every reply reaches its L2 cache: the requests are
\* finitely many, so at some time none is left.
AllServed ==
  []<>(\A n \in 1 .. sent :
         \E i \in DOMAIN served :
           /\ served[i].id = n
           /\ served[i].kind = "reply" => served[i] \in taken)
=============================================================================
