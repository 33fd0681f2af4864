------------------------------- MODULE L2Cache -------------------------------
(***************************************************************************)
(* One memory sub-partition: requests from the interconnect, the L2 cache  *)
(* (one set of lines allocated on a miss, its miss status holding          *)
(* registers and its miss queue), the queues to and from DRAM, and the     *)
(* replies.  Translated from memory_sub_partition::cache_cycle() and the   *)
(* data_cache and mshr_table of gpu-cache.cc; DRAM answers in any order.   *)
(***************************************************************************)
EXTENDS Integers, SequencesExt, FiniteSets

CONSTANTS
  Blocks,        \* blocks that map to the set
  Ways,          \* m_assoc
  Entries,       \* m_mshr_entries
  MergeLimits,   \* configurations of m_mshr_max_merge
  MissSize,      \* m_miss_queue_size
  QueueSize,     \* gpgpu_L2_queue_config, the same for the four queues
  WriteHits,     \* configurations of m_write_policy
  Allocations,   \* configurations of m_write_alloc_policy
  Kinds,         \* kinds of requests that arrive
  MaxRequests    \* bound: requests of a behaviour

ASSUME L2Assumption ==
  /\ {Ways, Entries, MissSize, QueueSize, MaxRequests}
       \subseteq Nat \ {0}
  /\ MergeLimits \subseteq Nat \ {0}
  /\ WriteHits \subseteq {"back", "through", "evict"}
  /\ Allocations \subseteq BOOLEAN
  /\ Kinds \subseteq {"read", "write", "wrbk"}

VARIABLES
  maxMerged,     \* m_mshr_max_merge
  writeHit,      \* m_write_policy: "back", "through" or "evict"
  writeAllocate, \* m_write_alloc_policy
  sp,     \* the sub-partition
  dram,   \* mem_fetches in the memory partition and in DRAM
  asked,  \* history: number of requests that arrived
  ended   \* history: requests replied, or written back and deleted, in order

config == <<maxMerged, writeHit, writeAllocate>>
vars == <<config, sp, dram, asked, ended>>

\* A mem_fetch; the cache makes "alloc" (L2_WR_ALLOC_R) and "evict"
\* (L2_WRBK_ACC) itself, with id 0.  "wrbk" is L1_WRBK_ACC.
MemFetch(kind, block, id) == [kind |-> kind, block |-> block, id |-> id]

\* The options are read once, before the first cycle.
Init ==
  /\ maxMerged \in MergeLimits
  /\ writeHit \in WriteHits
  /\ writeAllocate \in Allocations
  /\ sp = [icnt |-> <<>>,      \* m_icnt_L2_queue
           lines |-> <<>>,     \* lines of the set but the INVALID, LRU first
           mshr |-> <<>>,      \* m_mshrs.m_data, lists by block
           ready |-> <<>>,     \* m_current_response
           fetching |-> {},    \* m_extra_mf_fields
           miss |-> <<>>,      \* m_miss_queue
           toDram |-> <<>>,    \* m_L2_dram_queue
           fromDram |-> <<>>,  \* m_dram_L2_queue
           reply |-> <<>>,     \* m_L2_icnt_queue
           tracked |-> {}]     \* m_request_tracker
  /\ dram = {}
  /\ asked = 0
  /\ ended = <<>>

Room(queue) == Len(queue) < QueueSize

\* push(), for the interconnect when the sub-partition is not full().
Arrive == \E kind \in Kinds, block \in Blocks :
  /\ asked < MaxRequests /\ Room(sp.icnt)
  /\ asked' = asked + 1
  /\ sp' = [sp EXCEPT !.icnt = Append(@, MemFetch(kind, block, asked + 1)),
                      !.tracked = @ \cup {asked + 1}]
  /\ UNCHANGED <<config, dram, ended>>

-----------------------------------------------------------------------------
(* cache_cycle() in its order: replies of filled entries, responses of DRAM, *)
(* the miss queue, and one new access.                                       *)

Entry(s, block) == IF block \in DOMAIN s.mshr THEN s.mshr[block] ELSE <<>>

\* An entry without requests is released.
WithEntry(s, block, list) ==
  [s EXCEPT !.mshr = [b \in (DOMAIN @ \cup {block})
                              \ (IF list = <<>> THEN {block} ELSE {}) |->
                        IF b = block THEN list ELSE @[b]]]

\* mshr_table::next_access()
NextAccess(s) ==
  LET block == Head(s.ready)
      rest == Tail(s.mshr[block])
  IN [WithEntry(s, block, rest) EXCEPT
        !.ready = IF rest = <<>> THEN Tail(@) ELSE @]

\* Stage 1; a write-allocate read is not passed back.
Answer(s) ==
  IF s.ready # <<>> /\ Room(s.reply)
    THEN LET m == Head(s.mshr[Head(s.ready)]) IN
         [NextAccess(s) EXCEPT
            !.reply = IF m.kind = "alloc" THEN @ ELSE Append(@, m)]
    ELSE s

\* Fault: the line stays reserved.
FillReserved(s, m) == [s EXCEPT !.ready = Append(@, m.block),
                                !.fetching = @ \ {m}]

\* baseline_cache::fill()
Fill(s, m) ==
  [s EXCEPT !.lines =
     [i \in DOMAIN @ |-> IF @[i].block = m.block
                           THEN [@[i] EXCEPT !.status = "valid"] ELSE @[i]],
            !.ready = Append(@, m.block),
            !.fetching = @ \ {m}]

\* Stage 2: a fill, when its port is free, or a reply to a write.
FromDram(s, port) ==
  IF s.fromDram = <<>> THEN s
  ELSE LET m == Head(s.fromDram) IN
       IF m \in s.fetching
         THEN IF port THEN [Fill(s, m) EXCEPT !.fromDram = Tail(@)] ELSE s
         ELSE IF Room(s.reply)
                THEN [s EXCEPT !.reply = Append(@, m), !.fromDram = Tail(@)]
                ELSE s

\* Stage 3: baseline_cache::cycle()
MissToDram(s) ==
  IF s.miss # <<>> /\ Room(s.toDram)
    THEN [s EXCEPT !.toDram = Append(@, Head(s.miss)), !.miss = Tail(@)]
    ELSE s

-----------------------------------------------------------------------------
(* Stage 4: the access of the cache.                                        *)

Line(s, block) == {i \in DOMAIN s.lines : s.lines[i].block = block}

Replaceable(s) == {i \in DOMAIN s.lines : s.lines[i].status # "reserved"}

\* tag_array::probe()
Probe(s, block) ==
  IF \E i \in Line(s, block) : s.lines[i].status # "reserved" THEN "hit"
  ELSE IF Line(s, block) # {} THEN "hit reserved"
  ELSE IF Len(s.lines) < Ways \/ Replaceable(s) # {} THEN "miss"
  ELSE "reservation fail"

\* An INVALID line is taken first, else the least recently used is evicted.
Victim(s, block) ==
  IF Probe(s, block) = "miss" /\ Len(s.lines) = Ways
    THEN {CHOOSE i \in Replaceable(s) : \A j \in Replaceable(s) : i <= j}
    ELSE {}

\* The lines but the one whose place is in the set, if there is one.
Without(lines, places) ==
  IF places = {} THEN lines ELSE RemoveAt(lines, CHOOSE i \in places : TRUE)

\* The block becomes the most recently used line, in its own place or in that
\* of the victim.
Use(s, block, status) ==
  [s EXCEPT !.lines = Append(Without(@, Line(s, block) \cup Victim(s, block)),
                             [block |-> block, status |-> status])]

\* Fault: reading a line marks it clean.
StatusOfClean(s, block) == "valid"

StatusOf(s, block) == s.lines[CHOOSE i \in Line(s, block) : TRUE].status

\* Whether the miss queue takes n more requests: !miss_queue_full(n - 1).
MissRoom(s, n) == Len(s.miss) + n - 1 < MissSize

\* !mshr_table::full()
MshrAvail(s, block) ==
  IF Entry(s, block) # <<>> THEN Len(Entry(s, block)) < maxMerged
                            ELSE Cardinality(DOMAIN s.mshr) < Entries

Accepted(s) == [s EXCEPT !.icnt = Tail(@)]

Send(s, m) == [s EXCEPT !.miss = Append(@, m)]

\* A dirty line that gives way is written back.
Evicted(s, block) ==
  {i \in Victim(s, block) :
     s.lines[i].status = "modified" /\ writeHit # "through"}

WriteBack(s, before, block) ==
  IF Evicted(before, block) = {} THEN s
  ELSE LET line == before.lines[CHOOSE i \in Evicted(before, block) : TRUE]
       IN Send(s, MemFetch("evict", line.block, 0))

\* Fault: a block that is being fetched is fetched again.
SendReadAlways(s, m) ==
  [Send(WithEntry(Use(s, m.block, "reserved"), m.block,
                  Append(Entry(s, m.block), m)), m)
     EXCEPT !.fetching = @ \cup {m}]

\* send_read_request(): merged into the block's entry, or sent.
SendRead(s, m) ==
  LET added == WithEntry(Use(s, m.block, "reserved"), m.block,
                         Append(Entry(s, m.block), m))
  IN IF Entry(s, m.block) # <<>> THEN added
     ELSE [Send(added, m) EXCEPT !.fetching = @ \cup {m}]

\* rd_miss_base()
ReadMiss(s, m) ==
  IF MissRoom(s, 2) /\ MshrAvail(s, m.block)
    THEN Accepted(WriteBack(SendRead(s, m), s, m.block))
    ELSE s

Reply(s, m) ==
  IF m.kind = "wrbk" THEN [s EXCEPT !.tracked = @ \ {m.id}]
                     ELSE [s EXCEPT !.reply = Append(@, m)]

\* wr_hit_wb(), wr_hit_wt() and wr_hit_we()
OnWriteHit(s, m) ==
  IF writeHit = "back" THEN Accepted(Reply(Use(s, m.block, "modified"), m))
  ELSE IF ~MissRoom(s, 1) THEN s
  ELSE IF writeHit = "through"
    THEN Accepted(Send(Use(s, m.block, "modified"), m))
  ELSE Accepted(Send([s EXCEPT !.lines = Without(@, Line(s, m.block))], m))

\* Fault: the write is sent before the MSHR is asked.
WriteMissEager(s, m) ==
  IF ~MissRoom(s, 3) THEN s
  ELSE IF ~MshrAvail(s, m.block) THEN Send(s, m)
  ELSE Accepted(WriteBack(SendRead(Send(s, m), MemFetch("alloc", m.block, 0)),
                          s, m.block))

\* wr_miss_wa() and wr_miss_no_wa()
WriteMiss(s, m) ==
  IF writeAllocate
    THEN IF MissRoom(s, 3) /\ MshrAvail(s, m.block)
           THEN Accepted(WriteBack(SendRead(Send(s, m),
                                            MemFetch("alloc", m.block, 0)),
                                   s, m.block))
           ELSE s
    ELSE IF MissRoom(s, 1) THEN Accepted(Send(s, m)) ELSE s

\* data_cache::access(); what is not accepted is tried again.
Access(s, port) ==
  IF ~Room(s.toDram) \/ s.icnt = <<>> \/ ~Room(s.reply) \/ ~port THEN s
  ELSE LET m == Head(s.icnt)
           probe == Probe(s, m.block)
       IN CASE probe = "reservation fail" -> s
            [] probe = "hit" /\ m.kind = "read" ->
                 Accepted(Reply(Use(s, m.block, StatusOf(s, m.block)), m))
            [] probe = "hit" /\ m.kind # "read" -> OnWriteHit(s, m)
            [] OTHER -> IF m.kind = "read" THEN ReadMiss(s, m)
                                           ELSE WriteMiss(s, m)

\* The four stages of a cycle, each on what the one before it leaves.
Stages(fillPort, dataPort) ==
  \E answered \in {Answer(sp)} :
  \E filled \in {FromDram(answered, fillPort)} :
  \E sent \in {MissToDram(filled)} :
    /\ sp' = Access(sent, dataPort)
    /\ ended' = ended \o SetToSeq(sp.tracked \ sp'.tracked)
    /\ UNCHANGED <<config, dram, asked>>

CacheCycle == \E fillPort, dataPort \in BOOLEAN : Stages(fillPort, dataPort)

-----------------------------------------------------------------------------
\* The memory partition takes a request.
DramTake ==
  /\ sp.toDram # <<>>
  /\ dram' = dram \cup {Head(sp.toDram)}
  /\ sp' = [sp EXCEPT !.toDram = Tail(@)]
  /\ UNCHANGED <<config, asked, ended>>

\* DRAM has served a request; a write-back is deleted, set_done().
DramDone(m) ==
  /\ m \in dram
  /\ dram' = dram \ {m}
  /\ IF m.kind \in {"wrbk", "evict"}
       THEN /\ sp' = [sp EXCEPT !.tracked = @ \ {m.id}]
            /\ ended' = IF m.kind = "wrbk" THEN Append(ended, m.id) ELSE ended
       ELSE /\ Room(sp.fromDram)
            /\ sp' = [sp EXCEPT !.fromDram = Append(@, m)]
            /\ UNCHANGED ended
  /\ UNCHANGED <<config, asked>>

\* pop(), for the reply path.
Pop ==
  /\ sp.reply # <<>>
  /\ ended' = Append(ended, Head(sp.reply).id)
  /\ sp' = [sp EXCEPT !.reply = Tail(@), !.tracked = @ \ {Head(sp.reply).id}]
  /\ UNCHANGED <<config, dram, asked>>

Next == Arrive \/ CacheCycle \/ DramTake \/ (\E m \in dram : DramDone(m)) \/ Pop

Spec == Init /\ [][Next]_vars

AllFetches ==
  [kind : {"read", "write", "wrbk", "alloc", "evict"}, block : Blocks,
   id : 0 .. MaxRequests]

\* The clocks tick, ports become free, DRAM serves some request as long as it
\* holds one, and the reply path takes every reply.
FairSpec ==
  /\ Spec
  /\ WF_vars(Stages(TRUE, TRUE))
  /\ WF_vars(DramTake) /\ WF_vars(Pop)
  /\ WF_vars(\E m \in dram : DramDone(m))

-----------------------------------------------------------------------------
Below == ToSet(sp.miss) \cup ToSet(sp.toDram) \cup dram \cup ToSet(sp.fromDram)

\* The values the queues, the lines and the MSHRs hold.
TypeOK ==
  /\ maxMerged \in MergeLimits /\ writeHit \in WriteHits
  /\ writeAllocate \in Allocations
  /\ sp.icnt \in Seq(AllFetches) /\ sp.miss \in Seq(AllFetches)
  /\ sp.toDram \in Seq(AllFetches) /\ sp.fromDram \in Seq(AllFetches)
  /\ sp.reply \in Seq(AllFetches)
  /\ sp.lines \in Seq([block : Blocks,
                       status : {"reserved", "valid", "modified"}])
  /\ DOMAIN sp.mshr \subseteq Blocks
  /\ \A b \in DOMAIN sp.mshr : sp.mshr[b] \in Seq(AllFetches) \ {<<>>}
  /\ sp.ready \in Seq(Blocks)
  /\ sp.fetching \subseteq AllFetches /\ dram \subseteq AllFetches
  /\ sp.tracked \subseteq 1 .. MaxRequests
  /\ asked \in 0 .. MaxRequests
  /\ ended \in Seq(1 .. MaxRequests)

\* baseline_cache::fill() and mark_ready() assert what they find: a fetch
\* sent below is the first request of its block's MSHR entry, which is not
\* ready yet, its line is still reserved, and no block is fetched twice.
FetchMatchesEntry ==
  /\ \A m \in sp.fetching :
       /\ m \in Below
       /\ m.block \in DOMAIN sp.mshr /\ Head(sp.mshr[m.block]) = m
       /\ \E i \in Line(sp, m.block) : sp.lines[i].status = "reserved"
  /\ IsInjective(sp.ready)
  /\ ToSet(sp.ready) \cup {m.block : m \in sp.fetching} = DOMAIN sp.mshr
  /\ ToSet(sp.ready) \cap {m.block : m \in sp.fetching} = {}

\* fifo_pipeline::push() no longer asserts that there is room (delayqueue.h
\* 70-72), and the miss queue never did: one access may add up to three
\* requests, and three stages of a cycle fill the reply queue.
QueuesBounded ==
  /\ TypeOK
  /\ \A queue \in {sp.icnt, sp.toDram, sp.fromDram, sp.reply} :
       Len(queue) <= QueueSize
  /\ Len(sp.miss) <= MissSize
  /\ Len(sp.lines) <= Ways
  /\ Cardinality(DOMAIN sp.mshr) <= Entries
  /\ \A b \in DOMAIN sp.mshr : Len(sp.mshr[b]) <= maxMerged

\* The places of request n: a read that misses waits in an MSHR entry, and
\* below the cache only writes count.
PlacesIn(queue, n) == {i \in DOMAIN queue : queue[i].id = n}

IsWrite(m) == m.kind \in {"write", "wrbk"}

WritesIn(queue, n) == {i \in PlacesIn(queue, n) : IsWrite(queue[i])}

Places(n) ==
  UNION {{"icnt"} \X PlacesIn(sp.icnt, n),
         {"miss"} \X WritesIn(sp.miss, n),
         {"toDram"} \X WritesIn(sp.toDram, n),
         {"dram"} \X {m \in dram : m.id = n /\ IsWrite(m)},
         {"fromDram"} \X WritesIn(sp.fromDram, n),
         {"reply"} \X PlacesIn(sp.reply, n),
         {"mshr"} \X UNION {{b} \X PlacesIn(sp.mshr[b], n) :
                             b \in DOMAIN sp.mshr},
         {"ended"} \X {i \in DOMAIN ended : ended[i] = n}}

\* cache_cycle() answers every request once, merged ones included, within the
\* sizes of the queues, and m_request_tracker, which busy() and so
\* gpgpu_sim::active() ask, holds exactly the requests that are still in the
\* sub-partition.
OncePerRequest ==
  /\ QueuesBounded
  /\ \A n \in 1 .. MaxRequests :
       Cardinality(Places(n)) = IF n <= asked THEN 1 ELSE 0
  /\ sp.tracked = 1 .. asked \ ToSet(ended)

\* A modified line of a write-back cache leaves the set only together with
\* its write-back.
DirtyLinesWrittenBack ==
  [][writeHit = "back" =>
       \A b \in Blocks :
         (\E i \in Line(sp, b) : sp.lines[i].status = "modified")
           => \/ \E i \in Line(sp', b) : sp'.lines[i].status = "modified"
              \/ /\ Line(sp', b) = {}
                 /\ MemFetch("evict", b, 0) \in ToSet(sp'.miss)]_vars

\* mshr_table::probe() "Checks if there is a pending request to the lower
\* memory level already" (gpu-cache.h:504): a reserved line, which only a
\* fill makes usable again, is one whose block is being fetched.
ReservedAwaitsFill ==
  \A i \in DOMAIN sp.lines : sp.lines[i].status = "reserved" =>
    \E m \in sp.fetching : m.block = sp.lines[i].block

\* Every request ends, replied to or written back and deleted, when an MSHR
\* entry holds one request; when it holds more, ReservedAwaitsFill fails.
AllEnd == maxMerged = 1 =>
  []<>(1 .. asked \subseteq ToSet(ended))
=============================================================================
