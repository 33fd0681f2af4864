---------------------------- MODULE ReplyCompressor ----------------------------
(***************************************************************************)
(* Replies leaving one memory sub-partition: from its L2-to-ICNT queue     *)
(* through the compressor pipeline into the compression buffer, from there *)
(* (with -hpcl_rec_comp_en) through the recursive compressor, which merges *)
(* replies into packets, into the recursive compression buffer, and into   *)
(* the interconnect.  Translated from gpgpu_sim::                          *)
(* push_mf_from_mc_to_icnt_in_crossbar_with_reply_compression() and what   *)
(* it calls.                                                               *)
(***************************************************************************)
EXTENDS Integers, SequencesExt, FiniteSets

CONSTANTS
  SMs,          \* the clusters replies go to (get_tpc())
  None,         \* no mem_fetch
  Control,      \* the CTRL_MSG mem_fetch of the FPH arm
  MaxReplies,   \* bound: replies of a behaviour
  Stages,       \* depth of the compressor pipeline
  BufferSize,   \* hpcl_comp_buffer_size
  RecSize,      \* hpcl_rec_comp_buffer_size
  Arms,         \* whether the FPH arm is configured: a set of truth values
  Algorithms    \* configurations of recursive compression, see merging

Mergings == {"off", "same", "diff", "same diff", "diff same"}

ASSUME CompressorAssumption ==
  /\ {None, Control} \cap (1 .. MaxReplies) = {} /\ None # Control
  /\ {MaxReplies, Stages, BufferSize, RecSize} \subseteq Nat \ {0}
  /\ Arms \subseteq BOOLEAN
  /\ Algorithms \subseteq Mergings

\* Replies are numbered in the order in which they enter the queue.
Reply == 1 .. MaxReplies

VARIABLES
  announced, \* the FPH arm: a control message goes before each reply
  merging,  \* "off" (hpcl_rec_comp_en = 0) or hpcl_rec_comp_algo
  arrived,  \* history: [sm, data] of each reply; data: is_data_retrievable()
  queue,    \* m_L2_icnt_queue
  stage,    \* mem_fetch held between the stages of the pipeline
  buf,      \* g_hpcl_comp_buffer[i]
  rec,      \* g_hpcl_rec_comp_buffer[i]
  same,     \* m_merged_mfs_to_same_SM of every reply
  others,   \* m_merged_mfs of every reply
  net       \* history: packets given to perf_icnt_push(), by their head

config == <<announced, merging>>
vars == <<config, arrived, queue, stage, buf, rec, same, others, net>>

\* The options are read once, before the first cycle.
Init ==
  /\ announced \in Arms
  /\ merging \in Algorithms
  /\ arrived = <<>>
  /\ queue = <<>>
  /\ stage = [i \in 1 .. Stages - 1 |-> None]
  /\ buf = <<>>
  /\ rec = <<>>
  /\ same = [r \in Reply |-> <<>>]
  /\ others = [r \in Reply |-> <<>>]
  /\ net = <<>>

SM(r) == arrived[r].sm

\* get_real_data_size() > 0: only retrievable replies are given their data.
HasData(m) == m # Control /\ arrived[m].data

\* The L2 cache or DRAM answers a request.
Arrive == \E sm \in SMs, data \in BOOLEAN :
  /\ Len(arrived) < MaxReplies
  /\ arrived' = Append(arrived, [sm |-> sm, data |-> data])
  /\ queue' = Append(queue, Len(arrived) + 1)
  /\ UNCHANGED <<config, stage, buf, rec, same, others, net>>

-----------------------------------------------------------------------------
(* Injection.  room: the NI and icnt_has_buffer() let one packet in.        *)

Injects(room) == room /\ (IF merging = "off" THEN buf ELSE rec) # <<>>

Inject(room) ==
  net' = IF Injects(room)
           THEN Append(net, IF merging = "off" THEN Head(buf) ELSE Head(rec))
           ELSE net

\* What injection leaves in the recursive compression buffer.
RecLeft(room) == IF merging # "off" /\ Injects(room) THEN Tail(rec) ELSE rec

-----------------------------------------------------------------------------
(* Recursive compression of the oldest mem_fetch of the compression buffer. *)

\* Replies has_comp_buffer_space() counts: the entries and what is merged into
\* them, but not what is merged into a merged reply.
Below(m) == IF m = Control THEN 0 ELSE Len(same[m]) + Len(others[m])
Held(b) == Cardinality(UNION {{i} \X (0 .. Below(b[i])) : i \in DOMAIN b})

\* get_mem_fetch_to_same_sm(): the newest that goes to m's cluster.
SameHosts(m, b) ==
  {i \in DOMAIN b : HasData(b[i]) /\ SM(b[i]) = SM(m) /\ others[b[i]] = <<>>}

\* get_mem_fetch_to_diff_sm()
DiffHosts(m, b) ==
  {i \in DOMAIN b : HasData(b[i]) /\ SM(b[i]) # SM(m) /\ same[b[i]] = <<>>}

\* push_mem_fetch(), for a mem_fetch that is not merged.
Keep(m, b) == rec' = Append(b, m) /\ UNCHANGED <<same, others>>

Newest(hosts) == CHOOSE i \in hosts : \A j \in hosts : j <= i

\* rec_comp_method_for_intra_sm(): merged unless the packet would be too large.
MergeSame(m, b) ==
  /\ SameHosts(m, b) # {}
  /\ LET host == b[Newest(SameHosts(m, b))] IN
       same' = [same EXCEPT ![host] = Append(@, m)]
  /\ rec' = b
  /\ UNCHANGED others

\* Fault: a second reply to a cluster is listed beside the first.
MergeDiffFlat(m, b) == \E i \in DiffHosts(m, b) :
  /\ rec' = b
  /\ others' = [others EXCEPT ![b[i]] = Append(@, m)]
  /\ UNCHANGED same

\* rec_comp_method_for_inter_sm(): the entry whose data is the same may be
\* any of them.  A second reply to a cluster hangs below the first.
MergeDiff(m, b) == \E i \in DiffHosts(m, b) :
  /\ rec' = b
  /\ \/ \E k \in ToSet(others[b[i]]) :
          /\ SM(k) = SM(m)
          /\ same' = [same EXCEPT ![k] = Append(@, m)]
          /\ UNCHANGED others
     \/ /\ \A k \in ToSet(others[b[i]]) : SM(k) # SM(m)
        /\ others' = [others EXCEPT ![b[i]] = Append(@, m)]
        /\ UNCHANGED same

\* run() of the recursive compressor: the four algorithms.
Merge(m, b) ==
  \/ ~HasData(m) /\ Keep(m, b)
  \/ /\ HasData(m)
     /\ \/ merging # "diff" /\ MergeSame(m, b)
        \/ merging \in {"diff", "diff same"} /\ MergeDiff(m, b)
        \/ merging = "same diff" /\ SameHosts(m, b) = {} /\ MergeDiff(m, b)
        \/ Keep(m, b)

Takes(room) == merging # "off" /\ buf # <<>> /\ Held(RecLeft(room)) < RecSize

RecCompress(room) ==
  IF Takes(room) THEN Merge(Head(buf), RecLeft(room))
                 ELSE rec' = RecLeft(room) /\ UNCHANGED <<same, others>>

\* What these stages leave in the compression buffer.
BufLeft(room) ==
  IF (IF merging = "off" THEN Injects(room) ELSE Takes(room))
    THEN Tail(buf) ELSE buf

-----------------------------------------------------------------------------
(* pass_mf_from_mem_partition_to_compressor(), for what is left in buf.     *)

Stall(b) == Len(b) >= BufferSize /\ buf' = b /\ UNCHANGED <<queue, stage>>

\* Fault: any reply may go round the pipeline.
GoRoundAny(b) ==
  /\ Len(b) < BufferSize
  /\ queue # <<>>
  /\ buf' = Append(b, Head(queue))
  /\ queue' = Tail(queue)
  /\ UNCHANGED stage

\* A reply without retrievable data goes round the pipeline, which does not
\* run in this cycle.
GoRound(b) ==
  /\ Len(b) < BufferSize
  /\ queue # <<>> /\ ~HasData(Head(queue))
  /\ buf' = Append(b, Head(queue))
  /\ queue' = Tail(queue)
  /\ UNCHANGED stage

Input == IF queue = <<>> THEN None ELSE Head(queue)

Output == IF Stages = 1 THEN Input ELSE stage[Stages - 1]

Push(b, m) == IF m = None THEN b
              ELSE b \o (IF announced THEN <<Control, m>> ELSE <<m>>)

\* Fault: a stage keeps what it has passed on.
ShiftKeep == [i \in 1 .. Stages - 1 |->
  IF i = 1 THEN (IF Input = None THEN stage[1] ELSE Input) ELSE stage[i - 1]]

Shift == [i \in 1 .. Stages - 1 |-> IF i = 1 THEN Input ELSE stage[i - 1]]

\* Fault: the pipeline runs only when a reply enters it.
RunPipelineOnInput(b) ==
  /\ Len(b) < BufferSize
  /\ queue # <<>> => HasData(Head(queue))
  /\ buf' = (IF queue = <<>> THEN b ELSE Push(b, Output))
  /\ stage' = (IF queue = <<>> THEN stage ELSE Shift)
  /\ queue' = (IF queue = <<>> THEN queue ELSE Tail(queue))

RunPipeline(b) ==
  /\ Len(b) < BufferSize
  /\ queue # <<>> => HasData(Head(queue))
  /\ buf' = Push(b, Output)
  /\ stage' = Shift
  /\ queue' = (IF queue = <<>> THEN queue ELSE Tail(queue))

Compress(b) == Stall(b) \/ GoRound(b) \/ RunPipeline(b)

-----------------------------------------------------------------------------
IcntCycle(room) ==
  /\ Inject(room)
  /\ RecCompress(room)
  /\ Compress(BufLeft(room))
  /\ UNCHANGED <<config, arrived>>

Next == Arrive \/ \E room \in BOOLEAN : IcntCycle(room)

Spec == Init /\ [][Next]_vars

\* The interconnect clock ticks and finds room again and again.  Such a cycle
\* is enabled as long as a reply waits, so weak fairness says no less than
\* strong fairness.
FairSpec == Spec /\ WF_vars(IcntCycle(TRUE))

-----------------------------------------------------------------------------
\* The places of a reply: entries of queues, registers, and lists of replies
\* merged into another.
Places(r) ==
  LET in(q) == {i \in DOMAIN q : q[i] = r}
      below(f) == UNION {{h} \X in(f[h]) : h \in Reply}
  IN ({"queue"} \X in(queue)) \cup ({"stage"} \X in(stage))
     \cup ({"buf"} \X in(buf)) \cup ({"rec"} \X in(rec)) \cup ({"net"} \X in(net))
     \cup ({"same"} \X below(same)) \cup ({"others"} \X below(others))

\* The heads of packets.
Heads == (ToSet(rec) \cup ToSet(net)) \ {Control}

\* The values the queues, registers and lists of the reply path hold.
TypeOK ==
  /\ announced \in BOOLEAN /\ merging \in Mergings
  /\ arrived \in Seq([sm : SMs, data : BOOLEAN]) /\ Len(arrived) <= MaxReplies
  /\ queue \in Seq(Reply)
  /\ stage \in [1 .. Stages - 1 -> Reply \cup {None}]
  /\ buf \in Seq(Reply \cup {Control})
  /\ rec \in Seq(Reply \cup {Control})
  /\ same \in [Reply -> Seq(Reply)]
  /\ others \in [Reply -> Seq(Reply)]
  /\ net \in Seq(Reply \cup {Control})

\* The buffers keep their sizes; has_comp_buffer_space() is asked for one
\* entry, and the FPH arm pushes two.
BuffersBounded ==
  /\ TypeOK
  /\ Len(buf) <= BufferSize + (IF announced THEN 1 ELSE 0)
  /\ Held(rec) <= RecSize

\* From the queue to the packets of the interconnect every reply that
\* arrived is at exactly one place, merged or not: none is lost in the
\* pipeline or between two buffers, which keep their sizes, none is sent
\* twice, and what is merged into a reply is in a packet together with it.
OncePerReply ==
  /\ BuffersBounded
  /\ \A r \in Reply :
       Cardinality(Places(r)) = IF r \in DOMAIN arrived THEN 1 ELSE 0
  /\ \A h \in Reply :
       /\ others[h] # <<>> => h \in Heads
       /\ same[h] # <<>> => h \in Heads \/ \E g \in Heads : h \in ToSet(others[g])

\* merge_mf() builds packets the receivers can take apart: replies of one
\* cluster hang below each other, the heads of a multicast packet go to
\* different clusters, and no reply that hosts its own cluster's replies is
\* the head of a multicast packet.
PacketsSeparable == \A h \in DOMAIN arrived :
  /\ \A r \in ToSet(same[h]) : SM(r) = SM(h) /\ same[r] = <<>> /\ others[r] = <<>>
  /\ IsInjective([i \in 0 .. Len(others[h]) |->
                    IF i = 0 THEN SM(h) ELSE SM(others[h][i])])
  /\ \A r \in ToSet(others[h]) : others[r] = <<>>
  /\ others[h] # <<>> => same[h] = <<>>

\* The replies of a packet for one cluster, head first.
Group(m) == IF m = Control THEN <<>> ELSE <<m>> \o same[m]

\* Compressible replies to one cluster reach the interconnect in the order
\* in which they left the L2 cache, unless multicast packets overtake them;
\* the FPH control message leaves right before the reply it announces.
ReadsInOrder ==
  LET announces(k) == k \in DOMAIN net /\ net[k] = Control
      behind(i, a, j, b) == i < j \/ (i = j /\ a < b)
  IN /\ merging \in {"off", "same"} => \A i, j \in DOMAIN net :
            \A a \in DOMAIN Group(net[i]), b \in DOMAIN Group(net[j]) :
              LET r == Group(net[i])[a]
                  s == Group(net[j])[b]
              IN behind(i, a, j, b) /\ HasData(r) /\ HasData(s) /\ SM(r) = SM(s)
                   => r < s
     /\ merging = "off" => \A i \in DOMAIN net :
            /\ net[i] # Control =>
                   (announced /\ HasData(net[i]) <=> announces(i - 1))
            /\ net[i] = Control => ~announces(i - 1)

\* Every reply a packet carries.
Carried(h) ==
  {h} \cup ToSet(same[h]) \cup UNION {{r} \cup ToSet(same[r]) : r \in ToSet(others[h])}

\* Every reply that arrives is injected into the interconnect.
AllInjected ==
  []<>(DOMAIN arrived \subseteq UNION {Carried(h) : h \in ToSet(net) \ {Control}})
=============================================================================
