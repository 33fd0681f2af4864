-------------------------- MODULE ReplyDecompressor --------------------------
(***************************************************************************)
(* Replies entering one cluster: popped from the interconnect, through the *)
(* decompression unit (a pipeline that unpacks merged replies by feeding   *)
(* the rest of a packet back to its input) and the decompression buffer,   *)
(* or past both of them while the L1 cache keeps data compressed, into the *)
(* response FIFO and the cores.  Translated from                           *)
(* simt_core_cluster::icnt_cycle() and hpcl_decomp_{lwm,dsc}_pl::run().    *)
(***************************************************************************)
EXTENDS Integers, SequencesExt, FiniteSets

CONSTANTS
  Replies,     \* the replies (mem_fetch objects) of a behaviour
  None,        \* no mem_fetch
  Depths,      \* configurations of the depth of the decompression unit
  MergedDepths, \* depths in a configuration that merges replies into packets
  EjectSize,   \* n_simt_ejection_buffer_size
  BufferSize,  \* hpcl_comp_buffer_size, also of the decompression buffer
  MaxPacket,   \* replies the memory side merges into one packet, at most
  Guarded,     \* the arm honours is_mf_pushed; the DSC arm does not
  Modes        \* configurations of the path replies take, see mode

ASSUME DecompressorAssumption ==
  /\ None \notin Replies
  /\ Depths \subseteq Nat \ {0} /\ MergedDepths \subseteq Depths
  /\ EjectSize \in Nat \ {0}
  /\ BufferSize \in Nat \ {0}
  /\ MaxPacket \in 1 .. 3
  /\ Guarded \in BOOLEAN
  /\ Modes \subseteq {"bypass", "decompress", "adaptive"}

VARIABLES
  stages,   \* m_pipeline_no, the depth of the decompression unit
  mode,     \* always past the unit, always through it, or as the predictor says
  net,      \* packets that perf_icnt_pop() can return, by their head reply
  merged,   \* m_merged_mfs_to_same_SM of every reply
  input,    \* m_input_data
  stage,    \* outputs of the pipeline stages after the first
  cnt,      \* m_current_data_cnt
  buf,      \* g_hpcl_decomp_buffer
  fifo,     \* m_response_fifo
  cacheOn,  \* get_cache_comp_status() = CACHE_COMP_ON
  sent,     \* history: replies in the order their packets arrived
  taken     \* history: replies the cores accepted, in order

config == <<stages, mode>>
vars ==
  <<config, net, merged, input, stage, cnt, buf, fifo, cacheOn, sent, taken>>

\* The options are read once, before the first cycle.
Init ==
  /\ stages \in Depths
  /\ mode \in Modes
  /\ net = <<>>
  /\ merged = [r \in Replies |-> <<>>]
  /\ input = None
  /\ stage = [i \in 1 .. stages - 1 |-> None]
  /\ cnt = 0
  /\ buf = <<>>
  /\ fifo = <<>>
  /\ cacheOn = FALSE
  /\ sent = <<>>
  /\ taken = <<>>

-----------------------------------------------------------------------------
\* A packet reaches the cluster: a reply and those merged into it.
Packets ==
  {p \in UNION {[1 .. n -> Replies \ ToSet(sent)] :
                n \in 1 .. IF stages \in MergedDepths THEN MaxPacket ELSE 1} :
     \A i, j \in DOMAIN p : p[i] = p[j] => i = j}

Arrive == \E p \in Packets :
  /\ net' = Append(net, p[1])
  /\ merged' = [merged EXCEPT ![p[1]] = Tail(p)]
  /\ sent' = sent \o p
  /\ UNCHANGED <<config, input, stage, cnt, buf, fifo, cacheOn, taken>>

\* The predictor changes its mind, at a sample or at a kernel's first block.
SwitchCache ==
  /\ mode = "adaptive"
  /\ cacheOn' = ~cacheOn
  /\ UNCHANGED <<config, net, merged, input, stage, cnt, buf, fifo, sent,
                 taken>>

-----------------------------------------------------------------------------
(* icnt_cycle().  A core accepts the front reply when its buffer has room. *)

AfterAccept(room) == IF room /\ fifo # <<>> THEN Tail(fifo) ELSE fifo

Accept(room) ==
  taken' = IF room /\ fifo # <<>> THEN Append(taken, Head(fifo)) ELSE taken

CacheMode == mode = "adaptive" /\ cacheOn

\* Compressed data may pass only once the unit and the buffer are flushed.
Bypass == mode = "bypass" \/ (CacheMode /\ cnt <= 0 /\ buf = <<>>)

\* Replies go to the FIFO as they are, those of a packet all at once.
BypassCycle(room) ==
  /\ Bypass
  /\ Accept(room)
  /\ IF Len(AfterAccept(room)) < EjectSize /\ net # <<>>
       THEN /\ fifo' = AfterAccept(room) \o <<Head(net)>> \o merged[Head(net)]
            /\ net' = Tail(net)
       ELSE fifo' = AfterAccept(room) /\ UNCHANGED net
  /\ UNCHANGED <<config, merged, input, stage, cnt, buf, cacheOn, sent>>

\* Phase 2: one decompressed reply moves on, if the FIFO has room for it.
Drains(room) == buf # <<>> /\ Len(AfterAccept(room)) < EjectSize

AfterDrain(room) == IF Drains(room) THEN Tail(buf) ELSE buf

Phase2(room) ==
  fifo' = IF Drains(room) THEN Append(AfterAccept(room), Head(buf))
                          ELSE AfterAccept(room)

\* run(): the last stage's reply, the rest of the packet the first stage
\* opens, and the stages moved on by one.
Output == IF stages = 1 THEN input ELSE stage[stages - 1]

Rest == IF input = None \/ merged[input] = <<>> THEN None
                                                ELSE Head(merged[input])

\* Fault: the rest of the packet is not handed on.
UnpackHeadOnly ==
  merged' = IF Rest = None THEN merged ELSE [merged EXCEPT ![input] = Tail(@)]

Unpack ==
  merged' = IF Rest = None THEN merged
            ELSE [merged EXCEPT ![input] = Tail(@),
                                ![Rest] = Tail(merged[input])]

\* Fault: replies stay in the first stage.
MoveStagesHold == stage' = [stage EXCEPT ![1] = input]

MoveStages ==
  stage' = [i \in 1 .. stages - 1 |-> IF i = 1 THEN input ELSE stage[i - 1]]

\* The rest is fed back only in a cycle in which a reply comes out.
FedBack == IF Output # None THEN Rest ELSE None

Pops == /\ ~CacheMode
        /\ Guarded => FedBack = None
        /\ net # <<>>

One(condition) == IF condition THEN 1 ELSE 0

\* Fault: set_input_data() forgets to count.
FeedUncounted ==
  /\ input' = IF Pops THEN Head(net) ELSE FedBack
  /\ net' = IF Pops THEN Tail(net) ELSE net
  /\ cnt' = cnt - One(Output # None) + One(Pops)

\* set_input_data(), with the rest and then with a new packet.
Feed ==
  /\ input' = IF Pops THEN Head(net) ELSE FedBack
  /\ net' = IF Pops THEN Tail(net) ELSE net
  /\ cnt' = cnt - One(Output # None) + One(FedBack # None) + One(Pops)

\* Phase 1, when the decompression buffer has room.
Phase1(room) ==
  /\ Len(AfterDrain(room)) < BufferSize
  /\ buf' = IF Output # None THEN Append(AfterDrain(room), Output)
                             ELSE AfterDrain(room)
  /\ Unpack
  /\ MoveStages
  /\ Feed

DecompressCycle(room) ==
  /\ ~Bypass
  /\ Accept(room)
  /\ Phase2(room)
  /\ \/ Phase1(room)
     \/ /\ Len(AfterDrain(room)) >= BufferSize
        /\ buf' = AfterDrain(room)
        /\ UNCHANGED <<net, merged, input, stage, cnt>>
  /\ UNCHANGED <<config, cacheOn, sent>>

IcntCycle(room) == BypassCycle(room) \/ DecompressCycle(room)

Next == Arrive \/ SwitchCache \/ \E room \in BOOLEAN : IcntCycle(room)

Spec == Init /\ [][Next]_vars

\* The core clock ticks, and the core with the front reply has room for it,
\* again and again.  Such a cycle is enabled as long as a reply waits, so weak
\* fairness says no less than strong fairness.
FairSpec == Spec /\ WF_vars(IcntCycle(TRUE))

-----------------------------------------------------------------------------
\* What a register holds, alone and with the replies still merged into it.
Lone(r) == IF r = None THEN <<>> ELSE <<r>>

Packet(r) == IF r = None THEN <<>> ELSE <<r>> \o merged[r]

\* Replies in the unit and in the network, in the order in which they leave.
InStages == FlattenSeq([i \in 1 .. stages - 1 |-> Lone(stage[stages - i])])

InUnit == InStages \o Packet(input)

InNet == FlattenSeq([i \in 1 .. Len(net) |-> Packet(net[i])])

Owed == fifo \o buf \o InUnit \o InNet

\* The values the queues and registers of a cluster's reply path hold.
TypeOK ==
  /\ stages \in Depths /\ mode \in Modes
  /\ net \in Seq(Replies)
  /\ merged \in [Replies -> Seq(Replies)]
  /\ input \in Replies \cup {None}
  /\ stage \in [1 .. stages - 1 -> Replies \cup {None}]
  /\ cnt \in Int
  /\ buf \in Seq(Replies)
  /\ fifo \in Seq(Replies)
  /\ cacheOn \in BOOLEAN
  /\ sent \in Seq(Replies)
  /\ taken \in Seq(Replies)

\* icnt_cycle() asserts pending_data_in_decomp >= 0 and flushes "if there is
\* a pending data in the decompression unit": the counter it asks is the
\* number of replies in the unit.
CountsPending ==
  cnt = Cardinality({i \in DOMAIN stage : stage[i] # None}) + One(input # None)

\* The decompression buffer keeps its size, and so does the response FIFO
\* but for the last packet that bypassed the unit.
BuffersBounded ==
  /\ TypeOK
  /\ Len(buf) <= BufferSize
  /\ Len(fifo) <= EjectSize + MaxPacket - 1
  /\ mode = "decompress" => Len(fifo) <= EjectSize

\* Every reply that arrives is accepted by a core.
AllDelivered ==
  []<>(ToSet(sent) \subseteq ToSet(taken))

\* icnt_cycle() implements an order-preserving channel to the cores.
Channel == INSTANCE ReplyChannel WITH owed <- Owed
ChannelSpec == Channel!Spec
=============================================================================
