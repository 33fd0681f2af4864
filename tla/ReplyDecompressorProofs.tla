----------------------- MODULE ReplyDecompressorProofs -----------------------
(***************************************************************************)
(* Proofs about ReplyDecompressor, for any set of replies, pipeline depth, *)
(* buffer size and mode: the buffers keep their sizes, and, in the arm     *)
(* that honours is_mf_pushed, m_current_data_cnt is the number of replies  *)
(* in the unit and the reply path implements ReplyChannel.                 *)
(***************************************************************************)
EXTENDS ReplyDecompressor, SequenceTheorems, FiniteSetTheorems,
        WellFoundedInduction, TLAPS

\* A packet carries at most MaxPacket replies.
PacketsBounded == \A r \in Replies : Len(merged[r]) <= MaxPacket - 1

SizeInv == BuffersBounded /\ PacketsBounded

Occupied(s) == {i \in DOMAIN s : s[i] # None}

-----------------------------------------------------------------------------
LEMMA TailType ==
  ASSUME NEW S, NEW s \in Seq(S), s # <<>>
  PROVE  Tail(s) \in Seq(S) /\ Head(s) \in S /\ Len(Tail(s)) = Len(s) - 1
BY HeadTailProperties

LEMMA OneType == \A b \in BOOLEAN : One(b) \in {0, 1}
BY DEF One

LEMMA SizesType == /\ EjectSize \in Nat \ {0} /\ BufferSize \in Nat \ {0}
                   /\ MaxPacket \in 1 .. 3 /\ None \notin Replies
                   /\ \A d \in Depths : d \in Nat \ {0}
BY DecompressorAssumption

LEMMA InitSize == Init => SizeInv
<1> SUFFICES ASSUME Init PROVE SizeInv
  OBVIOUS
<1>1. stages \in Nat \ {0}
  BY SizesType DEF Init
<1>2. TypeOK
  <2>1. /\ stages \in Depths /\ mode \in Modes /\ cnt \in Int
        /\ input \in Replies \cup {None}
    <3>1. input = None /\ cnt = 0
      BY DEF Init
    <3> QED BY <3>1 DEF Init
  <2>2. cacheOn \in BOOLEAN
    BY Zenon DEF Init
  <2>3. <<>> \in Seq(Replies)
    OBVIOUS
  <2>4. net \in Seq(Replies) /\ buf \in Seq(Replies) /\ fifo \in Seq(Replies)
        /\ sent \in Seq(Replies) /\ taken \in Seq(Replies)
    BY <2>3, Zenon DEF Init
  <2>5. merged \in [Replies -> Seq(Replies)]
    BY <2>3 DEF Init
  <2>6. stage \in [1 .. stages - 1 -> Replies \cup {None}]
    BY DEF Init
  <2> QED BY <2>1, <2>4, <2>5, <2>6, <2>2 DEF TypeOK
<1>3. Len(buf) = 0 /\ Len(fifo) = 0 /\ \A r \in Replies : Len(merged[r]) = 0
  BY DEF Init
<1> QED BY <1>2, <1>3, SizesType DEF SizeInv, BuffersBounded, PacketsBounded

\* A packet adds its replies to the history and, below its head, to merged.
LEMMA ArriveSize == SizeInv /\ Arrive => SizeInv'
<1> SUFFICES ASSUME SizeInv, Arrive PROVE SizeInv'
  OBVIOUS
<1>1. TypeOK
  BY DEF SizeInv, BuffersBounded
<1>2. PICK p \in Packets :
        /\ net' = Append(net, p[1])
        /\ merged' = [merged EXCEPT ![p[1]] = Tail(p)]
        /\ sent' = sent \o p
        /\ UNCHANGED <<config, input, stage, cnt, buf, fifo, cacheOn, taken>>
  BY DEF Arrive
<1>3. PICK n \in 1 .. MaxPacket : p \in [1 .. n -> Replies]
  BY <1>2, SizesType DEF Packets
<1>4. p \in Seq(Replies) /\ Len(p) = n /\ p # <<>> /\ p[1] \in Replies
  BY <1>3, SizesType
<1>5. Tail(p) \in Seq(Replies) /\ Len(Tail(p)) <= MaxPacket - 1
  BY <1>3, <1>4, TailType, SizesType
<1>6. /\ net' \in Seq(Replies)
      /\ sent' \in Seq(Replies)
      /\ merged' \in [Replies -> Seq(Replies)]
  <2>1. net' \in Seq(Replies)
    BY <1>1, <1>2, <1>4, AppendProperties DEF TypeOK
  <2>2. sent' \in Seq(Replies)
    BY <1>1, <1>2, <1>4, ConcatProperties DEF TypeOK
  <2>3. merged' \in [Replies -> Seq(Replies)]
    BY <1>1, <1>2, <1>4, <1>5 DEF TypeOK
  <2> QED BY <2>1, <2>2, <2>3
<1>7. TypeOK'
  BY <1>1, <1>2, <1>6 DEF TypeOK, config
<1>8. PacketsBounded'
  BY <1>1, <1>2, <1>4, <1>5 DEF SizeInv, PacketsBounded, TypeOK
<1> QED BY <1>2, <1>7, <1>8 DEF SizeInv, BuffersBounded, config

LEMMA SwitchSize == SizeInv /\ SwitchCache => SizeInv'
BY DEF SizeInv, BuffersBounded, PacketsBounded, TypeOK, SwitchCache, config

\* What a core accepts leaves room, and takes only from the FIFO.
LEMMA AcceptType ==
  ASSUME TypeOK, NEW room \in BOOLEAN
  PROVE  /\ AfterAccept(room) \in Seq(Replies)
         /\ Len(AfterAccept(room)) <= Len(fifo)
         /\ Accept(room) => taken' \in Seq(Replies)
<1>1. fifo \in Seq(Replies) /\ taken \in Seq(Replies)
  BY DEF TypeOK
<1>2. CASE room /\ fifo # <<>>
  <2>1. Tail(fifo) \in Seq(Replies) /\ Head(fifo) \in Replies
        /\ Len(Tail(fifo)) = Len(fifo) - 1 /\ Len(fifo) \in Nat
    BY <1>1, <1>2, TailType
  <2>2. Append(taken, Head(fifo)) \in Seq(Replies)
    BY <1>1, <2>1, AppendProperties
  <2> QED BY <1>2, <2>1, <2>2 DEF AfterAccept, Accept
<1>3. CASE ~(room /\ fifo # <<>>)
  <2>1. AfterAccept(room) = fifo /\ (Accept(room) => taken' = taken)
    BY <1>3 DEF AfterAccept, Accept
  <2> QED BY <1>1, <2>1
<1> QED BY <1>2, <1>3

\* A packet that bypasses the unit enters the FIFO as a whole.
LEMMA BypassSize ==
  \A room \in BOOLEAN : SizeInv /\ BypassCycle(room) => SizeInv'
<1> SUFFICES ASSUME NEW room \in BOOLEAN, SizeInv, BypassCycle(room)
             PROVE  SizeInv'
  OBVIOUS
<1>1. TypeOK /\ PacketsBounded
  BY DEF SizeInv, BuffersBounded
<1>2. PICK f : f = AfterAccept(room)
  OBVIOUS
<1>3. f \in Seq(Replies) /\ Len(f) <= Len(fifo) /\ taken' \in Seq(Replies)
  BY <1>1, <1>2, AcceptType DEF BypassCycle
<1>4. mode # "decompress"
  BY DEF BypassCycle, Bypass, CacheMode
<1>5. UNCHANGED <<config, merged, input, stage, cnt, buf, cacheOn, sent>>
  BY DEF BypassCycle
<1>6. /\ net' \in Seq(Replies) /\ fifo' \in Seq(Replies)
      /\ Len(fifo') <= EjectSize + MaxPacket - 1
  <2>1. CASE Len(f) < EjectSize /\ net # <<>>
    <3>1. /\ fifo' = f \o <<Head(net)>> \o merged[Head(net)]
          /\ net' = Tail(net)
      BY <1>2, <2>1 DEF BypassCycle
    <3>2. Head(net) \in Replies /\ Tail(net) \in Seq(Replies)
      BY <1>1, <2>1, TailType DEF TypeOK
    <3>3. PICK m : m = merged[Head(net)]
      OBVIOUS
    <3>4. m \in Seq(Replies) /\ Len(m) <= MaxPacket - 1
      BY <1>1, <3>2, <3>3 DEF TypeOK, PacketsBounded
    <3>5. /\ f \o <<Head(net)>> \in Seq(Replies)
          /\ Len(f \o <<Head(net)>>) = Len(f) + 1
      BY <1>3, <3>2, ConcatProperties
    <3>6. /\ fifo' \in Seq(Replies)
          /\ Len(fifo') = Len(f) + 1 + Len(m)
      BY <3>1, <3>3, <3>4, <3>5, ConcatProperties
    <3>7. Len(f) \in Nat /\ Len(m) \in Nat
      BY <1>3, <3>4
    <3>8. Len(f) + 1 + Len(m) <= EjectSize + MaxPacket - 1
      BY <2>1, <3>4, <3>7, SizesType
    <3> QED BY <3>1, <3>2, <3>6, <3>8
  <2>2. CASE ~(Len(f) < EjectSize /\ net # <<>>)
    <3>1. fifo' = f /\ net' = net
      BY <1>2, <2>2 DEF BypassCycle
    <3>2. Len(fifo) <= EjectSize + MaxPacket - 1 /\ Len(fifo) \in Nat
          /\ Len(f) \in Nat /\ net \in Seq(Replies)
      BY <1>1, <1>3 DEF SizeInv, BuffersBounded, TypeOK
    <3>3. Len(f) <= EjectSize + MaxPacket - 1
      BY <1>3, <3>2, SizesType
    <3> QED BY <1>3, <3>1, <3>2, <3>3
  <2> QED BY <2>1, <2>2
<1>7. TypeOK'
  BY <1>1, <1>3, <1>5, <1>6 DEF TypeOK, config
<1>8. PacketsBounded'
  BY <1>1, <1>5 DEF PacketsBounded
<1> QED BY <1>4, <1>5, <1>6, <1>7, <1>8 DEF SizeInv, BuffersBounded, config

-----------------------------------------------------------------------------
(* A cycle through the unit. *)

\* What the pipeline hands on is a reply or nothing.
LEMMA UnitType ==
  ASSUME TypeOK
  PROVE  /\ Output \in Replies \cup {None}
         /\ Rest \in Replies \cup {None}
         /\ FedBack \in Replies \cup {None}
         /\ Rest # None => /\ input \in Replies
                           /\ merged[input] \in Seq(Replies)
                           /\ merged[input] # <<>>
                           /\ Rest = Head(merged[input])
<1>1. stages \in Nat \ {0}
  BY SizesType DEF TypeOK
<1>2. Output \in Replies \cup {None}
  <2>1. CASE stages = 1
    BY <2>1 DEF Output, TypeOK
  <2>2. CASE stages # 1
    <3>1. stages - 1 \in 1 .. stages - 1
      BY <1>1, <2>2
    <3>2. stage \in [1 .. stages - 1 -> Replies \cup {None}]
      BY DEF TypeOK
    <3> QED BY <2>2, <3>1, <3>2 DEF Output
  <2> QED BY <2>1, <2>2
<1>3. CASE input = None \/ merged[input] = <<>>
  BY <1>2, <1>3 DEF Rest, FedBack
<1>4. CASE ~(input = None \/ merged[input] = <<>>)
  <2>1. input \in Replies /\ merged[input] \in Seq(Replies)
    BY <1>4 DEF TypeOK
  <2>2. Head(merged[input]) \in Replies
    BY <1>4, <2>1, TailType
  <2> QED BY <1>2, <1>4, <2>1, <2>2 DEF Rest, FedBack
<1> QED BY <1>3, <1>4

\* Opening a packet hands on the replies it still holds.
LEMMA UnpackType ==
  ASSUME TypeOK, PacketsBounded, Unpack
  PROVE  merged' \in [Replies -> Seq(Replies)] /\ PacketsBounded'
<1>1. merged \in [Replies -> Seq(Replies)]
  BY DEF TypeOK
<1>2. CASE Rest = None
  BY <1>1, <1>2 DEF Unpack, PacketsBounded
<1>3. CASE Rest # None
  <2>1. PICK m : m = merged[input]
    OBVIOUS
  <2>2. input \in Replies /\ Rest \in Replies /\ m \in Seq(Replies) /\ m # <<>>
    BY <1>3, <2>1, UnitType
  <2>3. /\ Tail(m) \in Seq(Replies)
        /\ Len(Tail(m)) = Len(m) - 1
        /\ Len(m) \in Nat /\ Len(m) <= MaxPacket - 1
    BY <2>1, <2>2, TailType DEF PacketsBounded
  <2>4. Len(Tail(m)) <= MaxPacket - 1
    BY <2>3, SizesType
  <2>5. PICK t : t = Tail(m)
    OBVIOUS
  <2>6. merged' = [merged EXCEPT ![input] = t, ![Rest] = t]
    BY <1>3, <2>1, <2>5 DEF Unpack
  <2>7. merged' \in [Replies -> Seq(Replies)]
    BY <1>1, <2>2, <2>3, <2>5, <2>6
  <2>8. \A r \in Replies : merged'[r] = t \/ merged'[r] = merged[r]
    BY <1>1, <2>2, <2>6
  <2>9. PacketsBounded'
    BY <2>4, <2>5, <2>8 DEF PacketsBounded
  <2> QED BY <2>7, <2>9
<1> QED BY <1>2, <1>3

\* The FIFO takes a reply from the buffer only when it has room for it.
LEMMA DrainType ==
  ASSUME SizeInv, NEW room \in BOOLEAN, Phase2(room)
  PROVE  /\ AfterDrain(room) \in Seq(Replies)
         /\ Len(AfterDrain(room)) <= BufferSize
         /\ fifo' \in Seq(Replies)
         /\ Len(fifo') <= EjectSize + MaxPacket - 1
         /\ mode = "decompress" => Len(fifo') <= EjectSize
<1>1. PICK f : f = AfterAccept(room)
  OBVIOUS
<1>2. TypeOK
  BY DEF SizeInv, BuffersBounded
<1>3. f \in Seq(Replies) /\ Len(f) <= Len(fifo) /\ Len(f) \in Nat
  <2>1. f \in Seq(Replies) /\ Len(f) <= Len(fifo)
    BY <1>1, <1>2, AcceptType
  <2> QED BY <2>1
<1>4. buf \in Seq(Replies) /\ Len(buf) \in Nat /\ Len(fifo) \in Nat
  BY <1>2 DEF TypeOK
<1>5. /\ Len(buf) <= BufferSize
      /\ Len(fifo) <= EjectSize + MaxPacket - 1
      /\ mode = "decompress" => Len(fifo) <= EjectSize
  BY DEF SizeInv, BuffersBounded
<1>6. CASE Drains(room)
  <2>1. buf # <<>> /\ Len(f) < EjectSize
    BY <1>1, <1>6 DEF Drains
  <2>2. /\ Tail(buf) \in Seq(Replies) /\ Head(buf) \in Replies
        /\ Len(Tail(buf)) = Len(buf) - 1
    BY <1>4, <2>1, TailType
  <2>3. AfterDrain(room) = Tail(buf) /\ fifo' = Append(f, Head(buf))
    BY <1>1, <1>6 DEF AfterDrain, Phase2
  <2>4. fifo' \in Seq(Replies) /\ Len(fifo') = Len(f) + 1
    BY <1>3, <2>2, <2>3, AppendProperties
  <2>5. Len(f) + 1 <= EjectSize /\ Len(f) + 1 <= EjectSize + MaxPacket - 1
        /\ Len(buf) - 1 <= BufferSize
    BY <1>3, <1>4, <1>5, <2>1, SizesType
  <2> QED BY <2>2, <2>3, <2>4, <2>5
<1>7. CASE ~Drains(room)
  <2>1. AfterDrain(room) = buf /\ fifo' = f
    BY <1>1, <1>7 DEF AfterDrain, Phase2
  <2>2. /\ Len(f) <= EjectSize + MaxPacket - 1
        /\ mode = "decompress" => Len(f) <= EjectSize
    BY <1>3, <1>4, <1>5, SizesType
  <2> QED BY <1>3, <1>4, <1>5, <2>1, <2>2
<1> QED BY <1>6, <1>7

\* The unit runs only when its buffer has room.
LEMMA DecompressSize ==
  \A room \in BOOLEAN : SizeInv /\ DecompressCycle(room) => SizeInv'
<1> SUFFICES ASSUME NEW room \in BOOLEAN, SizeInv, DecompressCycle(room)
             PROVE  SizeInv'
  OBVIOUS
<1>1. TypeOK /\ PacketsBounded
  BY DEF SizeInv, BuffersBounded
<1>2. PICK b : b = AfterDrain(room)
  OBVIOUS
<1>3. Phase2(room) /\ Accept(room) /\ UNCHANGED <<config, cacheOn, sent>>
  BY DEF DecompressCycle
<1>4. /\ b \in Seq(Replies) /\ Len(b) <= BufferSize
      /\ fifo' \in Seq(Replies)
      /\ Len(fifo') <= EjectSize + MaxPacket - 1
      /\ mode = "decompress" => Len(fifo') <= EjectSize
  BY <1>2, <1>3, DrainType
<1>5. taken' \in Seq(Replies)
  BY <1>1, <1>3, AcceptType
<1>6. /\ net' \in Seq(Replies) /\ input' \in Replies \cup {None}
      /\ merged' \in [Replies -> Seq(Replies)] /\ PacketsBounded'
      /\ stage' \in [1 .. stages - 1 -> Replies \cup {None}]
      /\ cnt' \in Int
      /\ buf' \in Seq(Replies) /\ Len(buf') <= BufferSize
  <2>1. CASE Phase1(room)
    <3>1. Len(b) < BufferSize /\ Unpack /\ MoveStages /\ Feed
      BY <1>2, <2>1 DEF Phase1
    <3>2. merged' \in [Replies -> Seq(Replies)] /\ PacketsBounded'
      BY <1>1, <3>1, UnpackType
    <3>3. Output \in Replies \cup {None} /\ FedBack \in Replies \cup {None}
      BY <1>1, UnitType
    <3>4. stage' \in [1 .. stages - 1 -> Replies \cup {None}]
      <4>1. stages \in Nat \ {0}
        BY <1>1, SizesType DEF TypeOK
      <4>2. /\ stage \in [1 .. stages - 1 -> Replies \cup {None}]
            /\ input \in Replies \cup {None}
        BY <1>1 DEF TypeOK
      <4> QED BY <3>1, <4>1, <4>2 DEF MoveStages
    <3>5. net' \in Seq(Replies) /\ input' \in Replies \cup {None}
      <4>1. net \in Seq(Replies)
        BY <1>1 DEF TypeOK
      <4>2. CASE Pops
        <5>1. net # <<>>
          BY <4>2 DEF Pops
        <5>2. net' = Tail(net) /\ input' = Head(net)
          BY <3>1, <4>2 DEF Feed
        <5> QED BY <4>1, <5>1, <5>2, TailType
      <4>3. CASE ~Pops
        BY <3>1, <3>3, <4>1, <4>3 DEF Feed
      <4> QED BY <4>2, <4>3
    <3>6. cnt' \in Int
      <4>1. /\ One(Output # None) \in Int /\ One(FedBack # None) \in Int
            /\ One(Pops) \in Int
        BY DEF One
      <4>2. cnt' = cnt - One(Output # None) + One(FedBack # None) + One(Pops)
            /\ cnt \in Int
        BY <1>1, <3>1 DEF Feed, TypeOK
      <4> QED BY <4>1, <4>2
    <3>7. buf' \in Seq(Replies) /\ Len(buf') <= BufferSize
      <4>1. CASE Output # None
        <5>1. buf' = Append(b, Output) /\ Output \in Replies
          BY <1>2, <2>1, <3>3, <4>1 DEF Phase1
        <5>2. buf' \in Seq(Replies) /\ Len(buf') = Len(b) + 1 /\ Len(b) \in Nat
          BY <1>4, <5>1, AppendProperties
        <5> QED BY <3>1, <5>2, SizesType
      <4>2. CASE Output = None
        BY <1>2, <1>4, <2>1, <4>2 DEF Phase1
      <4> QED BY <4>1, <4>2
    <3> QED BY <3>2, <3>4, <3>5, <3>6, <3>7
  <2>2. CASE /\ buf' = AfterDrain(room)
             /\ UNCHANGED <<net, merged, input, stage, cnt>>
    BY <1>1, <1>2, <1>4, <2>2 DEF TypeOK, PacketsBounded
  <2> QED BY <2>1, <2>2 DEF DecompressCycle
<1>7. TypeOK'
  BY <1>1, <1>3, <1>4, <1>5, <1>6 DEF TypeOK, config
<1> QED BY <1>3, <1>4, <1>6, <1>7 DEF SizeInv, BuffersBounded, config

LEMMA SizeStep == SizeInv /\ [Next]_vars => SizeInv'
<1> SUFFICES ASSUME SizeInv, [Next]_vars PROVE SizeInv'
  OBVIOUS
<1>1. CASE Arrive
  BY <1>1, ArriveSize
<1>2. CASE SwitchCache
  BY <1>2, SwitchSize
<1>3. CASE \E room \in BOOLEAN : BypassCycle(room)
  BY <1>3, BypassSize
<1>4. CASE \E room \in BOOLEAN : DecompressCycle(room)
  BY <1>4, DecompressSize
<1>5. CASE UNCHANGED vars
  BY <1>5 DEF SizeInv, BuffersBounded, PacketsBounded, TypeOK, vars, config
<1> QED BY <1>1, <1>2, <1>3, <1>4, <1>5 DEF Next, IcntCycle

\* The decompression buffer never outgrows its size, nor the response FIFO
\* its own, but for the last packet that went past the unit: icnt_cycle()
\* looks at the room in both before it moves a reply.
THEOREM Bounded == Spec => []BuffersBounded
<1>1. Init => SizeInv
  BY InitSize
<1>2. SizeInv /\ [Next]_vars => SizeInv'
  BY SizeStep
<1>3. SizeInv => BuffersBounded
  BY DEF SizeInv
<1> QED BY <1>1, <1>2, <1>3, PTL DEF Spec

-----------------------------------------------------------------------------
(* Counting the replies in the unit. *)

LEMMA OccupiedFinite ==
  ASSUME NEW n \in Nat, NEW s, DOMAIN s = 1 .. n
  PROVE  IsFiniteSet(Occupied(s)) /\ Cardinality(Occupied(s)) \in Nat
<1>1. IsFiniteSet(1 .. n)
  BY FS_Interval
<1>2. Occupied(s) \in SUBSET (1 .. n)
  BY DEF Occupied
<1> QED BY <1>1, <1>2, FS_Subset, FS_CardinalityType

\* Moving the stages on by one takes the last reply out and x in.
\* A register counts one when it holds a reply.
Held(x) == One(x # None)

\* t is s moved on by one stage, with x entering and y leaving.
ShiftHyp(n, s, t, x, y) ==
  /\ n \in Nat
  /\ DOMAIN s = 1 .. n /\ DOMAIN t = 1 .. n
  /\ \A i \in 1 .. n : t[i] = IF i = 1 THEN x ELSE s[i - 1]
  /\ y = IF n = 0 THEN x ELSE s[n]

LEMMA Shift ==
  \A n, s, t, x, y : ShiftHyp(n, s, t, x, y) =>
    Cardinality(Occupied(t)) + Held(y)
      = Cardinality(Occupied(s)) + Held(x)
<1> SUFFICES ASSUME NEW n, NEW s, NEW t, NEW x, NEW y, ShiftHyp(n, s, t, x, y)
             PROVE  Cardinality(Occupied(t)) + Held(y)
                      = Cardinality(Occupied(s)) + Held(x)
  OBVIOUS
<1> USE DEF ShiftHyp, Held
<1>1. /\ DOMAIN t = 1 .. n
      /\ \A i \in 1 .. n : t[i] = IF i = 1 THEN x ELSE s[i - 1]
  OBVIOUS
<1>2. /\ IsFiniteSet(Occupied(s)) /\ Cardinality(Occupied(s)) \in Nat
      /\ IsFiniteSet(Occupied(t)) /\ Cardinality(Occupied(t)) \in Nat
  BY <1>1, OccupiedFinite
<1>3. CASE n = 0
  <2>1. Occupied(s) = {} /\ Occupied(t) = {}
    BY <1>1, <1>3 DEF Occupied
  <2> QED BY <1>3, <2>1
<1>4. CASE n # 0
  <2> DEFINE U == Occupied(s) \ {n}
             V == Occupied(t) \ {1}
             f == [i \in U |-> i + 1]
  <2>1. Cardinality(V) = Cardinality(U)
    <3>1. \A i \in U : i \in 1 .. n - 1 /\ s[i] # None
      BY DEF Occupied
    <3>2. \A i \in U : i + 1 \in V
      <4> SUFFICES ASSUME NEW i \in U PROVE i + 1 \in V
        OBVIOUS
      <4>1. i + 1 \in 1 .. n /\ i + 1 # 1 /\ (i + 1) - 1 = i
        BY <3>1
      <4>2. t[i + 1] = s[i]
        BY <1>1, <4>1
      <4> QED BY <1>1, <3>1, <4>1, <4>2 DEF Occupied
    <3>3. \A j \in V : j - 1 \in U /\ j = (j - 1) + 1
      <4> SUFFICES ASSUME NEW j \in V PROVE j - 1 \in U /\ j = (j - 1) + 1
        OBVIOUS
      <4>1. j \in 1 .. n /\ j # 1 /\ t[j] # None
        BY <1>1 DEF Occupied
      <4>2. j - 1 \in 1 .. n /\ j - 1 # n /\ j = (j - 1) + 1
        BY <4>1
      <4>3. t[j] = s[j - 1]
        BY <1>1, <4>1
      <4> QED BY <4>1, <4>2, <4>3 DEF Occupied
    <3>4. f \in Bijection(U, V)
      <4>1. f \in [U -> V]
        BY <3>2
      <4>2. \A a, b \in U : f[a] = f[b] => a = b
        BY <3>1
      <4>3. \A j \in V : \E i \in U : f[i] = j
        BY <3>3
      <4> QED BY <4>1, <4>2, <4>3 DEF Bijection, Injection, Surjection,
                                  IsInjective
    <3>5. ExistsBijection(U, V)
      BY <3>4 DEF ExistsBijection
    <3>6. IsFiniteSet(U)
      BY <1>2, FS_RemoveElement
    <3> QED BY <3>5, <3>6, FS_Bijection
  <2>2. Cardinality(U) = IF n \in Occupied(s) THEN Cardinality(Occupied(s)) - 1
                                              ELSE Cardinality(Occupied(s))
    BY <1>2, FS_RemoveElement
  <2>3. Cardinality(V) = IF 1 \in Occupied(t) THEN Cardinality(Occupied(t)) - 1
                                              ELSE Cardinality(Occupied(t))
    BY <1>2, FS_RemoveElement
  <2>4. n \in Occupied(s) <=> s[n] # None
    BY <1>4 DEF Occupied
  <2>5. 1 \in Occupied(t) <=> x # None
    BY <1>1, <1>4 DEF Occupied
  <2> HIDE DEF U, V
  <2> QED BY <1>2, <1>4, <2>1, <2>2, <2>3, <2>4, <2>5 DEF One
<1> QED BY <1>3, <1>4

CountInv == TypeOK /\ CountsPending

LEMMA InitCount == Init => CountsPending
<1> SUFFICES ASSUME Init PROVE CountsPending
  OBVIOUS
<1>1. Occupied(stage) = {} /\ cnt = 0 /\ input = None
  BY DEF Init, Occupied
<1>2. Cardinality(Occupied(stage)) = 0
  BY <1>1, FS_EmptySet
<1> QED BY <1>1, <1>2 DEF CountsPending, Occupied, One

\* A cycle of the unit takes one reply out and puts one in, never both the
\* rest of a packet and a new one.
LEMMA FeedCount ==
  ASSUME Guarded, TypeOK, CountsPending, MoveStages, Feed, UNCHANGED stages
  PROVE  CountsPending'
<1>1. PICK n : n = stages - 1
  OBVIOUS
<1>2. n \in Nat /\ stages = n + 1
  <2>1. stages \in Nat \ {0}
    BY SizesType DEF TypeOK
  <2> QED BY <1>1, <2>1
<1>3. DOMAIN stage = 1 .. n /\ DOMAIN stage' = 1 .. n
  BY <1>1 DEF TypeOK, MoveStages
<1>4. Output = IF n = 0 THEN input ELSE stage[n]
  BY <1>1, <1>2 DEF Output
<1>5. stage' = [i \in 1 .. n |-> IF i = 1 THEN input ELSE stage[i - 1]]
  BY <1>1 DEF MoveStages
<1>6. Cardinality(Occupied(stage')) + One(Output # None)
        = Cardinality(Occupied(stage)) + One(input # None)
  <2>1. PICK s : s = stage
    OBVIOUS
  <2>2. PICK t : t = stage'
    OBVIOUS
  <2>3. PICK x : x = input
    OBVIOUS
  <2>4. PICK y : y = Output
    OBVIOUS
  <2>5. ShiftHyp(n, s, t, x, y)
    BY <1>2, <1>3, <1>4, <1>5, <2>1, <2>2, <2>3, <2>4 DEF ShiftHyp
  <2>6. Cardinality(Occupied(t)) + Held(y)
          = Cardinality(Occupied(s)) + Held(x)
    BY <2>5, Shift
  <2> QED BY <2>1, <2>2, <2>3, <2>4, <2>6 DEF Held
<1>7. /\ Cardinality(Occupied(stage)) \in Nat
      /\ Cardinality(Occupied(stage')) \in Nat
  BY <1>2, <1>3, OccupiedFinite
<1>8. One(input' # None) = One(FedBack # None) + One(Pops)
  <2>1. CASE Pops
    <3>1. FedBack = None /\ net # <<>> /\ input' = Head(net)
      BY <2>1 DEF Pops, Feed
    <3>2. input' \in Replies
      BY <3>1, TailType DEF TypeOK
    <3>3. input' # None
      BY <3>2, SizesType
    <3> QED BY <2>1, <3>1, <3>3 DEF One
  <2>2. CASE ~Pops
    BY <2>2 DEF Feed, One
  <2> QED BY <2>1, <2>2
<1>9. cnt = Cardinality(Occupied(stage)) + One(input # None)
  BY DEF CountsPending, Occupied
<1>10. cnt' = cnt - One(Output # None) + One(FedBack # None) + One(Pops)
  BY DEF Feed
<1>11. /\ One(input # None) \in Int /\ One(Output # None) \in Int
       /\ One(FedBack # None) \in Int /\ One(Pops) \in Int
  BY DEF One
<1>12. cnt' = Cardinality(Occupied(stage')) + One(input' # None)
  BY <1>6, <1>7, <1>8, <1>9, <1>10, <1>11
<1> QED BY <1>12 DEF CountsPending, Occupied

\* The counter that icnt_cycle() asks whether the unit is flushed is the
\* number of replies in the unit: under it compressed data overtakes none.
\* Only for the arm that pops no packet in a cycle that fed a rest back.
THEOREM Counts ==
  ASSUME Guarded
  PROVE  Spec => []CountsPending
<1>1. Init => CountInv
  BY InitSize, InitCount DEF CountInv, SizeInv, BuffersBounded
<1>2. SizeInv /\ SizeInv' /\ CountInv /\ [Next]_vars => CountInv'
  <2> SUFFICES ASSUME SizeInv, SizeInv', CountInv, [Next]_vars
               PROVE  CountsPending'
    BY DEF CountInv, SizeInv, BuffersBounded
  <2>1. CASE UNCHANGED <<stages, stage, input, cnt>>
    BY <2>1 DEF CountInv, CountsPending, One
  <2>2. CASE MoveStages /\ Feed /\ UNCHANGED stages
    BY <2>2, FeedCount DEF CountInv
  <2>3. Arrive \/ SwitchCache \/ UNCHANGED vars
          => UNCHANGED <<stages, stage, input, cnt>>
    BY DEF Arrive, SwitchCache, vars, config
  <2>4. ASSUME NEW room \in BOOLEAN, BypassCycle(room)
        PROVE  UNCHANGED <<stages, stage, input, cnt>>
    BY <2>4 DEF BypassCycle, config
  <2>5. ASSUME NEW room \in BOOLEAN, DecompressCycle(room)
        PROVE  \/ UNCHANGED <<stages, stage, input, cnt>>
               \/ MoveStages /\ Feed /\ UNCHANGED stages
    BY <2>5 DEF DecompressCycle, Phase1, config
  <2> QED BY <2>1, <2>2, <2>3, <2>4, <2>5 DEF Next, IcntCycle
<1>3. SizeInv /\ [Next]_vars => SizeInv'
  BY SizeStep
<1>4. Init => SizeInv
  BY InitSize
<1>5. CountInv => CountsPending
  BY DEF CountInv
<1> QED BY <1>1, <1>2, <1>3, <1>4, <1>5, PTL DEF Spec

-----------------------------------------------------------------------------
(* Flattening a sequence of sequences, as a recursive function computes it. *)

LEMMA LeastNatural ==
  ASSUME NEW T \in SUBSET Nat, T # {}
  PROVE  \E n \in T : \A m \in T : n <= m
<1>1. PICK top \in T : TRUE
  OBVIOUS
<1>2. IsWellFoundedOn(StrictSubsetOrdering(0 .. top), SUBSET (0 .. top))
  <2>1. IsFiniteSet(0 .. top)
    BY FS_Interval
  <2> QED BY <2>1, FS_StrictSubsetOrderingWellFounded, FS_FiniteSubsetsOfFinite
<1>3. PICK M : M = {0 .. m : m \in {k \in T : k <= top}}
  OBVIOUS
<1>4. M # {} /\ M \subseteq SUBSET (0 .. top)
  BY <1>3
<1>5. PICK x \in M :
        \A y \in M : ~(<<y, x>> \in StrictSubsetOrdering(0 .. top))
  BY <1>2, <1>4, WFMin
<1>6. PICK n \in T : n <= top /\ x = 0 .. n
  BY <1>3
<1>7. ASSUME NEW m \in T, m < n PROVE FALSE
  <2>1. 0 .. m \in M
    BY <1>3, <1>6, <1>7
  <2>2. 0 .. m \subseteq 0 .. n /\ n \in 0 .. n /\ n \notin 0 .. m
    BY <1>7
  <2>3. 0 .. m \in SUBSET (0 .. top) /\ 0 .. n \in SUBSET (0 .. top)
    BY <1>6, <1>7
  <2> QED BY <1>5, <1>6, <2>1, <2>2, <2>3 DEF StrictSubsetOrdering
<1> QED BY <1>7

\* f[i] is the first i sequences of s, one after the other.
Flattens(f, s, n) ==
  f = [i \in 1 .. n |-> IF i = 1 THEN s[i] ELSE f[i - 1] \o s[i]]

LEMMA FlattensExists == \A s : \A n \in Nat : \E f : Flattens(f, s, n)
<1> SUFFICES ASSUME NEW s, NEW bad \in Nat, ~ \E f : Flattens(f, s, bad)
             PROVE  FALSE
  OBVIOUS
<1>1. PICK T : T = {m \in Nat : ~ \E f : Flattens(f, s, m)}
  OBVIOUS
<1>2. PICK m \in T : \A l \in T : m <= l
  <2>1. T \in SUBSET Nat /\ T # {}
    BY <1>1
  <2> QED BY <2>1, LeastNatural
<1>3. m \in Nat /\ ~ \E f : Flattens(f, s, m)
  BY <1>1
<1>4. m # 0
  <2>1. Flattens([i \in 1 .. 0 |-> s[i]], s, 0)
    BY DEF Flattens
  <2> QED BY <1>3, <2>1
<1>5. PICK f : Flattens(f, s, m - 1)
  <2>1. m - 1 \in Nat /\ m - 1 \notin T
    BY <1>2, <1>3, <1>4
  <2> QED BY <1>1, <2>1
<1>6. PICK e : e = [i \in 1 .. m |->
                      IF i < m THEN f[i]
                      ELSE IF i = 1 THEN s[i] ELSE f[i - 1] \o s[i]]
  OBVIOUS
<1>7. ASSUME NEW i \in 1 .. m
      PROVE  e[i] = IF i = 1 THEN s[i] ELSE e[i - 1] \o s[i]
  <2>1. CASE i = 1
    <3>1. i < m => f[i] = s[i]
      BY <1>3, <1>5, <2>1 DEF Flattens
    <3> QED BY <1>6, <2>1, <3>1
  <2>2. CASE i # 1
    <3>1. i - 1 \in 1 .. m /\ i - 1 < m
      BY <1>3, <2>2
    <3>2. e[i - 1] = f[i - 1]
      BY <1>6, <3>1
    <3>3. i < m => f[i] = f[i - 1] \o s[i]
      <4>1. i < m => i \in 1 .. m - 1
        BY <1>3
      <4> QED BY <1>5, <2>2, <4>1 DEF Flattens
    <3>4. e[i] = f[i - 1] \o s[i]
      BY <1>6, <2>2, <3>3
    <3> QED BY <2>2, <3>2, <3>4
  <2> QED BY <2>1, <2>2
<1>8. e = [i \in 1 .. m |-> IF i = 1 THEN s[i] ELSE e[i - 1] \o s[i]]
  BY <1>6, <1>7
<1> QED BY <1>3, <1>8 DEF Flattens

\* What f says of the first k sequences depends on these only.
Agree(s, t, k) == \A i \in 1 .. k : s[i] = t[i]

LEMMA FlattensUnique ==
  ASSUME NEW f, NEW g, NEW s, NEW t, NEW n \in Nat, NEW m \in Nat,
         NEW k \in Nat, k <= n, k <= m, Agree(s, t, k),
         Flattens(f, s, n), Flattens(g, t, m)
  PROVE  Agree(f, g, k)
<1> SUFFICES ASSUME NEW bad \in 1 .. k, f[bad] # g[bad] PROVE FALSE
  BY DEF Agree
<1>1. PICK T : T = {i \in 1 .. k : f[i] # g[i]}
  OBVIOUS
<1>2. PICK i \in T : \A j \in T : i <= j
  <2>1. T \in SUBSET Nat /\ T # {}
    BY <1>1
  <2> QED BY <2>1, LeastNatural
<1>3. i \in 1 .. k /\ f[i] # g[i]
  BY <1>1
<1>4. i \in 1 .. n /\ i \in 1 .. m /\ s[i] = t[i]
  BY <1>3 DEF Agree
<1>5. /\ f[i] = IF i = 1 THEN s[i] ELSE f[i - 1] \o s[i]
      /\ g[i] = IF i = 1 THEN t[i] ELSE g[i - 1] \o t[i]
  BY <1>4 DEF Flattens
<1>6. i # 1
  BY <1>3, <1>4, <1>5
<1>7. i - 1 \in 1 .. k /\ i - 1 \notin T
  BY <1>2, <1>3, <1>6
<1>8. f[i - 1] = g[i - 1]
  BY <1>1, <1>7
<1> QED BY <1>3, <1>4, <1>5, <1>8

LEMMA FlattenIs ==
  ASSUME NEW S, NEW s \in Seq(S), s # <<>>
  PROVE  \E f : Flattens(f, s, Len(s)) /\ FlattenSeq(s) = f[Len(s)]
<1>1. Len(s) \in Nat /\ Len(s) # 0
  OBVIOUS
<1>2. PICK f : f = CHOOSE h : Flattens(h, s, Len(s))
  OBVIOUS
<1>3. Flattens(f, s, Len(s))
  BY <1>1, <1>2, FlattensExists
<1>4. FlattenSeq(s) = f[Len(s)]
  BY <1>1, <1>2 DEF FlattenSeq, Flattens
<1> QED BY <1>3, <1>4

LEMMA FlattenEmpty == FlattenSeq(<<>>) = <<>>
BY DEF FlattenSeq

LEMMA FlattenAppend ==
  ASSUME NEW S, NEW s \in Seq(Seq(S)), NEW x \in Seq(S)
  PROVE  FlattenSeq(Append(s, x)) = FlattenSeq(s) \o x
<1>1. PICK t : t = Append(s, x)
  OBVIOUS
<1>2. /\ t \in Seq(Seq(S)) /\ t # <<>> /\ Len(t) = Len(s) + 1
      /\ Agree(s, t, Len(s)) /\ t[Len(t)] = x
  BY <1>1, AppendProperties DEF Agree
<1>3. PICK g : Flattens(g, t, Len(t)) /\ FlattenSeq(t) = g[Len(t)]
  BY <1>2, FlattenIs
<1>4. Len(s) \in Nat /\ Len(t) \in 1 .. Len(t)
  BY <1>2
<1>5. CASE s = <<>>
  <2>1. Len(t) = 1
    BY <1>2, <1>5
  <2>2. g[1] = t[1]
    BY <1>3, <2>1 DEF Flattens
  <2>3. FlattenSeq(t) = x
    BY <1>2, <1>3, <2>1, <2>2
  <2>4. <<>> \o x = x
    BY ConcatEmptySeq
  <2> QED BY <1>1, <1>5, <2>3, <2>4, FlattenEmpty
<1>6. CASE s # <<>>
  <2>1. PICK f : Flattens(f, s, Len(s)) /\ FlattenSeq(s) = f[Len(s)]
    BY <1>6, FlattenIs
  <2>2. Agree(f, g, Len(s))
    BY <1>2, <1>3, <1>4, <2>1, FlattensUnique
  <2>3. Len(s) \in 1 .. Len(s) /\ Len(t) # 1 /\ Len(t) - 1 = Len(s)
    BY <1>2, <1>4, <1>6
  <2>4. g[Len(s)] = f[Len(s)]
    BY <2>2, <2>3 DEF Agree
  <2>5. g[Len(t)] = g[Len(t) - 1] \o t[Len(t)]
    BY <1>3, <1>4, <2>3 DEF Flattens
  <2> QED BY <1>1, <1>2, <1>3, <2>1, <2>3, <2>4, <2>5
<1> QED BY <1>5, <1>6

\* Of the sequences that are not as they should be, one is shortest.
LEMMA ShortestSeq ==
  ASSUME NEW S, NEW B \in SUBSET Seq(S), B # {}
  PROVE  \E s \in B : \A t \in B : Len(s) <= Len(t)
<1>1. PICK T : T = {Len(s) : s \in B}
  OBVIOUS
<1>2. T \in SUBSET Nat /\ T # {}
  BY <1>1, LenProperties
<1>3. PICK n \in T : \A m \in T : n <= m
  BY <1>2, LeastNatural
<1> QED BY <1>1, <1>3

Regroups(a, b, c) == (a \o b) \o c = a \o (b \o c)

LEMMA Regroup ==
  \A S : \A a, b, c \in Seq(S) : Regroups(a, b, c)
<1> SUFFICES ASSUME NEW S, NEW a \in Seq(S), NEW b \in Seq(S), NEW c \in Seq(S)
             PROVE  (a \o b) \o c = a \o (b \o c)
  BY DEF Regroups
<1> QED BY ConcatAssociative

LEMMA FlattenType ==
  ASSUME NEW S, NEW s \in Seq(Seq(S))
  PROVE  FlattenSeq(s) \in Seq(S)
<1> SUFFICES ASSUME FlattenSeq(s) \notin Seq(S) PROVE FALSE
  OBVIOUS
<1>1. PICK B : B = {t \in Seq(Seq(S)) : FlattenSeq(t) \notin Seq(S)}
  OBVIOUS
<1>2. PICK t \in B : \A u \in B : Len(t) <= Len(u)
  BY <1>1, ShortestSeq
<1>3. t \in Seq(Seq(S)) /\ FlattenSeq(t) \notin Seq(S)
  BY <1>1
<1>4. t # <<>>
  BY <1>3, FlattenEmpty
<1>5. PICK u \in Seq(Seq(S)), x \in Seq(S) : t = Append(u, x)
  BY <1>3, <1>4, SequenceEmptyOrAppend
<1>6. Len(u) < Len(t)
  BY <1>5, AppendProperties
<1>7. FlattenSeq(u) \in Seq(S)
  BY <1>1, <1>2, <1>3, <1>6
<1>8. FlattenSeq(t) = FlattenSeq(u) \o x
  BY <1>5, FlattenAppend
<1> QED BY <1>3, <1>7, <1>8, ConcatProperties

HeadFirst(s) == FlattenSeq(s) = Head(s) \o FlattenSeq(Tail(s))

LEMMA FlattenHead ==
  ASSUME NEW S, NEW s \in Seq(Seq(S)), s # <<>>
  PROVE  FlattenSeq(s) = Head(s) \o FlattenSeq(Tail(s))
<1> SUFFICES ASSUME ~HeadFirst(s) PROVE FALSE
  BY DEF HeadFirst
<1>1. PICK B : B = {t \in Seq(Seq(S)) : t # <<>> /\ ~HeadFirst(t)}
  OBVIOUS
<1>2. PICK t \in B : \A u \in B : Len(t) <= Len(u)
  BY <1>1, ShortestSeq
<1>3. t \in Seq(Seq(S)) /\ t # <<>> /\ ~HeadFirst(t)
  BY <1>1
<1>4. PICK u \in Seq(Seq(S)), x \in Seq(S) : t = Append(u, x)
  BY <1>3, SequenceEmptyOrAppend
<1>5. FlattenSeq(t) = FlattenSeq(u) \o x
  BY <1>4, FlattenAppend
<1>6. CASE u = <<>>
  <2>1. Head(t) = x /\ Tail(t) = <<>>
    BY <1>4, <1>6, HeadTailAppend
  <2>2. <<>> \o x = x /\ x \o <<>> = x
    BY ConcatEmptySeq
  <2> QED BY <1>3, <1>5, <1>6, <2>1, <2>2, FlattenEmpty DEF HeadFirst
<1>7. CASE u # <<>>
  <2>1. Head(t) = Head(u) /\ Tail(t) = Append(Tail(u), x)
    BY <1>4, <1>7, HeadTailAppend
  <2>2. Head(u) \in Seq(S) /\ Tail(u) \in Seq(Seq(S))
    BY <1>7, HeadTailProperties
  <2>3. FlattenSeq(Tail(t)) = FlattenSeq(Tail(u)) \o x
    BY <2>1, <2>2, FlattenAppend
  <2>4. Len(u) < Len(t)
    BY <1>4, AppendProperties
  <2>5. FlattenSeq(u) = Head(u) \o FlattenSeq(Tail(u))
    <3>1. u \notin B
      <4>1. Len(u) \in Nat /\ Len(t) \in Nat
        BY <1>3, LenProperties
      <4>2. ~(Len(t) <= Len(u))
        BY <2>4, <4>1
      <4> QED BY <1>2, <4>2
    <3> QED BY <1>1, <1>7, <3>1 DEF HeadFirst
  <2>6. FlattenSeq(Tail(u)) \in Seq(S)
    BY <2>2, FlattenType
  <2>7. (Head(u) \o FlattenSeq(Tail(u))) \o x
          = Head(u) \o (FlattenSeq(Tail(u)) \o x)
    <3>1. PICK h \in Seq(S) : h = Head(u)
      BY <2>2
    <3>2. PICK r \in Seq(S) : r = FlattenSeq(Tail(u))
      BY <2>6
    <3>3. Regroups(h, r, x)
      BY Regroup
    <3> QED BY <3>1, <3>2, <3>3, Zenon DEF Regroups
  <2> QED BY <1>3, <1>5, <2>1, <2>3, <2>5, <2>7 DEF HeadFirst
<1> QED BY <1>6, <1>7

-----------------------------------------------------------------------------
(* Where a reply can be: every one that is anywhere has arrived, once. *)

In(r, s) == \E i \in 1 .. Len(s) : s[i] = r

Distinct(s) == \A i, j \in 1 .. Len(s) : s[i] = s[j] => i = j

SentOnce == Distinct(sent)
NetArrived == \A r : In(r, net) => In(r, sent)
InputArrived == input # None => In(input, sent)
MergedArrived == \A q \in Replies : \A r : In(r, merged[q]) => In(r, sent)

\* No packet is in the network twice, or inside another one, or in the unit.
NetOnce == Distinct(net)
NetApart == \A q, r : In(q, net) /\ In(r, net) => ~In(r, merged[q])
InputApart == input # None =>
  \A r : In(r, net) => r # input /\ ~In(r, merged[input])

\* A configuration that merges replies has a unit of one stage.
NothingMerged == stages # 1 => \A r \in Replies : merged[r] = <<>>

BypassEmpty == mode = "bypass" =>
  buf = <<>> /\ input = None /\ \A i \in 1 .. stages - 1 : stage[i] = None

Places == /\ SentOnce /\ NetArrived /\ InputArrived /\ MergedArrived
          /\ NetOnce /\ NetApart /\ InputApart
          /\ NothingMerged /\ BypassEmpty

LEMMA InConcat ==
  ASSUME NEW S, NEW s \in Seq(S), NEW t \in Seq(S), NEW r
  PROVE  In(r, s \o t) <=> In(r, s) \/ In(r, t)
<1>1. /\ Len(s \o t) = Len(s) + Len(t) /\ Len(s) \in Nat /\ Len(t) \in Nat
      /\ \A i \in 1 .. Len(s) + Len(t) :
           (s \o t)[i] = IF i <= Len(s) THEN s[i] ELSE t[i - Len(s)]
  BY ConcatProperties, LenProperties
<1>2. ASSUME In(r, s \o t) PROVE In(r, s) \/ In(r, t)
  <2>1. PICK i \in 1 .. Len(s) + Len(t) : (s \o t)[i] = r
    BY <1>1, <1>2 DEF In
  <2>2. CASE i <= Len(s)
    BY <1>1, <2>1, <2>2 DEF In
  <2>3. CASE i > Len(s)
    <3>1. i - Len(s) \in 1 .. Len(t)
      BY <1>1, <2>3
    <3>2. t[i - Len(s)] = r
      BY <1>1, <2>1, <2>3
    <3> QED BY <3>1, <3>2 DEF In
  <2> QED BY <1>1, <2>2, <2>3
<1>3. ASSUME In(r, s) PROVE In(r, s \o t)
  BY <1>1, <1>3 DEF In
<1>4. ASSUME In(r, t) PROVE In(r, s \o t)
  <2>1. PICK i \in 1 .. Len(t) : t[i] = r
    BY <1>4 DEF In
  <2>2. i + Len(s) \in 1 .. Len(s) + Len(t) /\ ~(i + Len(s) <= Len(s))
        /\ (i + Len(s)) - Len(s) = i
    BY <1>1
  <2>3. (s \o t)[i + Len(s)] = r
    BY <1>1, <2>1, <2>2
  <2> QED BY <1>1, <2>2, <2>3 DEF In
<1> QED BY <1>2, <1>3, <1>4

LEMMA InTail ==
  ASSUME NEW S, NEW s \in Seq(S), s # <<>>, NEW r
  PROVE  /\ In(Head(s), s)
         /\ In(r, Tail(s)) => In(r, s)
         /\ In(r, s) => r = Head(s) \/ In(r, Tail(s))
<1>1. /\ Len(Tail(s)) = Len(s) - 1 /\ Len(s) \in Nat \ {0} /\ Head(s) = s[1]
      /\ \A i \in 1 .. Len(Tail(s)) : Tail(s)[i] = s[i + 1]
  BY HeadTailProperties
<1>2. In(Head(s), s)
  BY <1>1 DEF In
<1>3. ASSUME In(r, Tail(s)) PROVE In(r, s)
  <2>1. PICK i \in 1 .. Len(Tail(s)) : Tail(s)[i] = r
    BY <1>3 DEF In
  <2>2. i + 1 \in 1 .. Len(s) /\ s[i + 1] = r
    BY <1>1, <2>1
  <2> QED BY <2>2 DEF In
<1>4. ASSUME In(r, s), r # Head(s) PROVE In(r, Tail(s))
  <2>1. PICK i \in 1 .. Len(s) : s[i] = r
    BY <1>4 DEF In
  <2>2. i # 1
    BY <1>1, <1>4, <2>1
  <2>3. i - 1 \in 1 .. Len(Tail(s)) /\ (i - 1) + 1 = i
    BY <1>1, <2>2
  <2>4. Tail(s)[i - 1] = r
    BY <1>1, <2>1, <2>3
  <2> QED BY <2>3, <2>4 DEF In
<1> QED BY <1>2, <1>3, <1>4

LEMMA InAppend ==
  ASSUME NEW S, NEW s \in Seq(S), NEW x \in S, NEW r
  PROVE  In(r, Append(s, x)) <=> In(r, s) \/ r = x
<1>1. /\ Len(Append(s, x)) = Len(s) + 1 /\ Len(s) \in Nat
      /\ \A i \in 1 .. Len(s) : Append(s, x)[i] = s[i]
      /\ Append(s, x)[Len(s) + 1] = x
  BY AppendProperties
<1>2. ASSUME In(r, Append(s, x)) PROVE In(r, s) \/ r = x
  <2>1. PICK i \in 1 .. Len(s) + 1 : Append(s, x)[i] = r
    BY <1>1, <1>2 DEF In
  <2>2. CASE i = Len(s) + 1
    BY <1>1, <2>1, <2>2
  <2>3. CASE i # Len(s) + 1
    <3>1. i \in 1 .. Len(s)
      BY <1>1, <2>3
    <3> QED BY <1>1, <2>1, <3>1 DEF In
  <2> QED BY <2>2, <2>3
<1>3. ASSUME In(r, s) PROVE In(r, Append(s, x))
  <2>1. PICK i \in 1 .. Len(s) : s[i] = r
    BY <1>3 DEF In
  <2>2. i \in 1 .. Len(Append(s, x)) /\ Append(s, x)[i] = r
    BY <1>1, <2>1
  <2> QED BY <2>2 DEF In
<1>4. In(x, Append(s, x))
  <2>1. Len(s) + 1 \in 1 .. Len(Append(s, x))
    BY <1>1
  <2> QED BY <1>1, <2>1 DEF In
<1> QED BY <1>2, <1>3, <1>4

LEMMA DistinctConcat ==
  ASSUME NEW S, NEW s \in Seq(S), NEW t \in Seq(S),
         Distinct(s), Distinct(t), \A r : ~(In(r, s) /\ In(r, t))
  PROVE  Distinct(s \o t)
<1>1. /\ Len(s \o t) = Len(s) + Len(t) /\ Len(s) \in Nat /\ Len(t) \in Nat
      /\ \A i \in 1 .. Len(s) + Len(t) :
           (s \o t)[i] = IF i <= Len(s) THEN s[i] ELSE t[i - Len(s)]
  BY ConcatProperties, LenProperties
<1>2. SUFFICES ASSUME NEW i \in 1 .. Len(s) + Len(t),
                      NEW j \in 1 .. Len(s) + Len(t),
                      (s \o t)[i] = (s \o t)[j], i < j
               PROVE  FALSE
  BY <1>1 DEF Distinct
<1>3. CASE j <= Len(s)
  <2>1. (s \o t)[i] = s[i] /\ (s \o t)[j] = s[j]
    BY <1>1, <1>2, <1>3
  <2>2. i \in 1 .. Len(s) /\ j \in 1 .. Len(s) /\ i # j
    BY <1>1, <1>2, <1>3
  <2>3. s[i] = s[j]
    BY <1>2, <2>1
  <2> QED BY <2>2, <2>3 DEF Distinct
<1>4. CASE i > Len(s)
  <2>1. (s \o t)[i] = t[i - Len(s)] /\ (s \o t)[j] = t[j - Len(s)]
    BY <1>1, <1>2, <1>4
  <2>2. i - Len(s) \in 1 .. Len(t) /\ j - Len(s) \in 1 .. Len(t)
        /\ i - Len(s) # j - Len(s)
    BY <1>1, <1>2, <1>4
  <2>3. t[i - Len(s)] = t[j - Len(s)]
    BY <1>2, <2>1
  <2> QED BY <2>2, <2>3 DEF Distinct
<1>5. CASE i <= Len(s) /\ j > Len(s)
  <2>1. (s \o t)[i] = s[i] /\ (s \o t)[j] = t[j - Len(s)]
    BY <1>1, <1>5
  <2>2. i \in 1 .. Len(s) /\ j - Len(s) \in 1 .. Len(t)
    BY <1>1, <1>5
  <2>3. In(s[i], s)
    BY <2>2 DEF In
  <2>4. In(s[i], t)
    BY <1>2, <2>1, <2>2 DEF In
  <2> QED BY <2>3, <2>4
<1> QED BY <1>1, <1>3, <1>4, <1>5

LEMMA DistinctTail ==
  ASSUME NEW S, NEW s \in Seq(S), s # <<>>, Distinct(s)
  PROVE  Distinct(Tail(s)) /\ ~In(Head(s), Tail(s))
<1>1. /\ Len(Tail(s)) = Len(s) - 1 /\ Len(s) \in Nat \ {0} /\ Head(s) = s[1]
      /\ \A i \in 1 .. Len(Tail(s)) : Tail(s)[i] = s[i + 1]
  BY HeadTailProperties
<1>2. Distinct(Tail(s))
  <2> SUFFICES ASSUME NEW i \in 1 .. Len(Tail(s)), NEW j \in 1 .. Len(Tail(s)),
                      Tail(s)[i] = Tail(s)[j]
               PROVE  i = j
    BY DEF Distinct
  <2>1. s[i + 1] = s[j + 1]
    BY <1>1
  <2>2. i + 1 \in 1 .. Len(s) /\ j + 1 \in 1 .. Len(s)
    BY <1>1
  <2>3. i + 1 = j + 1
    BY <2>1, <2>2 DEF Distinct
  <2> QED BY <2>3
<1>3. ASSUME In(Head(s), Tail(s)) PROVE FALSE
  <2>1. PICK i \in 1 .. Len(Tail(s)) : Tail(s)[i] = Head(s)
    BY <1>3 DEF In
  <2>2. s[i + 1] = s[1] /\ i + 1 \in 1 .. Len(s) /\ 1 \in 1 .. Len(s)
        /\ i + 1 # 1
    BY <1>1, <2>1
  <2> QED BY <2>2 DEF Distinct
<1> QED BY <1>2, <1>3

-----------------------------------------------------------------------------
(* The steps keep the replies apart. *)

LEMMA PlacesInit == Init => Places
<1> SUFFICES ASSUME Init PROVE Places
  OBVIOUS
<1>1. /\ sent = <<>> /\ net = <<>> /\ input = None /\ buf = <<>>
      /\ \A r \in Replies : merged[r] = <<>>
      /\ \A i \in 1 .. stages - 1 : stage[i] = None
  BY DEF Init
<1>2. \A r : ~In(r, <<>>)
  BY DEF In
<1>3. Distinct(<<>>)
  BY DEF Distinct
<1> QED BY <1>1, <1>2, <1>3 DEF Places, SentOnce, NetArrived, InputArrived,
              MergedArrived, NetOnce, NetApart, InputApart, NothingMerged,
              BypassEmpty

\* What Arrive brings is new, and comes once.
NewPacket(p) ==
  /\ p \in Seq(Replies) /\ p # <<>> /\ Len(p) \in 1 .. MaxPacket
  /\ Distinct(p) /\ \A r : ~(In(r, sent) /\ In(r, p))
  /\ stages # 1 => Len(p) = 1
  /\ net' = Append(net, Head(p))
  /\ merged' = [merged EXCEPT ![Head(p)] = Tail(p)]
  /\ sent' = sent \o p

LEMMA ArriveIsNew ==
  ASSUME TypeOK, Arrive, MergedDepths \subseteq {1}
  PROVE  /\ \E p : NewPacket(p)
         /\ UNCHANGED <<config, input, stage, cnt, buf, fifo, cacheOn, taken>>
<1>1. PICK p \in Packets :
        /\ net' = Append(net, p[1])
        /\ merged' = [merged EXCEPT ![p[1]] = Tail(p)]
        /\ sent' = sent \o p
        /\ UNCHANGED <<config, input, stage, cnt, buf, fifo, cacheOn, taken>>
  BY DEF Arrive
<1>2. PICK n : /\ n \in 1 .. IF stages \in MergedDepths THEN MaxPacket ELSE 1
               /\ p \in [1 .. n -> Replies \ ToSet(sent)]
  BY DEF Packets
<1>3. n \in 1 .. MaxPacket /\ (stages # 1 => n = 1)
  <2>1. MaxPacket \in 1 .. 3
    BY SizesType
  <2>2. CASE stages \in MergedDepths
    <3>1. stages = 1
      BY <2>2
    <3> QED BY <1>2, <2>2, <3>1
  <2>3. CASE stages \notin MergedDepths
    <3>1. n \in 1 .. 1
      BY <1>2, <2>3
    <3> QED BY <2>1, <3>1
  <2> QED BY <2>2, <2>3
<1>4. p \in [1 .. n -> Replies]
  BY <1>2
<1>5. p \in Seq(Replies) /\ Len(p) = n /\ p # <<>> /\ p[1] = Head(p)
  BY <1>3, <1>4
<1>6. Distinct(p)
  <2>1. \A i, j \in DOMAIN p : p[i] = p[j] => i = j
    BY DEF Packets
  <2> QED BY <1>4, <1>5, <2>1 DEF Distinct
<1>7. ASSUME NEW r, In(r, sent), In(r, p) PROVE FALSE
  <2>1. r \in ToSet(sent)
    <3>1. sent \in Seq(Replies)
      BY DEF TypeOK
    <3>2. DOMAIN sent = 1 .. Len(sent)
      BY <3>1, LenProperties
    <3> QED BY <1>7, <3>2 DEF In, ToSet
  <2>2. r \notin ToSet(sent)
    BY <1>2, <1>5, <1>7 DEF In
  <2> QED BY <2>1, <2>2
<1>8. NewPacket(p)
  BY <1>1, <1>3, <1>5, <1>6, <1>7 DEF NewPacket
<1> QED BY <1>1, <1>8

LEMMA PlacesArrive ==
  ASSUME TypeOK, Places, Arrive, MergedDepths \subseteq {1}
  PROVE  Places'
<1>1. UNCHANGED <<config, input, stage, cnt, buf, fifo, cacheOn, taken>>
  BY ArriveIsNew
<1>2. PICK p : NewPacket(p)
  BY ArriveIsNew
<1>3. /\ p \in Seq(Replies) /\ p # <<>> /\ Distinct(p)
      /\ sent' = sent \o p /\ net' = Append(net, Head(p))
      /\ merged' = [merged EXCEPT ![Head(p)] = Tail(p)]
  BY <1>2 DEF NewPacket
<1>4. \A r : In(r, sent) => ~In(r, p)
  BY <1>2 DEF NewPacket
<1>5. /\ sent \in Seq(Replies) /\ net \in Seq(Replies)
      /\ merged \in [Replies -> Seq(Replies)]
  BY DEF TypeOK
<1>6. /\ Head(p) \in Replies /\ Tail(p) \in Seq(Replies)
      /\ Distinct(Tail(p)) /\ ~In(Head(p), Tail(p)) /\ In(Head(p), p)
  BY <1>3, HeadTailProperties, DistinctTail, InTail
<1>7. \A r : In(r, Tail(p)) => In(r, p)
  BY <1>3, InTail
<1>8. \A r : In(r, sent') <=> In(r, sent) \/ In(r, p)
  BY <1>3, <1>5, InConcat
<1>9. \A r : In(r, net') <=> In(r, net) \/ r = Head(p)
  BY <1>3, <1>5, <1>6, InAppend
<1>10. \A q \in Replies :
         merged'[q] = IF q = Head(p) THEN Tail(p) ELSE merged[q]
  BY <1>3, <1>5
<1>11. ~In(Head(p), sent) /\ ~In(Head(p), net)
  BY <1>4, <1>6 DEF Places, NetArrived
<1>12. SentOnce'
  BY <1>3, <1>4, <1>5, DistinctConcat DEF Places, SentOnce
<1>13. NetArrived'
  BY <1>6, <1>8, <1>9 DEF Places, NetArrived
<1>14. InputArrived'
  BY <1>1, <1>8 DEF Places, InputArrived
<1>15. MergedArrived'
  BY <1>7, <1>8, <1>10 DEF Places, MergedArrived
<1>16. NetOnce'
  <2>1. PICK x : x = Head(p)
    OBVIOUS
  <2>2. Distinct(<<x>>) /\ <<x>> \in Seq(Replies)
        /\ \A r : In(r, <<x>>) => r = x
    BY <1>6, <2>1 DEF Distinct, In
  <2>3. net' = net \o <<x>>
    BY <1>3, <1>5, <1>6, <2>1, AppendIsConcat
  <2>4. Distinct(net)
    BY DEF Places, NetOnce
  <2>5. Distinct(net \o <<x>>)
    BY <1>5, <1>11, <2>1, <2>2, <2>4, DistinctConcat
  <2> QED BY <2>3, <2>5 DEF NetOnce
<1>17. NetApart'
  <2> SUFFICES ASSUME NEW q, NEW r, In(q, net'), In(r, net')
               PROVE  ~In(r, merged'[q])
    BY DEF NetApart
  <2>1. CASE q = Head(p)
    <3>1. merged'[q] = Tail(p)
      BY <1>6, <1>10, <2>1
    <3>2. In(r, net) => In(r, sent)
      BY DEF Places, NetArrived
    <3> QED BY <1>4, <1>6, <1>7, <1>9, <3>1, <3>2
  <2>2. CASE q # Head(p)
    <3>1. In(q, net)
      BY <1>9, <2>2
    <3>2. q \in Replies
      BY <1>5, <3>1 DEF In
    <3>3. merged'[q] = merged[q]
      BY <1>10, <2>2, <3>2
    <3>4. ~In(Head(p), merged[q])
      BY <1>11, <3>2 DEF Places, MergedArrived
    <3>5. In(r, net) => ~In(r, merged[q])
      BY <3>1 DEF Places, NetApart
    <3> QED BY <1>9, <3>3, <3>4, <3>5
  <2> QED BY <2>1, <2>2
<1>18. InputApart'
  <2> SUFFICES ASSUME input # None, NEW r, In(r, net')
               PROVE  r # input /\ ~In(r, merged'[input])
    BY <1>1 DEF InputApart
  <2>1. input \in Replies /\ In(input, sent)
    BY DEF TypeOK, Places, InputArrived
  <2>2. input # Head(p)
    BY <1>11, <2>1
  <2>3. merged'[input] = merged[input]
    BY <1>10, <2>1, <2>2
  <2>4. ~In(Head(p), merged[input])
    BY <1>11, <2>1 DEF Places, MergedArrived
  <2>5. In(r, net) => r # input /\ ~In(r, merged[input])
    BY DEF Places, InputApart
  <2> QED BY <1>9, <2>2, <2>3, <2>4, <2>5
<1>19. NothingMerged'
  <2>1. stages' = stages
    BY <1>1 DEF config
  <2>2. ASSUME stages # 1 PROVE Tail(p) = <<>>
    <3>1. Len(p) = 1
      BY <1>2, <2>2 DEF NewPacket
    <3>2. Len(Tail(p)) = 0
      BY <1>3, <3>1, HeadTailProperties
    <3> QED BY <1>6, <3>2, EmptySeq
  <2> QED BY <1>10, <2>1, <2>2 DEF Places, NothingMerged
<1>20. BypassEmpty'
  BY <1>1 DEF Places, BypassEmpty, config
<1> QED BY <1>12, <1>13, <1>14, <1>15, <1>16, <1>17, <1>18, <1>19, <1>20
        DEF Places

\* A packet that is popped goes past the unit or into its first stage.
LEMMA NetShrinks ==
  ASSUME TypeOK, Places, UNCHANGED sent,
         \/ net' = net
         \/ net # <<>> /\ net' = Tail(net)
  PROVE  /\ NetOnce' /\ NetArrived' /\ SentOnce'
         /\ \A r : In(r, net') => In(r, net)
<1>1. net \in Seq(Replies) /\ Distinct(net)
  BY DEF TypeOK, Places, NetOnce
<1>2. SentOnce'
  BY DEF Places, SentOnce
<1>3. CASE net' = net
  BY <1>2, <1>3 DEF Places, NetOnce, NetArrived
<1>4. CASE net # <<>> /\ net' = Tail(net)
  <2>1. \A r : In(r, net') => In(r, net)
    BY <1>1, <1>4, InTail
  <2>2. Distinct(net')
    BY <1>1, <1>4, DistinctTail
  <2> QED BY <1>2, <2>1, <2>2 DEF Places, NetOnce, NetArrived
<1> QED BY <1>3, <1>4

LEMMA PlacesBypass ==
  ASSUME TypeOK, Places, NEW room \in BOOLEAN, BypassCycle(room)
  PROVE  Places'
<1>1. UNCHANGED <<config, merged, input, stage, cnt, buf, cacheOn, sent>>
  BY DEF BypassCycle
<1>2. \/ net' = net
      \/ net # <<>> /\ net' = Tail(net)
  BY DEF BypassCycle
<1>3. /\ NetOnce' /\ NetArrived' /\ SentOnce'
      /\ \A r : In(r, net') => In(r, net)
  BY <1>1, <1>2, NetShrinks
<1>4. InputArrived' /\ MergedArrived'
  BY <1>1 DEF Places, InputArrived, MergedArrived
<1>5. NetApart' /\ InputApart'
  BY <1>1, <1>3 DEF Places, NetApart, InputApart
<1>6. NothingMerged' /\ BypassEmpty'
  BY <1>1 DEF Places, NothingMerged, BypassEmpty, config
<1> QED BY <1>3, <1>4, <1>5, <1>6 DEF Places

\* run() leaves the packets alone, or hands the rest of one to its next reply.
Opened(m) ==
  /\ input \in Replies /\ m = merged[input] /\ m \in Seq(Replies) /\ m # <<>>
  /\ Rest = Head(m) /\ Rest \in Replies /\ Rest # None
  /\ \A q \in Replies :
       merged'[q] = IF q = input \/ q = Rest THEN Tail(m) ELSE merged[q]

LEMMA UnpackCases ==
  ASSUME TypeOK, Unpack
  PROVE  \/ Rest = None /\ merged' = merged
         \/ \E m : Opened(m)
<1>1. CASE Rest = None
  BY <1>1 DEF Unpack
<1>2. CASE Rest # None
  <2>1. PICK m : m = merged[input]
    OBVIOUS
  <2>2. /\ input \in Replies /\ m \in Seq(Replies) /\ m # <<>>
        /\ Rest = Head(m) /\ Rest \in Replies
    BY <1>2, <2>1, UnitType
  <2>3. PICK t : t = Tail(m)
    OBVIOUS
  <2>4. merged' = [merged EXCEPT ![input] = t, ![Rest] = t]
    BY <1>2, <2>1, <2>3 DEF Unpack
  <2>5. merged \in [Replies -> Seq(Replies)]
    BY DEF TypeOK
  <2>6. \A q \in Replies :
          merged'[q] = IF q = input \/ q = Rest THEN t ELSE merged[q]
    BY <2>2, <2>4, <2>5
  <2> QED BY <1>2, <2>1, <2>2, <2>3, <2>6 DEF Opened
<1> QED BY <1>1, <1>2

\* A cycle of the unit that is not held up by the buffer.
Runs == Unpack /\ MoveStages /\ Feed /\ UNCHANGED <<stages, mode, sent>>

LEMMA NetAfterFeed ==
  ASSUME Feed
  PROVE  \/ net' = net
         \/ net # <<>> /\ net' = Tail(net)
<1>1. CASE Pops
  BY <1>1 DEF Feed, Pops
<1>2. CASE ~Pops
  BY <1>2 DEF Feed
<1> QED BY <1>1, <1>2

LEMMA PlacesRuns ==
  ASSUME TypeOK, Places, Runs, mode # "bypass"
  PROVE  Places'
<1>1. Unpack /\ Feed /\ UNCHANGED <<stages, mode, sent>>
  BY DEF Runs
<1>2. /\ NetOnce' /\ NetArrived' /\ SentOnce'
      /\ \A r : In(r, net') => In(r, net)
  BY <1>1, NetAfterFeed, NetShrinks
<1>3. /\ net \in Seq(Replies) /\ merged \in [Replies -> Seq(Replies)]
      /\ input \in Replies \cup {None}
  BY DEF TypeOK
<1>4. BypassEmpty'
  BY <1>1 DEF BypassEmpty
<1>5. CASE Rest = None /\ merged' = merged
  <2>1. MergedArrived' /\ NothingMerged'
    BY <1>1, <1>5 DEF Places, MergedArrived, NothingMerged
  <2>2. NetApart'
    BY <1>2, <1>5 DEF Places, NetApart
  <2>3. InputArrived' /\ InputApart'
    <3>1. FedBack = None
      BY <1>5 DEF FedBack
    <3>2. CASE Pops
      <4>1. input' = Head(net) /\ net' = Tail(net) /\ net # <<>>
        BY <1>1, <3>2 DEF Feed, Pops
      <4>2. In(Head(net), net) /\ In(Head(net), sent)
        BY <1>3, <4>1, InTail DEF Places, NetArrived
      <4>3. ~In(Head(net), Tail(net))
        BY <1>3, <4>1, DistinctTail DEF Places, NetOnce
      <4>4. InputArrived'
        BY <1>1, <4>1, <4>2 DEF InputArrived
      <4>5. ASSUME NEW r, In(r, net')
            PROVE  r # input' /\ ~In(r, merged'[input'])
        <5>1. In(r, net)
          BY <1>2, <4>5
        <5>2. ~In(r, merged[Head(net)])
          BY <4>2, <5>1 DEF Places, NetApart
        <5> QED BY <1>5, <4>1, <4>3, <4>5, <5>2
      <4> QED BY <4>4, <4>5 DEF InputApart
    <3>3. CASE ~Pops
      <4>1. input' = None
        BY <1>1, <3>1, <3>3 DEF Feed
      <4> QED BY <4>1 DEF InputArrived, InputApart
    <3> QED BY <3>2, <3>3
  <2> QED BY <1>2, <1>4, <2>1, <2>2, <2>3 DEF Places
<1>6. CASE \E m : Opened(m)
  <2>1. PICK m : Opened(m)
    BY <1>6
  <2>2. /\ input \in Replies /\ m = merged[input] /\ m \in Seq(Replies)
        /\ m # <<>> /\ Rest = Head(m) /\ Rest \in Replies /\ Rest # None
    BY <2>1 DEF Opened
  <2>3. /\ \A r : In(r, Tail(m)) => In(r, m)
        /\ In(Rest, m)
    BY <2>2, InTail
  <2>4. \A r : In(r, m) => In(r, sent)
    BY <2>2 DEF Places, MergedArrived
  <2>5. \A r : In(r, net) => r # input /\ r # Rest /\ ~In(r, m)
    <3>1. input # None
      BY <2>2, SizesType
    <3>2. \A r : In(r, net) => r # input /\ ~In(r, merged[input])
      BY <3>1 DEF Places, InputApart
    <3> QED BY <2>2, <2>3, <3>2
  <2>6. MergedArrived'
    <3> SUFFICES ASSUME NEW q \in Replies, NEW r, In(r, merged'[q])
                 PROVE  In(r, sent)
      BY <1>1 DEF MergedArrived
    <3>1. merged'[q] = IF q = input \/ q = Rest THEN Tail(m) ELSE merged[q]
      BY <2>1 DEF Opened
    <3>2. In(r, merged[q]) => In(r, sent)
      BY DEF Places, MergedArrived
    <3> QED BY <2>3, <2>4, <3>1, <3>2
  <2>7. NothingMerged'
    <3>1. stages = 1
      BY <2>2 DEF Places, NothingMerged
    <3> QED BY <1>1, <3>1 DEF NothingMerged
  <2>8. \A q : In(q, net) => merged'[q] = merged[q]
    <3> SUFFICES ASSUME NEW q, In(q, net) PROVE merged'[q] = merged[q]
      OBVIOUS
    <3>1. q \in Replies
      BY <1>3 DEF In
    <3>2. q # input /\ q # Rest
      BY <2>5
    <3> QED BY <2>1, <3>1, <3>2 DEF Opened
  <2>9. NetApart'
    BY <1>2, <2>8 DEF Places, NetApart
  <2>10. InputArrived' /\ InputApart'
    <3>1. FedBack \in {None, Rest}
      BY DEF FedBack
    <3>2. CASE Pops
      <4>1. input' = Head(net) /\ net' = Tail(net) /\ net # <<>>
        BY <1>1, <3>2 DEF Feed, Pops
      <4>2. In(Head(net), net) /\ In(Head(net), sent)
        BY <1>3, <4>1, InTail DEF Places, NetArrived
      <4>3. ~In(Head(net), Tail(net))
        BY <1>3, <4>1, DistinctTail DEF Places, NetOnce
      <4>4. InputArrived'
        BY <1>1, <4>1, <4>2 DEF InputArrived
      <4>5. ASSUME NEW r, In(r, net')
            PROVE  r # input' /\ ~In(r, merged'[input'])
        <5>1. In(r, net)
          BY <1>2, <4>5
        <5>2. ~In(r, merged[Head(net)])
          BY <4>2, <5>1 DEF Places, NetApart
        <5>3. merged'[Head(net)] = merged[Head(net)]
          BY <2>8, <4>2
        <5> QED BY <4>1, <4>3, <4>5, <5>2, <5>3
      <4> QED BY <4>4, <4>5 DEF InputApart
    <3>3. CASE ~Pops /\ FedBack = Rest
      <4>1. input' = Rest
        BY <1>1, <3>3 DEF Feed
      <4>2. InputArrived'
        BY <1>1, <2>3, <2>4, <4>1 DEF InputArrived
      <4>3. merged'[Rest] = Tail(m)
        BY <2>1, <2>2 DEF Opened
      <4>4. InputApart'
        BY <1>2, <2>3, <2>5, <4>1, <4>3 DEF InputApart
      <4> QED BY <4>2, <4>4
    <3>4. CASE ~Pops /\ FedBack = None
      <4>1. input' = None
        BY <1>1, <3>4 DEF Feed
      <4> QED BY <4>1 DEF InputArrived, InputApart
    <3> QED BY <3>1, <3>2, <3>3, <3>4
  <2> QED BY <1>2, <1>4, <2>6, <2>7, <2>9, <2>10 DEF Places
<1> QED BY <1>1, <1>5, <1>6, UnpackCases

LEMMA PlacesDecompress ==
  ASSUME TypeOK, Places, NEW room \in BOOLEAN, DecompressCycle(room)
  PROVE  Places'
<1>1. mode # "bypass" /\ UNCHANGED <<stages, mode, sent>>
  BY DEF DecompressCycle, Bypass, config
<1>2. CASE Phase1(room)
  <2>1. Runs
    BY <1>1, <1>2 DEF Phase1, Runs
  <2> QED BY <1>1, <2>1, PlacesRuns
<1>3. CASE UNCHANGED <<net, merged, input, stage, cnt>>
  <2>1. SentOnce' /\ NetArrived' /\ InputArrived' /\ MergedArrived'
    BY <1>1, <1>3
       DEF Places, SentOnce, NetArrived, InputArrived, MergedArrived
  <2>2. NetOnce' /\ NetApart' /\ InputApart' /\ NothingMerged' /\ BypassEmpty'
    BY <1>1, <1>3
       DEF Places, NetOnce, NetApart, InputApart, NothingMerged, BypassEmpty
  <2> QED BY <2>1, <2>2 DEF Places
<1> QED BY <1>2, <1>3 DEF DecompressCycle

LEMMA PlacesStep ==
  ASSUME MergedDepths \subseteq {1}
  PROVE  TypeOK /\ Places /\ [Next]_vars => Places'
<1> SUFFICES ASSUME TypeOK, Places, [Next]_vars PROVE Places'
  OBVIOUS
<1>1. CASE Arrive
  BY <1>1, PlacesArrive
<1>2. CASE SwitchCache \/ UNCHANGED vars
  <2>1. UNCHANGED <<stages, mode, net, merged, input, stage, buf, sent>>
    BY <1>2 DEF SwitchCache, vars, config
  <2>2. SentOnce' /\ NetArrived' /\ InputArrived' /\ MergedArrived'
    BY <2>1 DEF Places, SentOnce, NetArrived, InputArrived, MergedArrived
  <2>3. NetOnce' /\ NetApart' /\ InputApart' /\ NothingMerged' /\ BypassEmpty'
    BY <2>1 DEF Places, NetOnce, NetApart, InputApart, NothingMerged, BypassEmpty
  <2> QED BY <2>2, <2>3 DEF Places
<1>3. ASSUME NEW room \in BOOLEAN, BypassCycle(room) PROVE Places'
  BY <1>3, PlacesBypass
<1>4. ASSUME NEW room \in BOOLEAN, DecompressCycle(room) PROVE Places'
  BY <1>4, PlacesDecompress
<1> QED BY <1>1, <1>2, <1>3, <1>4 DEF Next, IcntCycle

-----------------------------------------------------------------------------
(* The queues of a cluster as one sequence. *)

\* InNet and InStages over any net, packets and registers.
Bodies(n, mg) == [i \in 1 .. Len(n) |-> <<n[i]>> \o mg[n[i]]]

Registers(s, n) == [i \in 1 .. n |-> Lone(s[n + 1 - i])]

LEMMA BodiesType ==
  ASSUME NEW n \in Seq(Replies), NEW mg \in [Replies -> Seq(Replies)]
  PROVE  Bodies(n, mg) \in Seq(Seq(Replies)) /\ Len(Bodies(n, mg)) = Len(n)
<1>1. Len(n) \in Nat
  OBVIOUS
<1>2. ASSUME NEW i \in 1 .. Len(n) PROVE <<n[i]>> \o mg[n[i]] \in Seq(Replies)
  <2>1. n[i] \in Replies
    BY ElementOfSeq
  <2>2. <<n[i]>> \in Seq(Replies) /\ mg[n[i]] \in Seq(Replies)
    BY <2>1
  <2> QED BY <2>2, ConcatProperties
<1> QED BY <1>1, <1>2 DEF Bodies

LEMMA BodiesAppend ==
  ASSUME NEW n \in Seq(Replies), NEW mg \in [Replies -> Seq(Replies)],
         NEW x \in Replies
  PROVE  Bodies(Append(n, x), mg) = Append(Bodies(n, mg), <<x>> \o mg[x])
<1>1. PICK b : b = Bodies(n, mg)
  OBVIOUS
<1>2. PICK c : c = Bodies(Append(n, x), mg)
  OBVIOUS
<1>3. PICK y : y = <<x>> \o mg[x]
  OBVIOUS
<1>4. b \in Seq(Seq(Replies)) /\ Len(b) = Len(n) /\ Len(n) \in Nat
  BY <1>1, BodiesType, LenProperties
<1>5. /\ Append(n, x) \in Seq(Replies) /\ Len(Append(n, x)) = Len(n) + 1
      /\ \A i \in 1 .. Len(n) : Append(n, x)[i] = n[i]
      /\ Append(n, x)[Len(n) + 1] = x
  BY AppendProperties
<1>6. c \in Seq(Seq(Replies)) /\ Len(c) = Len(n) + 1
  BY <1>2, <1>5, BodiesType
<1>7. y \in Seq(Replies)
  <2>1. <<x>> \in Seq(Replies) /\ mg[x] \in Seq(Replies)
    OBVIOUS
  <2> QED BY <1>3, <2>1, ConcatProperties
<1>8. /\ Append(b, y) \in Seq(Seq(Replies)) /\ Len(Append(b, y)) = Len(n) + 1
      /\ \A i \in 1 .. Len(n) : Append(b, y)[i] = b[i]
      /\ Append(b, y)[Len(n) + 1] = y
  BY <1>4, <1>7, AppendProperties
<1>9. ASSUME NEW i \in 1 .. Len(n) + 1 PROVE c[i] = Append(b, y)[i]
  <2>1. c[i] = <<Append(n, x)[i]>> \o mg[Append(n, x)[i]]
    BY <1>2, <1>5 DEF Bodies
  <2>2. CASE i = Len(n) + 1
    BY <1>3, <1>5, <1>8, <2>1, <2>2
  <2>3. CASE i # Len(n) + 1
    <3>1. i \in 1 .. Len(n)
      BY <1>4, <2>3
    <3>2. b[i] = <<n[i]>> \o mg[n[i]]
      BY <1>1, <3>1 DEF Bodies
    <3> QED BY <1>5, <1>8, <2>1, <3>1, <3>2
  <2> QED BY <2>2, <2>3
<1>10. c = Append(b, y)
  BY <1>6, <1>8, <1>9, SeqEqual
<1> QED BY <1>1, <1>2, <1>3, <1>10

LEMMA BodiesTail ==
  ASSUME NEW n \in Seq(Replies), NEW mg \in [Replies -> Seq(Replies)], n # <<>>
  PROVE  /\ Bodies(n, mg) # <<>>
         /\ Head(Bodies(n, mg)) = <<Head(n)>> \o mg[Head(n)]
         /\ Tail(Bodies(n, mg)) = Bodies(Tail(n), mg)
<1>1. PICK b : b = Bodies(n, mg)
  OBVIOUS
<1>2. PICK c : c = Bodies(Tail(n), mg)
  OBVIOUS
<1>3. /\ Tail(n) \in Seq(Replies) /\ Len(Tail(n)) = Len(n) - 1
      /\ Len(n) \in Nat \ {0} /\ Head(n) = n[1]
      /\ \A i \in 1 .. Len(Tail(n)) : Tail(n)[i] = n[i + 1]
  BY HeadTailProperties
<1>4. b \in Seq(Seq(Replies)) /\ Len(b) = Len(n) /\ b # <<>>
  BY <1>1, <1>3, BodiesType
<1>5. c \in Seq(Seq(Replies)) /\ Len(c) = Len(n) - 1
  BY <1>2, <1>3, BodiesType
<1>6. /\ Tail(b) \in Seq(Seq(Replies)) /\ Len(Tail(b)) = Len(n) - 1
      /\ Head(b) = b[1]
      /\ \A i \in 1 .. Len(Tail(b)) : Tail(b)[i] = b[i + 1]
  BY <1>4, HeadTailProperties
<1>7. \A i \in 1 .. Len(n) : b[i] = <<n[i]>> \o mg[n[i]]
  BY <1>1 DEF Bodies
<1>8. ASSUME NEW i \in 1 .. Len(n) - 1 PROVE c[i] = Tail(b)[i]
  <2>1. c[i] = <<Tail(n)[i]>> \o mg[Tail(n)[i]]
    BY <1>2, <1>3 DEF Bodies
  <2>2. i + 1 \in 1 .. Len(n)
    BY <1>3
  <2>3. Tail(b)[i] = b[i + 1] /\ Tail(n)[i] = n[i + 1]
    BY <1>3, <1>6
  <2> QED BY <1>7, <2>1, <2>2, <2>3
<1>9. Tail(b) = c
  BY <1>5, <1>6, <1>8, SeqEqual
<1>10. b[1] = <<n[1]>> \o mg[n[1]]
  BY <1>3, <1>7
<1> QED BY <1>1, <1>2, <1>3, <1>4, <1>6, <1>9, <1>10

LEMMA BodiesSame ==
  ASSUME NEW n, NEW mg, NEW mh, \A r : In(r, n) => mg[r] = mh[r]
  PROVE  Bodies(n, mg) = Bodies(n, mh)
<1>1. \A i \in 1 .. Len(n) : mg[n[i]] = mh[n[i]]
  BY DEF In
<1> QED BY <1>1 DEF Bodies

LEMMA RegistersType ==
  ASSUME NEW n \in Nat, NEW s \in [1 .. n -> Replies \cup {None}]
  PROVE  /\ Registers(s, n) \in Seq(Seq(Replies))
         /\ Len(Registers(s, n)) = n
<1>1. \A x \in Replies \cup {None} : Lone(x) \in Seq(Replies)
  BY DEF Lone
<1>2. ASSUME NEW i \in 1 .. n PROVE Lone(s[n + 1 - i]) \in Seq(Replies)
  <2>1. n + 1 - i \in 1 .. n
    OBVIOUS
  <2> QED BY <1>1, <2>1
<1> QED BY <1>2 DEF Registers

\* Moving on by one stage keeps the replies in order.
LEMMA ShiftKeeps ==
  ASSUME NEW n \in Nat, NEW s \in [1 .. n -> Replies \cup {None}],
         NEW t \in [1 .. n -> Replies \cup {None}],
         NEW x \in Replies \cup {None}, NEW y \in Replies \cup {None},
         ShiftHyp(n, s, t, x, y)
  PROVE  FlattenSeq(Registers(s, n)) \o Lone(x)
           = Lone(y) \o FlattenSeq(Registers(t, n))
<1>1. PICK R : R = Registers(s, n)
  OBVIOUS
<1>2. PICK Q : Q = Registers(t, n)
  OBVIOUS
<1>3. R \in Seq(Seq(Replies)) /\ Len(R) = n /\ Q \in Seq(Seq(Replies)) /\ Len(Q) = n
  BY <1>1, <1>2, RegistersType
<1>4. Lone(x) \in Seq(Replies) /\ Lone(y) \in Seq(Replies)
  BY DEF Lone
<1>5. CASE n = 0
  <2>1. R = <<>> /\ Q = <<>>
    BY <1>3, <1>5, EmptySeq
  <2>2. x = y
    BY <1>5 DEF ShiftHyp
  <2>3. <<>> \o Lone(x) = Lone(x) /\ Lone(x) \o <<>> = Lone(x)
    BY <1>4, ConcatEmptySeq
  <2> QED BY <1>1, <1>2, <2>1, <2>2, <2>3, FlattenEmpty
<1>6. CASE n # 0
  <2>1. R # <<>> /\ n \in 1 .. n /\ 1 \in 1 .. n
    BY <1>3, <1>6
  <2>2. /\ Tail(R) \in Seq(Seq(Replies)) /\ Len(Tail(R)) = n - 1
        /\ Head(R) = R[1]
        /\ \A i \in 1 .. Len(Tail(R)) : Tail(R)[i] = R[i + 1]
    BY <1>3, <2>1, HeadTailProperties
  <2>3. /\ Append(Tail(R), Lone(x)) \in Seq(Seq(Replies))
        /\ Len(Append(Tail(R), Lone(x))) = (n - 1) + 1
        /\ \A i \in 1 .. n - 1 : Append(Tail(R), Lone(x))[i] = Tail(R)[i]
        /\ Append(Tail(R), Lone(x))[(n - 1) + 1] = Lone(x)
    BY <1>4, <2>2, AppendProperties
  <2>4. (n - 1) + 1 = n
    OBVIOUS
  <2>5. ASSUME NEW i \in 1 .. n PROVE Q[i] = Append(Tail(R), Lone(x))[i]
    <3>1. n + 1 - i \in 1 .. n
      OBVIOUS
    <3>2. Q[i] = Lone(t[n + 1 - i])
      BY <1>2 DEF Registers
    <3>3. t[n + 1 - i] = IF n + 1 - i = 1 THEN x ELSE s[(n + 1 - i) - 1]
      BY <3>1 DEF ShiftHyp
    <3>4. CASE i = n
      <4>1. n + 1 - i = 1
        BY <3>4
      <4> QED BY <2>3, <2>4, <3>2, <3>3, <3>4, <4>1
    <3>5. CASE i # n
      <4>1. i \in 1 .. n - 1 /\ i + 1 \in 1 .. n /\ n + 1 - i # 1
            /\ (n + 1 - i) - 1 = n + 1 - (i + 1)
        BY <3>5
      <4>2. R[i + 1] = Lone(s[n + 1 - (i + 1)])
        BY <1>1, <4>1 DEF Registers
      <4>3. Q[i] = R[i + 1]
        BY <3>2, <3>3, <4>1, <4>2
      <4>4. Append(Tail(R), Lone(x))[i] = R[i + 1]
        BY <2>2, <2>3, <4>1
      <4> QED BY <4>3, <4>4
    <3> QED BY <3>4, <3>5
  <2>6. Q = Append(Tail(R), Lone(x))
    BY <1>3, <2>3, <2>4, <2>5, SeqEqual
  <2>7. Head(R) = Lone(y)
    <3>1. R[1] = Lone(s[n + 1 - 1])
      BY <1>1, <2>1 DEF Registers
    <3>2. n + 1 - 1 = n /\ y = s[n]
      BY <1>6 DEF ShiftHyp
    <3> QED BY <2>2, <3>1, <3>2
  <2>8. PICK f : f = FlattenSeq(Tail(R))
    OBVIOUS
  <2>9. f \in Seq(Replies)
    BY <2>2, <2>8, FlattenType
  <2>10. FlattenSeq(R) = Lone(y) \o f
    BY <1>3, <2>1, <2>7, <2>8, FlattenHead
  <2>11. FlattenSeq(Q) = f \o Lone(x)
    BY <1>4, <2>2, <2>6, <2>8, FlattenAppend
  <2>12. Regroups(Lone(y), f, Lone(x))
    BY <1>4, <2>9, Regroup
  <2> QED BY <1>1, <1>2, <2>10, <2>11, <2>12 DEF Regroups
<1> QED BY <1>5, <1>6

-----------------------------------------------------------------------------
(* What a step does to the replies owed. *)

LEMMA Unfold ==
  ASSUME NEW S, NEW s \in Seq(S), s # <<>>
  PROVE  <<Head(s)>> \o Tail(s) = s
OBVIOUS

LEMMA NetForm ==
  ASSUME NEW n \in Seq(Replies), NEW mg
  PROVE  [i \in 1 .. Len(n) |-> IF n[i] = None THEN <<>>
                                ELSE <<n[i]>> \o mg[n[i]]] = Bodies(n, mg)
<1>1. \A i \in 1 .. Len(n) : n[i] # None
  BY ElementOfSeq, SizesType
<1> QED BY <1>1 DEF Bodies

LEMMA StagesForm ==
  ASSUME NEW d \in Nat \ {0}, NEW s
  PROVE  [i \in 1 .. d - 1 |-> Lone(s[d - i])] = Registers(s, d - 1)
<1>1. \A i \in 1 .. d - 1 : (d - 1) + 1 - i = d - i
  OBVIOUS
<1> QED BY <1>1 DEF Registers

LEMMA Forms ==
  ASSUME TypeOK
  PROVE  /\ InNet = FlattenSeq(Bodies(net, merged))
         /\ InStages = FlattenSeq(Registers(stage, stages - 1))
         /\ InNet \in Seq(Replies) /\ InStages \in Seq(Replies)
         /\ Packet(input) \in Seq(Replies) /\ Lone(input) \in Seq(Replies)
         /\ stages - 1 \in Nat /\ stages \in Nat \ {0}
<1>1. stages \in Nat \ {0} /\ stages - 1 \in Nat
  <2>1. stages \in Nat \ {0}
    BY SizesType DEF TypeOK
  <2> QED BY <2>1
<1>2. /\ net \in Seq(Replies) /\ merged \in [Replies -> Seq(Replies)]
      /\ stage \in [1 .. stages - 1 -> Replies \cup {None}]
      /\ input \in Replies \cup {None}
  BY DEF TypeOK
<1>3. InNet = FlattenSeq(Bodies(net, merged))
  BY <1>2, NetForm DEF InNet, Packet
<1>4. InStages = FlattenSeq(Registers(stage, stages - 1))
  BY <1>1, StagesForm DEF InStages
<1>5. InNet \in Seq(Replies)
  BY <1>2, <1>3, BodiesType, FlattenType
<1>6. InStages \in Seq(Replies)
  BY <1>1, <1>2, <1>4, RegistersType, FlattenType
<1>7. Packet(input) \in Seq(Replies) /\ Lone(input) \in Seq(Replies)
  <2>1. CASE input = None
    BY <2>1 DEF Packet, Lone
  <2>2. CASE input # None
    <3>1. <<input>> \in Seq(Replies) /\ merged[input] \in Seq(Replies)
      BY <1>2, <2>2
    <3> QED BY <2>2, <3>1, ConcatProperties DEF Packet, Lone
  <2> QED BY <2>1, <2>2
<1> QED BY <1>1, <1>3, <1>4, <1>5, <1>6, <1>7

\* The same of the next state.
LEMMA FormsNext ==
  ASSUME TypeOK'
  PROVE  /\ InNet' = FlattenSeq(Bodies(net', merged'))
         /\ InStages' = FlattenSeq(Registers(stage', stages' - 1))
         /\ InNet' \in Seq(Replies) /\ InStages' \in Seq(Replies)
         /\ Packet(input)' \in Seq(Replies)
<1>1. stages' \in Nat \ {0} /\ stages' - 1 \in Nat
  <2>1. PICK d : d = stages'
    OBVIOUS
  <2>2. d \in Nat \ {0}
    BY <2>1, SizesType DEF TypeOK
  <2>3. d - 1 \in Nat
    BY <2>2
  <2> QED BY <2>1, <2>2, <2>3
<1>2. /\ net' \in Seq(Replies) /\ merged' \in [Replies -> Seq(Replies)]
      /\ stage' \in [1 .. stages' - 1 -> Replies \cup {None}]
      /\ input' \in Replies \cup {None}
  BY DEF TypeOK
<1>3. InNet' = FlattenSeq(Bodies(net', merged'))
  BY <1>2, NetForm DEF InNet, Packet
<1>4. InStages' = FlattenSeq(Registers(stage', stages' - 1))
  BY <1>1, StagesForm DEF InStages
<1>5. InNet' \in Seq(Replies)
  BY <1>2, <1>3, BodiesType, FlattenType
<1>6. InStages' \in Seq(Replies)
  BY <1>1, <1>2, <1>4, RegistersType, FlattenType
<1>7. Packet(input)' \in Seq(Replies)
  <2>1. CASE input' = None
    BY <2>1 DEF Packet
  <2>2. CASE input' # None
    <3>1. <<input'>> \in Seq(Replies) /\ merged'[input'] \in Seq(Replies)
      BY <1>2, <2>2
    <3> QED BY <2>2, <3>1, ConcatProperties DEF Packet
  <2> QED BY <2>1, <2>2
<1> QED BY <1>3, <1>4, <1>5, <1>6, <1>7

\* What is owed when f is left of the FIFO.
Left(f) == f \o buf \o InUnit \o InNet

LEMMA LeftType ==
  ASSUME TypeOK, NEW f \in Seq(Replies)
  PROVE  /\ Left(f) \in Seq(Replies) /\ f \o buf \in Seq(Replies)
         /\ InUnit \in Seq(Replies) /\ InNet \in Seq(Replies)
<1>1. buf \in Seq(Replies)
  BY DEF TypeOK
<1>2. InNet \in Seq(Replies)
  BY Forms
<1>3. InUnit \in Seq(Replies)
  BY Forms, ConcatProperties DEF InUnit
<1>4. f \o buf \in Seq(Replies)
  BY <1>1, ConcatProperties
<1>5. (f \o buf) \o InUnit \in Seq(Replies)
  BY <1>3, <1>4, ConcatProperties
<1>6. Left(f) \in Seq(Replies)
  BY <1>2, <1>5, ConcatProperties DEF Left
<1> QED BY <1>2, <1>3, <1>4, <1>6

\* Arriving replies are owed last.
LEMMA ArriveOwed ==
  ASSUME TypeOK, TypeOK', Places, Arrive, MergedDepths \subseteq {1}
  PROVE  \E p : NewPacket(p) /\ Owed' = Owed \o p /\ UNCHANGED taken
<1>1. UNCHANGED <<config, input, stage, cnt, buf, fifo, cacheOn, taken>>
  BY ArriveIsNew
<1>2. PICK p : NewPacket(p)
  BY ArriveIsNew
<1>3. /\ p \in Seq(Replies) /\ p # <<>> /\ net' = Append(net, Head(p))
      /\ merged' = [merged EXCEPT ![Head(p)] = Tail(p)]
      /\ \A r : ~(In(r, sent) /\ In(r, p))
  BY <1>2 DEF NewPacket
<1>4. /\ net \in Seq(Replies) /\ merged \in [Replies -> Seq(Replies)]
      /\ merged' \in [Replies -> Seq(Replies)] /\ fifo \in Seq(Replies)
  BY DEF TypeOK
<1>5. Head(p) \in Replies /\ ~In(Head(p), sent)
  BY <1>3, HeadTailProperties, InTail
<1>6. \A r \in Replies : r # Head(p) => merged'[r] = merged[r]
  BY <1>3, <1>4
<1>7. Bodies(net, merged') = Bodies(net, merged)
  <2> SUFFICES ASSUME NEW r, In(r, net) PROVE merged[r] = merged'[r]
    BY BodiesSame
  <2>1. r \in Replies
    BY <1>4 DEF In
  <2>2. In(r, sent)
    BY DEF Places, NetArrived
  <2> QED BY <1>5, <1>6, <2>1, <2>2
<1>8. <<Head(p)>> \o merged'[Head(p)] = p
  <2>1. merged'[Head(p)] = Tail(p)
    BY <1>3, <1>4, <1>5
  <2>2. <<Head(p)>> \o Tail(p) = p
    BY <1>3, Unfold
  <2> QED BY <2>1, <2>2
<1>9. InNet' = InNet \o p
  <2>1. Bodies(net', merged') = Append(Bodies(net, merged), p)
    <3>1. PICK x \in Replies : x = Head(p)
      BY <1>5
    <3>2. PICK mg \in [Replies -> Seq(Replies)] : mg = merged'
      BY <1>4
    <3>3. Bodies(Append(net, x), mg) = Append(Bodies(net, mg), <<x>> \o mg[x])
      BY <1>4, BodiesAppend
    <3> QED BY <1>3, <1>7, <1>8, <3>1, <3>2, <3>3
  <2>2. Bodies(net, merged) \in Seq(Seq(Replies))
    BY <1>4, BodiesType
  <2>3. FlattenSeq(Append(Bodies(net, merged), p))
          = FlattenSeq(Bodies(net, merged)) \o p
    BY <1>3, <2>2, FlattenAppend
  <2> QED BY <2>1, <2>3, Forms, FormsNext
<1>10. InUnit' = InUnit
  <2>1. InStages' = InStages
    BY <1>1 DEF InStages, config
  <2>2. CASE input = None
    BY <1>1, <2>1, <2>2 DEF InUnit, Packet
  <2>3. CASE input # None
    <3>1. input \in Replies /\ In(input, sent)
      BY <2>3 DEF TypeOK, Places, InputArrived
    <3>2. merged'[input] = merged[input]
      BY <1>5, <1>6, <3>1
    <3> QED BY <1>1, <2>1, <3>2 DEF InUnit, Packet
  <2> QED BY <2>2, <2>3
<1>11. Owed' = Owed \o p
  <2>1. PICK a : a = fifo \o buf \o InUnit
    OBVIOUS
  <2>2. a \in Seq(Replies) /\ InNet \in Seq(Replies)
    BY <1>4, <2>1, LeftType, ConcatProperties
  <2>3. Regroups(a, InNet, p)
    BY <1>3, <2>2, Regroup
  <2> QED BY <1>1, <1>9, <1>10, <2>1, <2>3 DEF Owed, Regroups
<1> QED BY <1>1, <1>2, <1>11

\* A core takes the first of the FIFO, or nothing is taken.
Accepted(a, f) ==
  /\ f \in Seq(Replies) /\ fifo = a \o f /\ a \in Seq(Replies)
  /\ \/ a = <<>> /\ taken' = taken
     \/ fifo # <<>> /\ a = <<Head(fifo)>> /\ taken' = Append(taken, Head(fifo))

LEMMA AcceptCases ==
  ASSUME TypeOK, NEW room \in BOOLEAN, Accept(room)
  PROVE  \E a : Accepted(a, AfterAccept(room))
<1>1. fifo \in Seq(Replies)
  BY DEF TypeOK
<1>2. CASE room /\ fifo # <<>>
  <2>1. AfterAccept(room) = Tail(fifo) /\ taken' = Append(taken, Head(fifo))
    BY <1>2 DEF AfterAccept, Accept
  <2>2. Head(fifo) \in Replies /\ Tail(fifo) \in Seq(Replies)
    BY <1>1, <1>2, HeadTailProperties
  <2>3. fifo = <<Head(fifo)>> \o Tail(fifo) /\ <<Head(fifo)>> \in Seq(Replies)
    BY <1>1, <1>2, <2>2
  <2> QED BY <1>2, <2>1, <2>2, <2>3 DEF Accepted
<1>3. CASE ~(room /\ fifo # <<>>)
  <2>1. AfterAccept(room) = fifo /\ taken' = taken
    BY <1>3 DEF AfterAccept, Accept
  <2>2. <<>> \o fifo = fifo /\ <<>> \in Seq(Replies)
    BY <1>1, ConcatEmptySeq
  <2> QED BY <1>1, <2>1, <2>2 DEF Accepted
<1> QED BY <1>2, <1>3

Blank(s) == \A i \in 1 .. Len(s) : s[i] = <<>>

LEMMA FlattenBlanks ==
  ASSUME NEW S, NEW s \in Seq(Seq(S)), Blank(s)
  PROVE  FlattenSeq(s) = <<>>
<1> SUFFICES ASSUME FlattenSeq(s) # <<>> PROVE FALSE
  OBVIOUS
<1>1. PICK B : B = {t \in Seq(Seq(S)) : Blank(t) /\ FlattenSeq(t) # <<>>}
  OBVIOUS
<1>2. PICK t \in B : \A u \in B : Len(t) <= Len(u)
  BY <1>1, ShortestSeq
<1>3. t \in Seq(Seq(S)) /\ Blank(t) /\ FlattenSeq(t) # <<>>
  BY <1>1
<1>4. t # <<>>
  BY <1>3, FlattenEmpty
<1>5. PICK u \in Seq(Seq(S)), x \in Seq(S) : t = Append(u, x)
  BY <1>3, <1>4, SequenceEmptyOrAppend
<1>6. /\ Len(t) = Len(u) + 1 /\ t[Len(u) + 1] = x /\ Len(u) \in Nat
      /\ \A i \in 1 .. Len(u) : t[i] = u[i]
  BY <1>5, AppendProperties
<1>7. x = <<>> /\ Blank(u)
  <2>1. Len(u) + 1 \in 1 .. Len(t) /\ \A i \in 1 .. Len(u) : i \in 1 .. Len(t)
    BY <1>6
  <2> QED BY <1>3, <1>6, <2>1 DEF Blank
<1>8. ~(Len(t) <= Len(u))
  BY <1>6
<1>9. FlattenSeq(u) = <<>>
  <2>1. u \notin B
    BY <1>2, <1>8
  <2> QED BY <1>1, <1>7, <2>1
<1>10. FlattenSeq(t) = FlattenSeq(u) \o x
  BY <1>5, FlattenAppend
<1>11. <<>> \o <<>> = <<>>
  OBVIOUS
<1> QED BY <1>3, <1>7, <1>9, <1>10, <1>11

\* The unit is flushed when replies go past it.
LEMMA BypassFlushed ==
  ASSUME TypeOK, Places, CountsPending, Bypass
  PROVE  buf = <<>> /\ InUnit = <<>>
<1>1. stages - 1 \in Nat
  BY Forms
<1>2. /\ DOMAIN stage = 1 .. stages - 1
      /\ stage \in [1 .. stages - 1 -> Replies \cup {None}]
  BY DEF TypeOK
<1>3. buf = <<>> /\ input = None /\ \A i \in 1 .. stages - 1 : stage[i] = None
  <2>1. CASE mode = "bypass"
    BY <2>1 DEF Places, BypassEmpty
  <2>2. CASE CacheMode /\ cnt <= 0 /\ buf = <<>>
    <3>1. PICK o : o = Occupied(stage)
      OBVIOUS
    <3>2. IsFiniteSet(o) /\ Cardinality(o) \in Nat
      BY <1>1, <1>2, <3>1, OccupiedFinite
    <3>3. cnt = Cardinality(o) + One(input # None)
      BY <3>1 DEF CountsPending, Occupied
    <3>4. One(input # None) = 0 /\ Cardinality(o) = 0
      <4>1. One(input # None) \in {0, 1}
        BY DEF One
      <4> QED BY <2>2, <3>2, <3>3, <4>1
    <3>5. o = {}
      BY <3>2, <3>4, FS_EmptySet
    <3>6. input = None
      BY <3>4 DEF One
    <3> QED BY <1>2, <2>2, <3>1, <3>5, <3>6 DEF Occupied
  <2> QED BY <2>1, <2>2 DEF Bypass
<1>4. InUnit = InStages \o <<>>
  BY <1>3 DEF InUnit, Packet
<1>5. InStages = <<>>
  <2>1. PICK r : r = Registers(stage, stages - 1)
    OBVIOUS
  <2>2. r \in Seq(Seq(Replies)) /\ Len(r) = stages - 1
    BY <1>1, <1>2, <2>1, RegistersType
  <2>3. ASSUME NEW i \in 1 .. Len(r) PROVE r[i] = <<>>
    <3>1. PICK k : k = (stages - 1) + 1 - i
      OBVIOUS
    <3>2. k \in 1 .. stages - 1
      BY <1>1, <2>2, <3>1
    <3>3. r[i] = Lone(stage[k])
      BY <2>1, <2>2, <3>1 DEF Registers
    <3> QED BY <1>3, <3>2, <3>3 DEF Lone
  <2> QED BY <2>1, <2>2, <2>3, Forms, FlattenBlanks DEF Blank
<1> QED BY <1>3, <1>4, <1>5, Forms, ConcatEmptySeq

LEMMA BypassOwed ==
  ASSUME TypeOK, TypeOK', Places, CountsPending,
         NEW room \in BOOLEAN, BypassCycle(room)
  PROVE  Owed' = Left(AfterAccept(room))
<1>1. PICK f : f = AfterAccept(room)
  OBVIOUS
<1>2. f \in Seq(Replies)
  BY <1>1, AcceptType
<1>3. UNCHANGED <<config, merged, input, stage, cnt, buf, cacheOn, sent>>
  BY DEF BypassCycle
<1>4. InUnit' = InUnit
  BY <1>3 DEF InUnit, InStages, Packet, config
<1>5. CASE Len(f) < EjectSize /\ net # <<>>
  <2>1. /\ fifo' = f \o <<Head(net)>> \o merged[Head(net)]
        /\ net' = Tail(net)
    BY <1>1, <1>5 DEF BypassCycle
  <2>2. buf = <<>> /\ InUnit = <<>>
    BY BypassFlushed DEF BypassCycle
  <2>3. /\ net \in Seq(Replies) /\ merged \in [Replies -> Seq(Replies)]
    BY DEF TypeOK
  <2>4. PICK h : h = <<Head(net)>>
    OBVIOUS
  <2>5. PICK m : m = merged[Head(net)]
    OBVIOUS
  <2>6. h \in Seq(Replies) /\ m \in Seq(Replies)
    <3>1. Head(net) \in Replies
      BY <1>5, <2>3, HeadTailProperties
    <3> QED BY <2>3, <2>4, <2>5, <3>1
  <2>7. InNet = (h \o m) \o InNet'
    <3>1. PICK b : b = Bodies(net, merged)
      OBVIOUS
    <3>2. /\ b \in Seq(Seq(Replies)) /\ b # <<>> /\ Head(b) = h \o m
          /\ Tail(b) = Bodies(Tail(net), merged)
      BY <1>5, <2>3, <2>4, <2>5, <3>1, BodiesType, BodiesTail
    <3>3. FlattenSeq(b) = Head(b) \o FlattenSeq(Tail(b))
      BY <3>2, FlattenHead
    <3>4. InNet = FlattenSeq(b)
      BY <3>1, Forms
    <3>5. InNet' = FlattenSeq(Tail(b))
      BY <1>3, <2>1, <3>2, FormsNext
    <3> QED BY <3>2, <3>3, <3>4, <3>5
  <2>8. PICK n : n = InNet'
    OBVIOUS
  <2>9. n \in Seq(Replies)
    BY <2>8, FormsNext
  <2>10. ((f \o h) \o m) \o n = f \o ((h \o m) \o n)
    <3>1. Regroups(f, h, m)
      BY <1>2, <2>6, Regroup
    <3>2. h \o m \in Seq(Replies)
      BY <2>6, ConcatProperties
    <3>3. Regroups(f, h \o m, n)
      BY <1>2, <2>9, <3>2, Regroup
    <3> QED BY <3>1, <3>3, Zenon DEF Regroups
  <2>11. f \o <<>> = f
    BY <1>2, ConcatEmptySeq
  <2>12. /\ fifo' = (f \o h) \o m /\ fifo' \in Seq(Replies)
    BY <2>1, <2>4, <2>5 DEF TypeOK
  <2>13. fifo' \o <<>> = fifo'
    BY <2>12, ConcatEmptySeq
  <2>14. Left(f) = f \o InNet
    BY <2>2, <2>11 DEF Left
  <2>15. Owed' = fifo' \o InNet'
    BY <1>3, <1>4, <2>2, <2>13 DEF Owed
  <2> QED BY <1>1, <2>7, <2>8, <2>10, <2>12, <2>14, <2>15
<1>6. CASE ~(Len(f) < EjectSize /\ net # <<>>)
  <2>1. fifo' = f /\ net' = net
    BY <1>1, <1>6 DEF BypassCycle
  <2>2. InNet' = InNet
    BY <1>3, <2>1 DEF InNet, Packet
  <2> QED BY <1>1, <1>3, <1>4, <2>1, <2>2 DEF Owed, Left
<1> QED BY <1>5, <1>6

-----------------------------------------------------------------------------
(* A cycle of the unit. *)

\* What the first stage hands back of a packet, when it hands anything back.
HandedBack == IF FedBack = None THEN <<>> ELSE merged[input]

LEMMA FedIsRest ==
  ASSUME TypeOK, Places
  PROVE  /\ FedBack = Rest
         /\ stages # 1 => Rest = None
         /\ input # None /\ Rest = None => merged[input] = <<>>
         /\ HandedBack \in Seq(Replies)
<1>1. stages # 1 => Rest = None
  <2> SUFFICES ASSUME stages # 1 PROVE Rest = None
    OBVIOUS
  <2>1. input # None => merged[input] = <<>>
    BY DEF TypeOK, Places, NothingMerged
  <2> QED BY <2>1 DEF Rest
<1>2. input # None /\ merged[input] # <<>> => Rest # None
  <2> SUFFICES ASSUME input # None, merged[input] # <<>> PROVE Rest # None
    OBVIOUS
  <2>1. input \in Replies /\ merged[input] \in Seq(Replies)
    BY DEF TypeOK
  <2>2. Head(merged[input]) \in Replies
    BY <2>1, HeadTailProperties
  <2>3. Rest = Head(merged[input])
    BY DEF Rest
  <2> QED BY <2>2, <2>3, SizesType
<1>3. FedBack = Rest
  <2>1. CASE stages = 1
    BY <2>1 DEF FedBack, Output, Rest
  <2>2. CASE stages # 1
    BY <1>1, <2>2 DEF FedBack
  <2> QED BY <2>1, <2>2
<1>4. HandedBack \in Seq(Replies)
  <2>1. CASE FedBack = None
    BY <2>1 DEF HandedBack
  <2>2. CASE FedBack # None
    <3>1. merged[input] \in Seq(Replies)
      BY <1>3, <2>2, UnitType
    <3> QED BY <2>2, <3>1 DEF HandedBack
  <2> QED BY <2>1, <2>2
<1> QED BY <1>1, <1>2, <1>3, <1>4

\* One reply leaves the unit, in front of those that stay.
LEMMA ShiftOwed ==
  ASSUME TypeOK, TypeOK', Places, Runs
  PROVE  InUnit = (Lone(Output) \o InStages') \o HandedBack
<1>1. /\ stages - 1 \in Nat /\ stages \in Nat \ {0}
      /\ InStages = FlattenSeq(Registers(stage, stages - 1))
      /\ Lone(input) \in Seq(Replies)
  BY Forms
<1>2. stages' = stages /\ MoveStages
  BY DEF Runs
<1>3. InStages' = FlattenSeq(Registers(stage', stages - 1))
      /\ InStages' \in Seq(Replies)
  BY <1>2, FormsNext
<1>4. /\ stage \in [1 .. stages - 1 -> Replies \cup {None}]
      /\ stage' \in [1 .. stages - 1 -> Replies \cup {None}]
      /\ input \in Replies \cup {None} /\ Output \in Replies \cup {None}
  BY <1>2, UnitType DEF TypeOK
<1>5. ShiftHyp(stages - 1, stage, stage', input, Output)
  <2>1. PICK n : n = stages - 1
    OBVIOUS
  <2>2. n \in Nat /\ stages = n + 1
    BY <1>1, <2>1
  <2>3. Output = IF n = 0 THEN input ELSE stage[n]
    BY <2>1, <2>2 DEF Output
  <2>4. stage' = [i \in 1 .. n |-> IF i = 1 THEN input ELSE stage[i - 1]]
    BY <1>2, <2>1 DEF MoveStages
  <2> QED BY <1>4, <2>1, <2>2, <2>3, <2>4 DEF ShiftHyp
<1>6. InStages \o Lone(input) = Lone(Output) \o InStages'
  BY <1>1, <1>3, <1>4, <1>5, ShiftKeeps
<1>7. Packet(input) = Lone(input) \o HandedBack
  <2>1. CASE input = None
    <3>1. Packet(input) = <<>> /\ Lone(input) = <<>> /\ HandedBack = <<>>
      BY <2>1 DEF Packet, Lone, HandedBack, FedBack, Rest
    <3>2. <<>> \o <<>> = <<>>
      OBVIOUS
    <3> QED BY <3>1, <3>2
  <2>2. CASE input # None
    <3>1. HandedBack = merged[input]
      BY <2>2, FedIsRest DEF HandedBack
    <3> QED BY <2>2, <3>1 DEF Packet, Lone
  <2> QED BY <2>1, <2>2
<1>8. Regroups(InStages, Lone(input), HandedBack)
  BY <1>1, Forms, FedIsRest, Regroup
<1> QED BY <1>6, <1>7, <1>8 DEF InUnit, Regroups

\* What is handed back or popped enters the unit in front of the network.
LEMMA FeedOwed ==
  ASSUME Guarded, TypeOK, TypeOK', Places, Runs
  PROVE  Packet(input)' \o InNet' = HandedBack \o InNet
<1>1. Unpack /\ Feed
  BY DEF Runs
<1>2. /\ net \in Seq(Replies) /\ merged \in [Replies -> Seq(Replies)]
      /\ InNet = FlattenSeq(Bodies(net, merged)) /\ InNet \in Seq(Replies)
  BY Forms DEF TypeOK
<1>3. InNet' = FlattenSeq(Bodies(net', merged'))
  BY FormsNext
<1>4. FedBack = Rest
  BY FedIsRest
<1>5. <<>> \o InNet = InNet
  BY <1>2, ConcatEmptySeq
<1>6. CASE Pops
  <2>1. Rest = None /\ net # <<>> /\ input' = Head(net) /\ net' = Tail(net)
    BY <1>1, <1>4, <1>6 DEF Pops, Feed
  <2>2. merged' = merged /\ HandedBack = <<>>
    BY <1>1, <1>4, <2>1 DEF Unpack, HandedBack
  <2>3. PICK b : b = Bodies(net, merged)
    OBVIOUS
  <2>4. /\ b \in Seq(Seq(Replies)) /\ b # <<>>
        /\ Head(b) = <<Head(net)>> \o merged[Head(net)]
        /\ Tail(b) = Bodies(Tail(net), merged)
    BY <1>2, <2>1, <2>3, BodiesType, BodiesTail
  <2>5. FlattenSeq(b) = Head(b) \o FlattenSeq(Tail(b))
    BY <2>4, FlattenHead
  <2>6. Packet(input)' = Head(b)
    <3>1. Head(net) # None
      BY <1>2, <2>1, HeadTailProperties, SizesType
    <3> QED BY <2>1, <2>2, <2>4, <3>1 DEF Packet
  <2> QED BY <1>2, <1>3, <1>5, <2>1, <2>2, <2>3, <2>4, <2>5, <2>6
<1>7. CASE ~Pops /\ Rest = None
  <2>1. input' = None /\ net' = net /\ merged' = merged /\ HandedBack = <<>>
    BY <1>1, <1>4, <1>7 DEF Unpack, Feed, HandedBack
  <2>2. Packet(input)' = <<>>
    BY <2>1 DEF Packet
  <2> QED BY <1>2, <1>3, <2>1, <2>2
<1>8. CASE ~Pops /\ Rest # None
  <2>1. PICK m : Opened(m)
    BY <1>1, <1>8, UnpackCases
  <2>2. /\ input \in Replies /\ m = merged[input] /\ m \in Seq(Replies)
        /\ m # <<>> /\ Rest = Head(m) /\ Rest \in Replies
    BY <2>1 DEF Opened
  <2>3. input' = Rest /\ net' = net /\ HandedBack = m
    BY <1>1, <1>4, <1>8, <2>2 DEF Feed, HandedBack
  <2>4. merged'[Rest] = Tail(m)
    BY <2>1, <2>2 DEF Opened
  <2>5. Packet(input)' = m
    <3>1. <<Head(m)>> \o Tail(m) = m
      BY <2>2, Unfold
    <3> QED BY <1>8, <2>2, <2>3, <2>4, <3>1 DEF Packet
  <2>6. Bodies(net, merged') = Bodies(net, merged)
    <3> SUFFICES ASSUME NEW r, In(r, net) PROVE merged[r] = merged'[r]
      BY BodiesSame
    <3>1. r \in Replies
      BY <1>2 DEF In
    <3>2. input # None
      BY <2>2, SizesType
    <3>3. r # input /\ ~In(r, m)
      BY <2>2, <3>2 DEF Places, InputApart
    <3>4. In(Rest, m)
      BY <2>2, InTail
    <3>5. r # Rest
      BY <3>3, <3>4
    <3> QED BY <2>1, <3>1, <3>3, <3>5 DEF Opened
  <2> QED BY <1>2, <1>3, <2>3, <2>5, <2>6
<1> QED BY <1>6, <1>7, <1>8

\* l leaves the unit, a = (l \o s) \o r, and r \o n becomes k \o m.
UnitMoves(c, l, s, k, m, a, r, n) ==
  a = (l \o s) \o r /\ k \o m = r \o n

UnitKeeps(c, l, s, k, m, a, n) ==
  ((c \o l) \o (s \o k)) \o m = (c \o a) \o n

LEMMA UnitQueue ==
  \A c, l, s, k, m, a, r, n \in Seq(Replies) :
    UnitMoves(c, l, s, k, m, a, r, n) => UnitKeeps(c, l, s, k, m, a, n)
<1> DEFINE S == Replies
<1> SUFFICES ASSUME NEW c \in Seq(S), NEW l \in Seq(S), NEW s \in Seq(S),
                    NEW k \in Seq(S), NEW m \in Seq(S), NEW a \in Seq(S),
                    NEW r \in Seq(S), NEW n \in Seq(S),
                    UnitMoves(c, l, s, k, m, a, r, n)
             PROVE  UnitKeeps(c, l, s, k, m, a, n)
  OBVIOUS
<1> HIDE DEF S
<1>1. a = (l \o s) \o r /\ k \o m = r \o n
  BY DEF UnitMoves
<1>2. /\ s \o k \in Seq(S) /\ l \o s \in Seq(S) /\ l \o (s \o k) \in Seq(S)
  BY ConcatProperties
<1>3. (c \o l) \o (s \o k) = c \o (l \o (s \o k))
  <2>1. Regroups(c, l, s \o k)
    BY <1>2, Regroup
  <2> QED BY <2>1, Zenon DEF Regroups
<1>4. l \o (s \o k) = (l \o s) \o k
  <2>1. Regroups(l, s, k)
    BY Regroup
  <2> QED BY <2>1, Zenon DEF Regroups
<1>5. (c \o (l \o (s \o k))) \o m = c \o ((l \o (s \o k)) \o m)
  <2>1. Regroups(c, l \o (s \o k), m)
    BY <1>2, Regroup
  <2> QED BY <2>1, Zenon DEF Regroups
<1>6. ((l \o s) \o k) \o m = (l \o s) \o (k \o m)
  <2>1. Regroups(l \o s, k, m)
    BY <1>2, Regroup
  <2> QED BY <2>1, Zenon DEF Regroups
<1>7. ((l \o s) \o r) \o n = (l \o s) \o (r \o n)
  <2>1. Regroups(l \o s, r, n)
    BY <1>2, Regroup
  <2> QED BY <2>1, Zenon DEF Regroups
<1>8. (c \o a) \o n = c \o (a \o n)
  <2>1. Regroups(c, a, n)
    BY Regroup
  <2> QED BY <2>1, Zenon DEF Regroups
<1>9. (l \o (s \o k)) \o m = a \o n
  BY <1>1, <1>4, <1>6, <1>7, Zenon
<1> QED BY <1>3, <1>5, <1>8, <1>9, Zenon DEF UnitKeeps

\* The reply that leaves the buffer enters the FIFO.
LEMMA DrainOwed ==
  ASSUME TypeOK, NEW room \in BOOLEAN, Phase2(room)
  PROVE  fifo' \o AfterDrain(room) = AfterAccept(room) \o buf
<1>1. PICK f : f = AfterAccept(room)
  OBVIOUS
<1>2. f \in Seq(Replies) /\ buf \in Seq(Replies)
  BY <1>1, AcceptType DEF TypeOK
<1>3. CASE Drains(room)
  <2>1. fifo' = Append(f, Head(buf)) /\ AfterDrain(room) = Tail(buf)
        /\ buf # <<>>
    BY <1>1, <1>3 DEF Phase2, AfterDrain, Drains
  <2>2. PICK h : h = <<Head(buf)>>
    OBVIOUS
  <2>3. PICK t : t = Tail(buf)
    OBVIOUS
  <2>4. /\ Head(buf) \in Replies /\ h \in Seq(Replies) /\ t \in Seq(Replies)
        /\ buf = h \o t
    BY <1>2, <2>1, <2>2, <2>3, HeadTailProperties, Unfold
  <2>5. fifo' = f \o h
    BY <1>2, <2>1, <2>2, <2>4, AppendIsConcat
  <2>6. Regroups(f, h, t)
    BY <1>2, <2>4, Regroup
  <2> QED BY <1>1, <2>1, <2>3, <2>4, <2>5, <2>6 DEF Regroups
<1>4. CASE ~Drains(room)
  BY <1>4 DEF Phase2, AfterDrain
<1> QED BY <1>3, <1>4

LEMMA DecompressOwed ==
  ASSUME Guarded, SizeInv, TypeOK', Places, NEW room \in BOOLEAN,
         DecompressCycle(room)
  PROVE  Owed' = Left(AfterAccept(room))
<1>1. TypeOK
  BY DEF SizeInv, BuffersBounded
<1>2. PICK f : f = AfterAccept(room)
  OBVIOUS
<1>3. PICK b : b = AfterDrain(room)
  OBVIOUS
<1>4. /\ Phase2(room) /\ UNCHANGED <<stages, mode, sent>>
  BY DEF DecompressCycle, config
<1>5. /\ f \in Seq(Replies) /\ b \in Seq(Replies) /\ fifo' \in Seq(Replies)
      /\ fifo' \o b = f \o buf
  BY <1>1, <1>2, <1>3, <1>4, AcceptType, DrainType, DrainOwed
<1>6. CASE Phase1(room)
  <2>1. Runs
    BY <1>4, <1>6 DEF Phase1, Runs
  <2>2. PICK l : l = Lone(Output)
    OBVIOUS
  <2>3. l \in Seq(Replies)
    BY <1>1, <2>2, UnitType DEF Lone
  <2>4. buf' = b \o l
    <3>1. CASE Output # None
      <4>1. buf' = Append(b, Output) /\ l = <<Output>> /\ Output \in Replies
        BY <1>1, <1>3, <1>6, <2>2, <3>1, UnitType DEF Phase1, Lone
      <4> QED BY <1>5, <4>1, AppendIsConcat
    <3>2. CASE Output = None
      <4>1. buf' = b /\ l = <<>>
        BY <1>3, <1>6, <2>2, <3>2 DEF Phase1, Lone
      <4> QED BY <1>5, <4>1, ConcatEmptySeq
    <3> QED BY <3>1, <3>2
  <2>5. PICK s : s = InStages'
    OBVIOUS
  <2>6. PICK k : k = Packet(input)'
    OBVIOUS
  <2>7. PICK m : m = InNet'
    OBVIOUS
  <2>8. s \in Seq(Replies) /\ k \in Seq(Replies) /\ m \in Seq(Replies)
    BY <2>5, <2>6, <2>7, FormsNext
  <2>9. PICK a : a = InUnit
    OBVIOUS
  <2>10. PICK n : n = InNet
    OBVIOUS
  <2>11. PICK r : r = HandedBack
    OBVIOUS
  <2>12. PICK c : c = f \o buf
    OBVIOUS
  <2>13. a \in Seq(Replies) /\ n \in Seq(Replies) /\ c \in Seq(Replies)
         /\ r \in Seq(Replies)
    BY <1>1, <1>5, <2>9, <2>10, <2>11, <2>12, LeftType, FedIsRest
  <2>14. a = (l \o s) \o r
    BY <1>1, <2>1, <2>2, <2>5, <2>9, <2>11, ShiftOwed
  <2>15. k \o m = r \o n
    BY <1>1, <2>1, <2>6, <2>7, <2>10, <2>11, FeedOwed
  <2>16. ((c \o l) \o (s \o k)) \o m = (c \o a) \o n
    <3>1. UnitMoves(c, l, s, k, m, a, r, n)
      BY <2>14, <2>15 DEF UnitMoves
    <3>2. UnitKeeps(c, l, s, k, m, a, n)
      BY <2>3, <2>8, <2>13, <3>1, UnitQueue
    <3> QED BY <3>2 DEF UnitKeeps
  <2>17. fifo' \o buf' = c \o l
    <3>1. Regroups(fifo', b, l)
      BY <1>5, <2>3, Regroup
    <3> QED BY <1>5, <2>4, <2>12, <3>1, Zenon DEF Regroups
  <2>18. Owed' = ((c \o l) \o (s \o k)) \o m
    BY <2>5, <2>6, <2>7, <2>17 DEF Owed, InUnit
  <2>19. Left(f) = (c \o a) \o n
    BY <2>9, <2>10, <2>12 DEF Left
  <2> QED BY <1>2, <2>16, <2>18, <2>19
<1>7. CASE /\ buf' = AfterDrain(room)
           /\ UNCHANGED <<net, merged, input, stage, cnt>>
  <2>1. InUnit' = InUnit /\ InNet' = InNet
    BY <1>4, <1>7 DEF InUnit, InStages, InNet, Packet
  <2>2. fifo' \o buf' = f \o buf
    BY <1>3, <1>5, <1>7
  <2> QED BY <1>2, <2>1, <2>2 DEF Owed, Left
<1> QED BY <1>6, <1>7 DEF DecompressCycle

-----------------------------------------------------------------------------
(* The reply path implements the channel. *)

\* Everything that arrived has been accepted or is owed, in order.
InOrder == sent = taken \o Owed

ChannelInv == SizeInv /\ CountsPending /\ Places /\ InOrder

LEMMA OwedType == ASSUME TypeOK PROVE Owed \in Seq(Replies)
BY LeftType DEF TypeOK, Left, Owed

LEMMA OwedTypeNext == ASSUME TypeOK' PROVE Owed' \in Seq(Replies)
<1>1. /\ fifo' \in Seq(Replies) /\ buf' \in Seq(Replies)
      /\ InStages' \in Seq(Replies) /\ Packet(input)' \in Seq(Replies)
      /\ InNet' \in Seq(Replies)
  BY FormsNext DEF TypeOK
<1>2. InUnit' \in Seq(Replies)
  BY <1>1, ConcatProperties DEF InUnit
<1>3. fifo' \o buf' \in Seq(Replies)
  BY <1>1, ConcatProperties
<1>4. (fifo' \o buf') \o InUnit' \in Seq(Replies)
  BY <1>2, <1>3, ConcatProperties
<1> QED BY <1>1, <1>4, ConcatProperties DEF Owed

\* No step but a core's takes a reply, and it takes the oldest.
CycleEffect ==
  \/ UNCHANGED <<Owed, taken>>
  \/ /\ Owed # <<>>
     /\ taken' = Append(taken, Head(Owed))
     /\ Owed' = Tail(Owed)

LEMMA AcceptOwed ==
  ASSUME TypeOK, NEW a, NEW f, Accepted(a, f), Owed' = Left(f)
  PROVE  CycleEffect /\ taken' \o Owed' = taken \o Owed
<1>1. f \in Seq(Replies) /\ fifo = a \o f /\ a \in Seq(Replies)
  BY DEF Accepted
<1>2. PICK o : o = Left(f)
  OBVIOUS
<1>3. o \in Seq(Replies) /\ taken \in Seq(Replies) /\ fifo \in Seq(Replies)
  BY <1>1, <1>2, LeftType DEF TypeOK
<1>4. Owed = a \o o
  <2>1. buf \in Seq(Replies) /\ InUnit \in Seq(Replies) /\ InNet \in Seq(Replies)
        /\ f \o buf \in Seq(Replies) /\ (f \o buf) \o InUnit \in Seq(Replies)
    BY <1>1, LeftType, ConcatProperties DEF TypeOK
  <2>2. PICK u : u = InUnit
    OBVIOUS
  <2>3. PICK n : n = InNet
    OBVIOUS
  <2>4. (a \o f) \o buf = a \o (f \o buf)
    <3>1. Regroups(a, f, buf)
      BY <1>1, <2>1, Regroup
    <3> QED BY <3>1 DEF Regroups
  <2>5. (a \o (f \o buf)) \o u = a \o ((f \o buf) \o u)
    <3>1. Regroups(a, f \o buf, u)
      BY <1>1, <2>1, <2>2, Regroup
    <3> QED BY <3>1 DEF Regroups
  <2>6. (a \o ((f \o buf) \o u)) \o n = a \o (((f \o buf) \o u) \o n)
    <3>1. Regroups(a, (f \o buf) \o u, n)
      BY <1>1, <2>1, <2>2, <2>3, Regroup
    <3> QED BY <3>1 DEF Regroups
  <2> QED BY <1>1, <1>2, <2>2, <2>3, <2>4, <2>5, <2>6 DEF Owed, Left
<1>5. CASE a = <<>> /\ taken' = taken
  <2>1. <<>> \o o = o
    BY <1>3, ConcatEmptySeq
  <2> QED BY <1>2, <1>4, <1>5, <2>1 DEF CycleEffect
<1>6. CASE fifo # <<>> /\ a = <<Head(fifo)>> /\ taken' = Append(taken, Head(fifo))
  <2>1. PICK h \in Replies : h = Head(fifo)
    BY <1>3, <1>6, HeadTailProperties
  <2>2. <<h>> \in Seq(Replies) /\ a = <<h>> /\ taken' = Append(taken, h)
    BY <1>6, <2>1
  <2>3. Owed = <<h>> \o o
    BY <1>4, <2>2
  <2>4. <<h>> \o o # <<>> /\ Head(<<h>> \o o) = h /\ Tail(<<h>> \o o) = o
    BY <1>3, <2>1
  <2>5. CycleEffect
    BY <1>2, <2>2, <2>3, <2>4 DEF CycleEffect
  <2>6. Append(taken, h) = taken \o <<h>>
    BY <1>3, <2>1, AppendIsConcat
  <2>7. Regroups(taken, <<h>>, o)
    BY <1>3, <2>2, Regroup
  <2>8. taken' \o Owed' = taken \o Owed
    BY <1>2, <2>2, <2>3, <2>6, <2>7 DEF Regroups
  <2> QED BY <2>5, <2>8
<1> QED BY <1>5, <1>6 DEF Accepted

LEMMA CycleOwed ==
  ASSUME Guarded, ChannelInv, SizeInv', NEW room \in BOOLEAN, IcntCycle(room)
  PROVE  CycleEffect /\ InOrder'
<1>1. TypeOK /\ TypeOK' /\ Places /\ CountsPending /\ InOrder
  BY DEF ChannelInv, SizeInv, BuffersBounded
<1>2. Accept(room) /\ sent' = sent
  BY DEF IcntCycle, BypassCycle, DecompressCycle
<1>3. Owed' = Left(AfterAccept(room))
  <2>1. CASE BypassCycle(room)
    BY <1>1, <2>1, BypassOwed
  <2>2. CASE DecompressCycle(room)
    BY <1>1, <2>2, DecompressOwed DEF ChannelInv
  <2> QED BY <2>1, <2>2 DEF IcntCycle
<1>4. PICK a : Accepted(a, AfterAccept(room))
  BY <1>1, <1>2, AcceptCases
<1>5. CycleEffect /\ taken' \o Owed' = taken \o Owed
  BY <1>1, <1>3, <1>4, AcceptOwed
<1> QED BY <1>1, <1>2, <1>5 DEF InOrder

LEMMA InOrderStep ==
  ASSUME Guarded, MergedDepths \subseteq {1}, ChannelInv, SizeInv', [Next]_vars
  PROVE  InOrder'
<1>1. TypeOK /\ TypeOK' /\ Places /\ InOrder
  BY DEF ChannelInv, SizeInv, BuffersBounded
<1>2. CASE Arrive
  <2>1. PICK p : NewPacket(p) /\ Owed' = Owed \o p /\ taken' = taken
    BY <1>1, <1>2, ArriveOwed
  <2>2. p \in Seq(Replies) /\ sent' = sent \o p
    BY <2>1 DEF NewPacket
  <2>3. PICK o \in Seq(Replies) : o = Owed
    BY <1>1, OwedType
  <2>4. Regroups(taken, o, p)
    BY <1>1, <2>2, <2>3, Regroup DEF TypeOK
  <2> QED BY <1>1, <2>1, <2>2, <2>3, <2>4 DEF InOrder, Regroups
<1>3. CASE SwitchCache \/ UNCHANGED vars
  <2>1. UNCHANGED <<stages, net, merged, input, stage, buf, fifo, sent, taken>>
    BY <1>3 DEF SwitchCache, vars, config
  <2> QED BY <1>1, <2>1 DEF InOrder, Owed, InUnit, InStages, InNet, Packet
<1>4. ASSUME NEW room \in BOOLEAN, IcntCycle(room) PROVE InOrder'
  BY <1>4, CycleOwed
<1> QED BY <1>2, <1>3, <1>4 DEF Next

LEMMA PartsDistinct ==
  ASSUME NEW S, NEW s \in Seq(S), NEW t \in Seq(S), Distinct(s \o t)
  PROVE  Distinct(t \o s)
<1>1. /\ Len(s \o t) = Len(s) + Len(t) /\ Len(s) \in Nat /\ Len(t) \in Nat
      /\ \A i \in 1 .. Len(s) + Len(t) :
           (s \o t)[i] = IF i <= Len(s) THEN s[i] ELSE t[i - Len(s)]
  BY ConcatProperties, LenProperties
<1>2. \A i, j \in 1 .. Len(s) + Len(t) : (s \o t)[i] = (s \o t)[j] => i = j
  BY <1>1 DEF Distinct
<1>3. \A i \in 1 .. Len(s) : i \in 1 .. Len(s) + Len(t) /\ (s \o t)[i] = s[i]
  BY <1>1
<1>4. \A i \in 1 .. Len(t) : /\ i + Len(s) \in 1 .. Len(s) + Len(t)
                             /\ (s \o t)[i + Len(s)] = t[i]
  <2> SUFFICES ASSUME NEW i \in 1 .. Len(t)
               PROVE  /\ i + Len(s) \in 1 .. Len(s) + Len(t)
                      /\ (s \o t)[i + Len(s)] = t[i]
    OBVIOUS
  <2>1. /\ i + Len(s) \in 1 .. Len(s) + Len(t) /\ ~(i + Len(s) <= Len(s))
        /\ (i + Len(s)) - Len(s) = i
    BY <1>1
  <2> QED BY <1>1, <2>1
<1>5. Distinct(s)
  BY <1>2, <1>3 DEF Distinct
<1>6. Distinct(t)
  <2> SUFFICES ASSUME NEW i \in 1 .. Len(t), NEW j \in 1 .. Len(t), t[i] = t[j]
               PROVE  i = j
    BY DEF Distinct
  <2>1. i + Len(s) = j + Len(s)
    BY <1>2, <1>4
  <2> QED BY <1>1, <2>1
<1>7. ASSUME NEW r, In(r, s), In(r, t) PROVE FALSE
  <2>1. PICK i \in 1 .. Len(s) : s[i] = r
    BY <1>7 DEF In
  <2>2. PICK j \in 1 .. Len(t) : t[j] = r
    BY <1>7 DEF In
  <2>3. i = j + Len(s)
    BY <1>2, <1>3, <1>4, <2>1, <2>2
  <2> QED BY <1>1, <2>3
<1> QED BY <1>5, <1>6, <1>7, DistinctConcat

LEMMA ChannelStep ==
  ASSUME Guarded, MergedDepths \subseteq {1},
         ChannelInv, ChannelInv', [Next]_vars
  PROVE  Channel!Next \/ UNCHANGED <<Owed, taken>>
<1>1. TypeOK /\ TypeOK' /\ Places /\ SizeInv'
  BY DEF ChannelInv, SizeInv, BuffersBounded
<1>2. CASE Arrive
  <2>1. PICK p : NewPacket(p) /\ Owed' = Owed \o p /\ taken' = taken
    BY <1>1, <1>2, ArriveOwed
  <2>2. p \in Seq(Replies) /\ Len(p) \in 1 .. MaxPacket
    BY <2>1 DEF NewPacket
  <2>3. PICK o : o = Owed
    OBVIOUS
  <2>4. PICK q : q = Owed'
    OBVIOUS
  <2>5. o \in Seq(Replies) /\ q \in Seq(Replies) /\ q = o \o p
    BY <1>1, <2>1, <2>3, <2>4, OwedType, OwedTypeNext
  <2>6. /\ Len(q) = Len(o) + Len(p) /\ Len(o) \in Nat /\ Len(p) \in Nat
        /\ \A i \in 1 .. Len(o) : q[i] = o[i]
    BY <2>2, <2>5, ConcatProperties
  <2>7. Len(q) \in Len(o) + 1 .. Len(o) + MaxPacket
    BY <2>2, <2>6, SizesType
  <2>8. Channel!IsPrefix(o, q)
    <3>1. SubSeq(o, 1, Len(o)) = SubSeq(q, 1, Len(o))
      BY <2>6 DEF SubSeq
    <3> QED BY <2>6, <3>1 DEF Channel!IsPrefix
  <2>9. Channel!IsInjective(q \o taken)
    <3>1. taken \in Seq(Replies)
      BY <1>1 DEF TypeOK
    <3>2. Distinct(taken \o q)
      BY <2>1, <2>4 DEF ChannelInv, InOrder, Places, SentOnce
    <3>3. Distinct(q \o taken)
      BY <2>5, <3>1, <3>2, PartsDistinct
    <3>4. DOMAIN (q \o taken) = 1 .. Len(q \o taken)
      BY <2>5, <3>1, ConcatProperties, LenProperties
    <3> QED BY <3>3, <3>4 DEF Distinct, Channel!IsInjective
  <2> QED BY <2>1, <2>3, <2>4, <2>5, <2>7, <2>8, <2>9
          DEF Channel!Next, Channel!Arrive
<1>3. CASE SwitchCache \/ UNCHANGED vars
  <2>1. UNCHANGED <<stages, net, merged, input, stage, buf, fifo, taken>>
    BY <1>3 DEF SwitchCache, vars, config
  <2> QED BY <2>1 DEF Owed, InUnit, InStages, InNet, Packet
<1>4. ASSUME NEW room \in BOOLEAN, IcntCycle(room)
      PROVE  Channel!Next \/ UNCHANGED <<Owed, taken>>
  <2>1. CycleEffect
    BY <1>1, <1>4, CycleOwed
  <2> QED BY <2>1 DEF CycleEffect, Channel!Next, Channel!Accept
<1> QED BY <1>2, <1>3, <1>4 DEF Next

LEMMA ChannelInit == Init => InOrder /\ Channel!Init
<1> SUFFICES ASSUME Init PROVE InOrder /\ Channel!Init
  OBVIOUS
<1>1. /\ fifo = <<>> /\ buf = <<>> /\ net = <<>> /\ input = None
      /\ sent = <<>> /\ taken = <<>>
      /\ \A i \in 1 .. stages - 1 : stage[i] = None
  BY DEF Init
<1>2. TypeOK /\ Places /\ CountsPending
  BY InitSize, InitCount, PlacesInit DEF SizeInv, BuffersBounded
<1>3. InNet = <<>>
  <2>1. Bodies(<<>>, merged) = <<>>
    BY DEF Bodies
  <2> QED BY <1>1, <1>2, <2>1, Forms, FlattenEmpty
<1>4. InUnit = <<>>
  <2>1. InStages = <<>>
    <3>1. PICK r : r = Registers(stage, stages - 1)
      OBVIOUS
    <3>2. r \in Seq(Seq(Replies)) /\ Len(r) = stages - 1 /\ stages - 1 \in Nat
      BY <1>2, <3>1, Forms, RegistersType DEF TypeOK
    <3>3. ASSUME NEW i \in 1 .. Len(r) PROVE r[i] = <<>>
      <4>1. PICK k : k = (stages - 1) + 1 - i
        OBVIOUS
      <4>2. k \in 1 .. stages - 1
        BY <3>2, <4>1
      <4>3. r[i] = Lone(stage[k])
        BY <3>1, <3>2, <4>1 DEF Registers
      <4> QED BY <1>1, <4>2, <4>3 DEF Lone
    <3> QED BY <1>2, <3>1, <3>2, <3>3, Forms, FlattenBlanks DEF Blank
  <2>2. Packet(input) = <<>>
    BY <1>1 DEF Packet
  <2>3. <<>> \o <<>> = <<>>
    OBVIOUS
  <2> QED BY <2>1, <2>2, <2>3 DEF InUnit
<1>5. Owed = <<>>
  <2>1. <<>> \o <<>> = <<>>
    OBVIOUS
  <2> QED BY <1>1, <1>3, <1>4, <2>1 DEF Owed
<1>6. <<>> \o <<>> = <<>>
  OBVIOUS
<1> QED BY <1>1, <1>5, <1>6 DEF InOrder, Channel!Init

\* icnt_cycle() hands the cores every reply once, in the order in which the
\* interconnect delivered them, however often the predictor switches between
\* the unit and the bypass.  Of the arm that honours is_mf_pushed, and of a
\* unit that is given merged packets only when it has one stage.
THEOREM Delivers ==
  ASSUME Guarded, MergedDepths \subseteq {1}
  PROVE  Spec => ChannelSpec
<1>1. Init => ChannelInv /\ Channel!Init
  BY InitSize, InitCount, PlacesInit, ChannelInit DEF ChannelInv
<1>2. ChannelInv /\ CountsPending' /\ SizeInv' /\ [Next]_vars => ChannelInv'
  <2> SUFFICES ASSUME ChannelInv, CountsPending', SizeInv', [Next]_vars
               PROVE  ChannelInv'
    OBVIOUS
  <2>1. Places'
    BY PlacesStep DEF ChannelInv, SizeInv, BuffersBounded
  <2>2. InOrder'
    BY InOrderStep
  <2> QED BY <2>1, <2>2 DEF ChannelInv
<1>3. ChannelInv /\ ChannelInv' /\ [Next]_vars
        => [Channel!Next]_<<Owed, taken>>
  BY ChannelStep
<1>4. Spec => []CountsPending
  BY Counts
<1>5. Spec => []SizeInv
  BY InitSize, SizeStep, PTL DEF Spec
<1> QED BY <1>1, <1>2, <1>3, <1>4, <1>5, PTL DEF Spec, ChannelSpec, Channel!Spec
=============================================================================
