----------------------------- MODULE ReplyChannel -----------------------------
(***************************************************************************)
(* What the reply path of one cluster promises its cores: replies leave in *)
(* the order they arrived, every one of them, and none twice.              *)
(***************************************************************************)
EXTENDS Naturals, SequencesExt

CONSTANTS
  Replies,
  MaxPacket   \* replies that can arrive together

VARIABLES
  owed,       \* replies that arrived and no core has accepted, oldest first
  taken       \* replies the cores accepted, in order

Init == owed = <<>> /\ taken = <<>>

Arrive ==
  /\ UNCHANGED taken
  /\ Len(owed') \in Len(owed) + 1 .. Len(owed) + MaxPacket
  /\ owed' \in Seq(Replies) /\ IsPrefix(owed, owed')
  /\ IsInjective(owed' \o taken)

Accept ==
  /\ owed # <<>>
  /\ taken' = Append(taken, Head(owed))
  /\ owed' = Tail(owed)

Next == Accept \/ Arrive

Spec == Init /\ [][Next]_<<owed, taken>>
=============================================================================
