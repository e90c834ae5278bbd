---------------------------- MODULE PacketStream ----------------------------
(***************************************************************************)
(* What one direction of a connection promises: the packets one end puts   *)
(* in come out at the other end whole, in order and once, each as the      *)
(* other end sees it. The stream may stop at any point.                    *)
(***************************************************************************)
EXTENDS Naturals, Sequences

CONSTANTS
  Message,  \* packets that can be sent
  Seen(_)   \* a packet as the receiving application sees it

VARIABLES
  sent,     \* every packet sent so far
  got       \* every packet handed over so far

streamVars == <<sent, got>>

Init ==
  /\ sent = <<>>
  /\ got = <<>>

Send(m) ==
  /\ sent' = Append(sent, m)
  /\ UNCHANGED got

Deliver ==
  /\ Len(got) < Len(sent)
  /\ got' = Append(got, Seen(sent[Len(got) + 1]))
  /\ UNCHANGED sent

Next == Deliver \/ \E m \in Message : Send(m)

Spec == Init /\ [][Next]_streamVars
=============================================================================
