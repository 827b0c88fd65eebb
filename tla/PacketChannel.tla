---------------------------- MODULE PacketChannel ----------------------------
(***************************************************************************)
(* What two ude peers promise together: the packets that were accepted for *)
(* sending are delivered whole, once, and in the order of acceptance.      *)
(***************************************************************************)
EXTENDS Naturals, Sequences

CONSTANT Packets    \* everything that may be sent, each of it once

VARIABLES accepted, \* the packets send_packet has taken, in order
          delivered \* the packets the other side has assembled, in order

Init == accepted = <<>> /\ delivered = <<>>

Accept(p) ==
  /\ \A i \in 1..Len(accepted) : accepted[i] # p
  /\ accepted' = Append(accepted, p)
  /\ UNCHANGED delivered

Deliver ==
  /\ Len(delivered) < Len(accepted)
  /\ delivered' = Append(delivered, accepted[Len(delivered) + 1])
  /\ UNCHANGED accepted

Next == (\E p \in Packets : Accept(p)) \/ Deliver

Spec == Init /\ [][Next]_<<accepted, delivered>>
=============================================================================
