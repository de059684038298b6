---------------------------- MODULE HalfClosePipe ----------------------------
(***************************************************************************)
(* What a relay between two TCP peers promises: each direction is a byte   *)
(* stream of its own, delivered in order and without a gap, and the end of *)
(* one direction is passed on only behind its last byte and leaves the     *)
(* other direction open.  A relay may break; it then delivers nothing more *)
(* in either direction.  Byte k of a direction is the number k.            *)
(***************************************************************************)
EXTENDS Integers, Sequences

CONSTANT Sides   \* direction d carries what the peer on side d sends

VARIABLES sent, closed,      \* by the peers: bytes written, write side closed
          delivered, ended,  \* to the peers: bytes, end of the stream
          broken

vars == <<sent, closed, delivered, ended, broken>>

From(first, last) == [k \in 1..(last - first) |-> first + k]

Init ==
  /\ sent = [d \in Sides |-> 0] /\ closed = [d \in Sides |-> FALSE]
  /\ delivered = [d \in Sides |-> <<>>] /\ ended = [d \in Sides |-> FALSE]
  /\ broken = FALSE

Write(d) ==
  /\ ~closed[d] /\ sent' = [sent EXCEPT ![d] = @ + 1]
  /\ UNCHANGED <<closed, delivered, ended, broken>>

Close(d) ==
  /\ closed' = [closed EXCEPT ![d] = TRUE]
  /\ UNCHANGED <<sent, delivered, ended, broken>>

Deliver(d) ==
  /\ ~broken /\ ~ended[d]
  /\ \E n \in Len(delivered[d])..sent[d] :
        delivered' = [delivered EXCEPT ![d] = @ \o From(Len(@), n)]
  /\ UNCHANGED <<sent, closed, ended, broken>>

End(d) ==
  /\ ~broken /\ closed[d] /\ Len(delivered[d]) = sent[d]
  /\ ended' = [ended EXCEPT ![d] = TRUE]
  /\ UNCHANGED <<sent, closed, delivered, broken>>

Break == broken' = TRUE /\ UNCHANGED <<sent, closed, delivered, ended>>

Next == Break \/ \E d \in Sides : Write(d) \/ Close(d) \/ Deliver(d) \/ End(d)

Spec == Init /\ [][Next]_vars
=============================================================================
