------------------------------ MODULE TcpRelay ------------------------------
(***************************************************************************)
(* relay_tcp_pair of src/main.c: the relay of a direct connection and of a *)
(* connection through an upstream SOCKS5 proxy.  One thread, one buffer    *)
(* per direction, a poll loop.  Direction i carries what the peer on       *)
(* descriptor i sends to the other descriptor.                             *)
(*                                                                         *)
(* The kernel's sockets are modelled by how the loop uses them: what a     *)
(* peer sent waits in order until recv takes it, send takes what the other *)
(* peer leaves room for, and a reset makes both fail.                      *)
(***************************************************************************)
EXTENDS Integers, Sequences

CONSTANTS MaxBytes,   \* bound: bytes a peer sends
          Chunk,      \* sizeof(buffers[i])
          Window      \* bytes a peer leaves unread before send reports EAGAIN

ASSUME BoundsAssumption == MaxBytes \in Nat /\ Chunk \in Nat \ {0} /\ Window \in Nat \ {0}

Sides == {0, 1}
other(i) == 1 - i

VARIABLES
  sent, closed, reset, read,    \* the peers: bytes sent, FIN, RST, bytes read
  received, delivered,          \* what recv took, what send was given
  buffers, offsets, reading, shutdown_sent, received_reply,
  revents,                      \* what the last poll reported
  pc, turn

peers == <<sent, closed, reset, read>>
streams == <<received, delivered, buffers, offsets, reading, shutdown_sent, received_reply>>
vars == <<peers, streams, revents, pc, turn>>

Init ==
  /\ sent = [i \in Sides |-> 0] /\ closed = [i \in Sides |-> FALSE]
  /\ reset = [i \in Sides |-> FALSE] /\ read = [i \in Sides |-> 0]
  /\ received = [i \in Sides |-> 0] /\ delivered = [i \in Sides |-> <<>>]
  /\ buffers = [i \in Sides |-> <<>>] /\ offsets = [i \in Sides |-> 0]
  /\ reading = [i \in Sides |-> TRUE] /\ shutdown_sent = [i \in Sides |-> FALSE]
  /\ received_reply = FALSE
  /\ revents = [i \in Sides |-> {}]
  /\ pc = "shut" /\ turn = 0

-----------------------------------------------------------------------------
(* The peers *)

PeerSends(i) ==
  /\ ~closed[i] /\ ~reset[i] /\ sent[i] < MaxBytes
  /\ sent' = [sent EXCEPT ![i] = @ + 1]
  /\ UNCHANGED <<closed, reset, read, streams, revents, pc, turn>>

PeerCloses(i) ==
  /\ ~closed[i] /\ ~reset[i]
  /\ closed' = [closed EXCEPT ![i] = TRUE]
  /\ UNCHANGED <<sent, reset, read, streams, revents, pc, turn>>

PeerReads(i) ==
  /\ ~reset[i] /\ read[i] < Len(delivered[other(i)])
  /\ read' = [read EXCEPT ![i] = @ + 1]
  /\ UNCHANGED <<sent, closed, reset, streams, revents, pc, turn>>

PeerResets(i) ==
  /\ ~reset[i]
  /\ reset' = [reset EXCEPT ![i] = TRUE]
  /\ UNCHANGED <<sent, closed, read, streams, revents, pc, turn>>

-----------------------------------------------------------------------------
(* The loop *)

Unsent(i) == Len(buffers[i]) - offsets[i]

Fail == pc' = "failed" /\ UNCHANGED <<streams, revents, turn>>

\* One pass of the for loop that prepares the poll: from side 0 to side 1,
\* from there to the test before the poll.
Prepared ==
  /\ UNCHANGED revents
  /\ IF turn = 0 THEN turn' = 1 /\ pc' = "shut"
     ELSE turn' = 0 /\ pc' = "test"

\* shutdown may fail on a socket that was reset: ENOTCONN is ignored.
Shutdown ==
  /\ pc = "shut" /\ UNCHANGED peers
  /\ IF ~reading[turn] /\ Unsent(turn) = 0 /\ ~shutdown_sent[turn]
     THEN \/ /\ shutdown_sent' = [shutdown_sent EXCEPT ![turn] = TRUE] /\ Prepared
             /\ UNCHANGED <<received, delivered, buffers, offsets, reading, received_reply>>
          \/ reset[other(turn)] /\ Fail
     ELSE Prepared /\ UNCHANGED streams

WantsIn_BothOpen(i) ==   \* Mutant: one end stops the reading of the other side.
  buffers[i] = <<>> /\ \A j \in Sides : reading[j]

WantsIn(i) == reading[i] /\ buffers[i] = <<>>
WantsOut(i) == Unsent(other(i)) > 0

Finished == \A i \in Sides : ~reading[i] /\ buffers[i] = <<>>

Test ==
  /\ pc = "test" /\ pc' = IF Finished THEN "done" ELSE "poll"
  /\ UNCHANGED <<peers, streams, revents, turn>>

\* A hangup on both sides also reports POLLHUP, where POLLIN is reported too.
ReadyIn(i) == WantsIn(i) /\ (received[i] < sent[i] \/ closed[i] \/ reset[i])
ReadyOut(i) == WantsOut(i) /\ (Len(delivered[other(i)]) - read[i] < Window \/ reset[i])
Reported(i) ==
  (IF ReadyIn(i) THEN {"in"} ELSE {}) \cup (IF ReadyOut(i) THEN {"out"} ELSE {})
    \cup (IF reset[i] /\ (WantsIn(i) \/ WantsOut(i)) THEN {"err"} ELSE {})

Poll ==
  /\ pc = "poll" /\ \E i \in Sides : Reported(i) # {}
  /\ revents' = [i \in Sides |-> Reported(i)]
  /\ pc' = "recv" /\ turn' = 0
  /\ UNCHANGED <<peers, streams>>

PollFails == pc = "poll" /\ Fail /\ UNCHANGED peers

Taken(i, n) ==
  /\ buffers' = [buffers EXCEPT ![i] = [k \in 1..n |-> received[i] + k]]
  /\ offsets' = [offsets EXCEPT ![i] = 0]
  /\ received' = [received EXCEPT ![i] = @ + n]
  /\ received_reply' = (received_reply \/ i = 1)
  /\ UNCHANGED <<delivered, reading, shutdown_sent>>

MayRecv(i) == reading[i] /\ buffers[i] = <<>> /\ revents[i] \cap {"in", "err"} # {}

\* recv with MSG_DONTWAIT: bytes, the end, nothing yet, or an error.
Recv ==
  /\ pc = "recv" /\ UNCHANGED peers
  /\ \/ /\ pc' = "send" /\ UNCHANGED <<revents, turn>>
        /\ \/ ~MayRecv(turn) /\ UNCHANGED streams
           \/ /\ MayRecv(turn) /\ ~reset[turn]
              /\ \/ \E n \in 1..Chunk : received[turn] + n <= sent[turn] /\ Taken(turn, n)
                 \/ /\ received[turn] = sent[turn] /\ closed[turn]
                    /\ reading' = [reading EXCEPT ![turn] = FALSE]
                    /\ UNCHANGED <<received, delivered, buffers, offsets, shutdown_sent, received_reply>>
                 \/ received[turn] = sent[turn] /\ ~closed[turn] /\ UNCHANGED streams
     \/ MayRecv(turn) /\ reset[turn] /\ Fail

Given_DropsRest(d, n) ==   \* Mutant: what a short send leaves is dropped.
  /\ delivered' = [delivered EXCEPT ![d] = @ \o SubSeq(buffers[d], offsets[d] + 1, offsets[d] + n)]
  /\ buffers' = [buffers EXCEPT ![d] = <<>>] /\ offsets' = [offsets EXCEPT ![d] = 0]
  /\ UNCHANGED <<received, reading, shutdown_sent, received_reply>>

\* send takes n bytes of the buffer of direction d.
Given(d, n) ==
  LET done == offsets[d] + n = Len(buffers[d]) IN
  /\ delivered' = [delivered EXCEPT ![d] = @ \o SubSeq(buffers[d], offsets[d] + 1, offsets[d] + n)]
  /\ buffers' = [buffers EXCEPT ![d] = IF done THEN <<>> ELSE @]
  /\ offsets' = [offsets EXCEPT ![d] = IF done THEN 0 ELSE @ + n]
  /\ UNCHANGED <<received, reading, shutdown_sent, received_reply>>

MaySend(i) == Unsent(other(i)) > 0 /\ revents[i] \cap {"out", "err"} # {}
Room(i) == Window - (Len(delivered[other(i)]) - read[i])

Advance == UNCHANGED revents /\ turn' = other(turn) /\ pc' = IF turn = 0 THEN "recv" ELSE "shut"

Send ==
  /\ pc = "send" /\ UNCHANGED peers
  /\ \/ /\ Advance
        /\ \/ (~MaySend(turn) \/ (Room(turn) = 0 /\ ~reset[turn])) /\ UNCHANGED streams
           \/ /\ MaySend(turn) /\ ~reset[turn]
              /\ \E n \in 1..Unsent(other(turn)) : n <= Room(turn) /\ Given(other(turn), n)
     \/ MaySend(turn) /\ reset[turn] /\ Fail

Relay == Shutdown \/ Test \/ Poll \/ Recv \/ Send

Next ==
  \/ Relay \/ PollFails
  \/ \E i \in Sides : PeerSends(i) \/ PeerCloses(i) \/ PeerReads(i) \/ PeerResets(i)

Spec == Init /\ [][Next]_vars
-----------------------------------------------------------------------------
Pipe == INSTANCE HalfClosePipe WITH ended <- shutdown_sent, broken <- pc = "failed"

(* The relay implements two independent byte streams with half-close: short  *)
(* reads, short sends, EAGAIN and either order of the two ends reorder, drop *)
(* and repeat nothing, and no FIN overtakes data.                            *)
ImplementsPipe == Pipe!Spec

(* The end of one direction is always passed on, even if the other direction *)
(* never ends, provided that the peers go on reading.                        *)
EndPassedOn == \A i \in Sides : closed[i] ~> (shutdown_sent[i] \/ pc = "failed")
=============================================================================
