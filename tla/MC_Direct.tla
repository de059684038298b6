----------------------------- MODULE MC_Direct -----------------------------
(***************************************************************************)
(* Direct connections: how they are opened and closed beside a route       *)
(* controller, and how they are relayed.  The two share no variable, so    *)
(* each is run while the other rests.                                      *)
(*                                                                         *)
(* Two clients use the same two addresses; a name resolves to none, one or *)
(* both.  The relay carries two bytes each way, in buffers of two, to      *)
(* peers that leave at most one unread: short reads, short sends and full  *)
(* windows all occur.                                                      *)
(***************************************************************************)
EXTENDS TcpRelay, DirectRoute

CONSTANTS a, b, c1, c2

MCAnswers == {<<>>, <<a>>, <<a, b>>}

Relaying(A) == RouteInit /\ A /\ UNCHANGED routeVars
Opening(A) == Init /\ A /\ UNCHANGED vars

MCInit == Init /\ RouteInit

\* The program's threads are scheduled and the peers of the relay read; the
\* controller need not answer, and no peer has to send or to close.
MCSpec ==
  /\ MCInit /\ [][Relaying(Next) \/ Opening(RouteNext)]_<<vars, routeVars>>
  /\ WF_vars(Relaying(Relay)) /\ \A i \in Sides : WF_vars(Relaying(PeerReads(i)))
  /\ \A c \in Clients : WF_routeVars(Opening(Routing(c)))

-----------------------------------------------------------------------------
\* Both halves of a direct connection come to their end: the end of one side is
\* passed on to the other once its bytes are, and opening a connection ends,
\* with one or without, whatever the route controller does.
DirectEnds == EndPassedOn /\ OpeningEnds
=============================================================================
