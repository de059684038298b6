----------------------------- MODULE MC_Memory -----------------------------
(***************************************************************************)
(* The two memory accounts of the process: the budgets of the relays and   *)
(* streams, and the buffers of TLS handshakes.  Neither reads a variable   *)
(* of the other, so it is enough to let each work while the other rests.   *)
(*                                                                         *)
(* Three blocks let a block be allocated while another is reallocated.     *)
(* Of the two TLS connections the first has two counted buffers, the       *)
(* second one counted and one that is not (tls_post_handshake).  Two       *)
(* growing buffers fill the process limit, two full ones the limit of a    *)
(* connection.                                                             *)
(***************************************************************************)
EXTENDS BufferBudget, TlsBuffers, TLC

CONSTANTS c1, c2, transcript1, hello1, transcript2, post2

MCSizes == 1..3
MCConn == transcript1 :> c1 @@ hello1 :> c1 @@ transcript2 :> c2 @@ post2 :> c2
MCBufferLimit == transcript1 :> 4 @@ hello1 :> 3 @@ transcript2 :> 4 @@ post2 :> 2

Symmetry == Permutations(Budgets) \cup Permutations(Blocks)

MCInit == Init /\ TlsInit

MCNext ==
  \/ TlsInit /\ Next /\ UNCHANGED tlsVars
  \/ Init /\ TlsNext /\ UNCHANGED vars

MCSpec == MCInit /\ [][MCNext]_<<vars, tlsVars>>
=============================================================================
