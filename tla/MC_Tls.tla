------------------------------- MODULE MC_Tls -------------------------------
(***************************************************************************)
(* A TLS connection over its life: the addresses and offers it is opened   *)
(* with, the handshake, the pin file, and the records of an established    *)
(* connection.  Each works in behaviours of its own while the others rest. *)
(*                                                                         *)
(* Records: both limits are reached within a few records.  Pins: two       *)
(* threads, a file of a comment and one whose last entry, added by hand,   *)
(* has no newline.  Handshake: servers of TLS 1.2 and 1.3 for every policy *)
(* and every optional message, of which two may deviate.  Endpoints: two   *)
(* threads open connections to a site with two addresses.                  *)
(***************************************************************************)
EXTENDS TlsRecords, TofuPins, TlsEndpoints, TLC

CONSTANTS p1, p2, h1, h2, d1, d2

VARIABLES part,
          hs, srv, out      \* TlsHandshake

hsVars == <<hs, srv, out>>

-----------------------------------------------------------------------------
MCLeft == {[lines |-> <<Junk>>, end |-> "newline", at |-> "disk"],
           [lines |-> <<[host |-> h1, pin |-> d1]>>, end |-> "text", at |-> "disk"]}

Plan(v, pol) ==
  [version |-> v, policy |-> pol, trusted |-> TRUE, suites |-> {"chacha", "aes"}, group |-> "x25519",
   alpn |-> "h2", h2 |-> FALSE, retry |-> FALSE, request |-> FALSE, alps |-> FALSE, ccs |-> FALSE,
   rsa |-> FALSE, status |-> FALSE, ticket |-> FALSE]

MCPlans ==
  {[Plan(13, "strict") EXCEPT !.retry = TRUE, !.request = TRUE],
   [Plan(13, "tofu") EXCEPT !.alps = TRUE, !.request = TRUE, !.ccs = TRUE, !.suites = {"aes"}],
   [Plan(13, "reality") EXCEPT !.ccs = TRUE, !.h2 = TRUE, !.alpn = "none"],
   [Plan(13, "reality") EXCEPT !.retry = TRUE],
   [Plan(13, "strict") EXCEPT !.trusted = FALSE],
   [Plan(13, "insecure") EXCEPT !.h2 = TRUE, !.alpn = "http/1.1"],
   [Plan(12, "strict") EXCEPT !.h2 = TRUE, !.rsa = TRUE],
   [Plan(12, "tofu") EXCEPT !.status = TRUE, !.ticket = TRUE, !.trusted = FALSE],
   [Plan(12, "strict") EXCEPT !.rsa = TRUE, !.request = TRUE],
   [Plan(12, "strict") EXCEPT !.ticket = TRUE, !.request = TRUE, !.trusted = FALSE],
   [Plan(12, "insecure") EXCEPT !.ticket = TRUE]}

Hs == INSTANCE TlsHandshake WITH Plans <- MCPlans, MaxFaults <- 2

Symmetry == Permutations({p1, p2})

-----------------------------------------------------------------------------
MCInit ==
  /\ part \in {"records", "pins", "handshake", "endpoints"}
  /\ Init
  /\ TofuInit /\ (part = "pins" \/ pins = CHOOSE f \in Left : TRUE)
  /\ IF part = "handshake" THEN Hs!HsInit ELSE hs = 0 /\ srv = 0 /\ out = 0
  /\ EndpointsInit /\ (part = "endpoints" \/ accepts = [a \in Addr |-> {}])

\* A connection that has ended, and a finished handshake, stay so.
Finished == part \in {"records", "handshake"} /\ UNCHANGED <<vars, tofuVars, hsVars, endpointVars>>

MCNext ==
  /\ UNCHANGED part
  /\ \/ part = "records" /\ Next /\ UNCHANGED <<tofuVars, hsVars, endpointVars>>
     \/ part = "pins" /\ TofuNext /\ UNCHANGED <<vars, hsVars, endpointVars>>
     \/ part = "handshake" /\ Hs!HsNext /\ UNCHANGED <<vars, tofuVars, endpointVars>>
     \/ part = "endpoints" /\ EndpointsNext /\ UNCHANGED <<vars, tofuVars, hsVars>>
     \/ Finished

MCSpec == MCInit /\ [][MCNext]_<<part, vars, tofuVars, hsVars, endpointVars>>

-----------------------------------------------------------------------------
\* A handshake is complete, and a pin is asked for, only behind a legal flight,
\* the same transcript on both sides and a certificate the policy accepts
\* (server_handshake_message, tls13_handshake, run_tls12).
Authenticated == part = "handshake" => Hs!Authenticated

\* A server that keeps to the protocol and accepts the offer is not refused,
\* also after a failed first offer on the same connection object
\* (reset_manual_tls_handshake).
HonestServerAccepted == part = "handshake" => Hs!HonestServerAccepted
=============================================================================
