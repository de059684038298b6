---------------------------- MODULE TlsHandshake ----------------------------
(***************************************************************************)
(* The TLS client handshake of tls_handshake.c, as connect_manual_tls_     *)
(* endpoint of tls_transport.c runs it: an attempt with the ChaCha offer   *)
(* and, when that fails, one with the AES offer on a new socket, with one  *)
(* connection object reset in between.  TLS 1.3, with and without a        *)
(* HelloRetryRequest, and TLS 1.2.                                         *)
(*                                                                         *)
(* A handshake message is [t, ok, over, par]: its type, whether it passes  *)
(* the client's own checks of its body ("good"), does not ("bad"), or      *)
(* passes them and is not what the server sent ("other"); the transcript a *)
(* signature or a Finished was made over; the parameters of a hello.  The  *)
(* transcript holds <<t, ok>>.  Messages travel in halves, so a record     *)
(* ends within a message or holds several.  rec is the record's type;      *)
(* "22e" is a handshake record under TLS 1.2 keys and "23" one under TLS   *)
(* 1.3 keys.  All cryptography is ideal: what was not made over the same   *)
(* transcript does not verify.                                             *)
(***************************************************************************)
EXTENDS Integers, Sequences, SequencesExt

CONSTANTS
  Plans,      \* servers and client configurations
  MaxFaults   \* flights that deviate from what the server should send

VARIABLES
  hs,         \* the client's tls13_conn_t and the locals of its handshake
  srv,        \* the server's side of the present connection
  out         \* the halves of messages on their way to the client

hsVars == <<hs, srv, out>>

Present(c, s) == IF c THEN s ELSE <<>>
Msg(t, ok, over, par) == [t |-> t, ok |-> ok, over |-> over, par |-> par]

\* The records of a flight.  A ChangeCipherSpec is a record of its own; in TLS
\* 1.2 what follows it is encrypted.
Halves(rec, after, key, ms) ==
  LET ccs(i) == \E j \in 1..(i - 1) : ms[j].t = "ccs"
      half(i, h) == [rec |-> IF ms[i].t = "ccs" THEN "20" ELSE IF ccs(i) THEN after ELSE rec,
                     key |-> key, m |-> ms[i], half |-> h]
  IN  FlattenSeq([i \in DOMAIN ms |-> Present(ms[i].t # "ccs", <<half(i, 1)>>) \o <<half(i, 2)>>])

-----------------------------------------------------------------------------
\* The server, modelled from what the client expects of it.
Flight13(p) == <<"ee">> \o Present(p.request, <<"cr">>) \o <<"cert", "cv", "fin">>
Flight12(p) == <<"cert">> \o Present(p.status, <<"status">>) \o Present(~ p.rsa, <<"ske">>)
               \o Present(p.request, <<"cr">>) \o <<"done">>
Final12(p) == Present(p.ticket, <<"nst">>) \o <<"ccs", "fin">>

\* A flight with one message left out, sent twice, or sent too early.
Deviant(f) ==
  {SubSeq(f, 1, i - 1) \o SubSeq(f, i + 1, Len(f)) : i \in DOMAIN f}
  \cup {SubSeq(f, 1, i) \o SubSeq(f, i, Len(f)) : i \in DOMAIN f}
  \cup {SubSeq(f, 1, i - 1) \o <<f[i + 1], f[i]>> \o SubSeq(f, i + 2, Len(f)) : i \in 1..(Len(f) - 1)}

\* The messages of a flight, each made over what precedes it.
Made(ts, tr, par) ==
  FoldLeft(LAMBDA a, t : [tr |-> a.tr \o Present(t # "ccs", <<<<t, "good">>>>),
                          ms |-> Append(a.ms, Msg(t, "good", a.tr, Present(t \in {"hrr", "sh", "ee"}, par))), fault |-> a.fault],
           [tr |-> tr, ms |-> <<>>, fault |-> FALSE], ts)

\* What becomes of a flight: it is sent as it should be; the server deviates
\* and signs what it sent; or a message is not the one the server made.
Sent(ts, tr, par) ==
  LET good == Made(ts, tr, par)
  IN  {good} \cup
      (IF srv.faults = MaxFaults THEN {}
       ELSE {[Made(d, tr, par) EXCEPT !.fault = TRUE] : d \in Deviant(ts)}
            \cup {[good EXCEPT !.ms[i].ok = k, !.fault = TRUE] : i \in DOMAIN ts, k \in {"bad", "other"}})

Serve(phase, rec, after, key, s) ==
  /\ srv' = [srv EXCEPT !.phase = phase, !.tr = s.tr, !.fault = @ \/ s.fault,
             !.version = IF s.ms # <<>> /\ s.ms[1].t = "sh" THEN s.ms[1].par.version ELSE @,
             !.faults = @ + (IF s.fault THEN 1 ELSE 0)]
  /\ out' = out \o Halves(rec, after, key, s.ms)
  /\ hs' = [hs EXCEPT !.said = <<>>]

Alert ==
  /\ srv' = [srv EXCEPT !.phase = "over"]
  /\ out' = out \o Halves("21", "21", <<>>, <<Msg("alert", "good", <<>>, <<>>)>>)
  /\ hs' = [hs EXCEPT !.said = <<>>]

Params == [version |-> srv.version, suite |-> hs.offer, group |-> srv.plan.group, rsa |-> srv.plan.rsa,
           status |-> srv.plan.status, ticket |-> srv.plan.ticket, alpn |-> srv.plan.alpn, alps |-> srv.plan.alps]

\* The answer to a ClientHello: a retry, a ServerHello, an alert when the offer
\* does not suit.  After a retry a deviating server asks for another one, or
\* selects what its HelloRetryRequest did not announce.
ServerHello ==
  /\ srv.phase \in {"hello", "hello2"}
  /\ hs.said # <<>>
  /\ LET tr == Append(srv.tr, <<"ch", "good">>)
         again == srv.phase = "hello2"
     IN  \/ hs.offer \notin srv.plan.suites /\ Alert
         \/ /\ hs.offer \in srv.plan.suites
            /\ srv.plan.retry /\ ~ again
            /\ \E s \in Sent(<<"hrr">>, <<<<"hash", "good">>>>, Params) : Serve("hello2", "22", "22e", <<>>, s)
         \/ /\ hs.offer \in srv.plan.suites
            /\ srv.plan.retry => again
            /\ \E s \in Sent(<<"sh">>, tr, Params) : Serve("flight", "22", "22e", <<>>, s)
         \/ /\ again /\ srv.faults < MaxFaults
            /\ \E t \in {"hrr", "sh"}, par \in {[Params EXCEPT !.group = "other"], [Params EXCEPT !.suite = "other"],
                                          [Params EXCEPT !.version = 12]} :
                 Serve("flight", "22", "22e", <<>>, [Made(<<t>>, tr, par) EXCEPT !.fault = TRUE])

ServerFlight ==
  /\ srv.phase = "flight"
  /\ IF srv.version = 13
     THEN \E s \in Sent(Present(srv.plan.ccs, <<"ccs">>) \o Flight13(srv.plan), srv.tr, Params) :
            Serve("over", "23", "23", srv.tr, s)
     ELSE \E s \in Sent(Flight12(srv.plan), srv.tr, Params) : Serve("client", "22", "22e", <<>>, s)

\* The client's flight of TLS 1.2: its Finished must be over what the server
\* saw, and the server answers with its own.
ServerFinal ==
  /\ srv.phase = "client"
  /\ hs.said # <<>>
  /\ LET tr == srv.tr \o Present(srv.plan.request, <<<<"ccert", "good">>>>) \o <<<<"cke", "good">>>>
     IN  \/ hs.said # tr /\ Alert
         \/ /\ hs.said = tr
            /\ \E s \in Sent(Final12(srv.plan), Append(tr, <<"cfin", "good">>), Params) :
                 Serve("over", "22", "22e", <<>>, s)

-----------------------------------------------------------------------------
\* The client.  `seen' are the messages of a TLS 1.2 flight, `got' those
\* accepted so far, `key' the transcript its handshake keys come from; `view'
\* and `pin' are what a completed handshake leaves: the transcript of both
\* Finished messages, and the outcome of the pin file.
Fresh == [tr |-> <<>>, pending |-> <<>>, suite |-> "none", group |-> "none", key |-> <<>>,
          tls_retry_seen |-> FALSE, tls_auth_state |-> 0, requested |-> FALSE, alps |-> FALSE,
          seen |-> {}, changed |-> FALSE, par |-> <<>>, got |-> <<>>, said |-> <<>>,
          view |-> <<>>, pin |-> "none"]

Go(p) == hs' = [hs EXCEPT !.phase = p]
Accept(c, m) == [c EXCEPT !.tr = Append(@, <<m.t, m.ok>>), !.got = Append(@, m.t),
                 !.pending = SubSeq(@, 3, Len(@))]
Lost(c) == [c EXCEPT !.phase = "lost"]
m1 == hs.pending[1].m
Complete == Len(hs.pending) >= 2

\* run_tls_handshake_with_key up to the ClientHello.
SendHello ==
  /\ hs.phase = "start"
  /\ hs' = [hs EXCEPT !.phase = "hello", !.alps = FALSE, !.tr = Append(@, <<"ch", "good">>), !.said = <<"ch">>]
  /\ UNCHANGED <<srv, out>>

\* read_record: records of one type may be cut anywhere.
Cut(n) == /\ n \in 1..Len(out)
          /\ n > 1 => out[1].rec \in {"22", "22e", "23"}
          /\ \A i \in 2..n : out[i].rec = out[1].rec

\* What a record of each type means in each phase: skipped, a part of a
\* message (decrypted if the phase has keys), the peer's ChangeCipherSpec of
\* TLS 1.2, or the end of the attempt.
ReadRecord ==
  /\ hs.phase \in {"hello", "retry", "flight", "flight12", "final12"}
  /\ hs.phase # "retry" => ~ Complete
  /\ \E n \in 1..Len(out) :
       /\ Cut(n)
       /\ out' = SubSeq(out, n + 1, Len(out))
       /\ LET h == out[1]
              wanted == IF hs.phase = "flight" THEN "23" ELSE IF hs.changed THEN "22e" ELSE "22"
          IN  hs' = IF h.rec = wanted /\ h.key = hs.key
                    THEN [hs EXCEPT !.pending = @ \o SubSeq(out, 1, n),
                                    !.phase = IF @ = "retry" THEN "hello" ELSE @]
                    ELSE IF h.rec = "20" /\ hs.phase \in {"hello", "retry", "flight"} THEN hs
                    ELSE IF h.rec = "20" /\ hs.phase = "final12" /\ ~ hs.changed /\ hs.pending = <<>>
                    THEN [hs EXCEPT !.changed = TRUE]
                    ELSE Lost(hs)
  /\ UNCHANGED srv

\* tls12_server_hello: the parameters of TLS 1.2, HTTP/2 if the transport needs
\* it, and then not over the static RSA exchange.
tls12_server_hello(m) ==
  /\ m.ok # "bad"
  /\ srv.plan.h2 => m.par.alpn = "h2"
  /\ ~ (srv.plan.h2 /\ m.par.rsa)

\* The ServerHello decides between TLS 1.2, a retry and TLS 1.3.  A retry
\* replaces the ClientHello in the transcript by its hash, and the loop then
\* reads a record before it looks at what else is in the buffer.
Hello ==
  /\ hs.phase = "hello"
  /\ Complete
  /\ LET c == [Accept(hs, m1) EXCEPT !.par = m1.par]
     IN  hs' = IF m1.t \notin {"sh", "hrr"} \/ m1.ok = "bad" THEN Lost(hs)
               ELSE IF m1.par.version = 12
               THEN IF srv.plan.policy # "reality" /\ tls12_server_hello(m1) THEN [c EXCEPT !.phase = "flight12", !.suite = "tls12"] ELSE Lost(hs)
               ELSE IF m1.t = "hrr"
               THEN IF hs.tls_retry_seen \/ srv.plan.policy = "reality" THEN Lost(hs)
                    ELSE [c EXCEPT !.phase = "retry", !.suite = m1.par.suite, !.group = m1.par.group,
                                   !.tls_retry_seen = TRUE, !.said = <<"ch">>,
                                   !.tr = <<<<"hash", "good">>, <<m1.t, m1.ok>>, <<"ch", "good">>>>]
               ELSE IF (hs.tls_retry_seen /\ (m1.par.suite # hs.suite \/ m1.par.group # hs.group)) \/ c.pending # <<>>
               THEN Lost(hs)
               ELSE [c EXCEPT !.phase = "flight", !.suite = m1.par.suite, !.key = c.tr]
  /\ UNCHANGED <<srv, out>>

-----------------------------------------------------------------------------
\* The certificate is checked when it arrives, but for "tofu" and "insecure".
Trusted == srv.plan.policy \in {"strict", "reality"} => srv.plan.trusted

\* tls_encrypted_extensions: ALPS needs HTTP/2 to be selected, and so may the
\* transport; REALITY servers may select nothing.
tls_encrypted_extensions(m) ==
  /\ m.ok # "bad"
  /\ m.par.alps => m.par.alpn = "h2"
  /\ srv.plan.h2 => m.par.alpn = "h2" \/ (srv.plan.policy = "reality" /\ m.par.alpn = "none")

tls_certificate_request(m) == m.ok # "bad"

\* The signature of CertificateVerify is over the transcript so far.
verify_server_signature(c, m) == m.ok = "good" /\ m.over = c.tr

\* So is the Finished.
FinishedHolds(c, m) == m.ok = "good" /\ m.over = c.tr

\* The bodies of the four messages that must come.
BodyHolds(c, m) ==
  CASE m.t = "ee"   -> tls_encrypted_extensions(m)
    [] m.t = "cert" -> m.ok # "bad" /\ Trusted
    [] m.t = "cv"   -> verify_server_signature(c, m)
    [] m.t = "fin"  -> FinishedHolds(c, m)

\* The order with a CertificateRequest taken wherever it comes.
server_handshake_message_Anytime(c, m) ==
  IF m.t = "cr"
  THEN ~ c.requested /\ tls_certificate_request(m)
  ELSE /\ c.tls_auth_state < 4
       /\ m.t = <<"ee", "cert", "cv", "fin">>[c.tls_auth_state + 1]
       /\ BodyHolds(c, m)

\* Whether a message of the encrypted flight is the one that is due and holds.
server_handshake_message(c, m) ==
  IF m.t = "cr"
  THEN c.tls_auth_state = 1 /\ ~ c.requested /\ tls_certificate_request(m)
  ELSE /\ c.tls_auth_state < 4
       /\ m.t = <<"ee", "cert", "cv", "fin">>[c.tls_auth_state + 1]
       /\ BodyHolds(c, m)

\* tls_send_client_finished: the client's EncryptedExtensions if ALPS was
\* negotiated, an empty Certificate if one was asked for, the Finished.
ClientFinished(c) == c.tr \o Present(c.alps, <<<<"cee", "good">>>>)
                          \o Present(c.requested, <<<<"ccert", "good">>>>)

\* A handshake that is proved asks the pin file under "tofu", which may refuse,
\* and forgets its transcript and its keys.
Finish(c, view) ==
  \E ok \in IF srv.plan.policy = "tofu" THEN BOOLEAN ELSE {TRUE} :
    hs' = [c EXCEPT !.phase = IF ok THEN "done" ELSE "lost", !.view = view, !.tr = <<>>, !.key = <<>>,
                    !.pin = IF srv.plan.policy # "tofu" THEN "none" ELSE IF ok THEN "kept" ELSE "refused"]

Encrypted ==
  /\ hs.phase = "flight"
  /\ Complete
  /\ LET c == [Accept(hs, m1) EXCEPT !.requested = @ \/ m1.t = "cr", !.alps = @ \/ (m1.t = "ee" /\ m1.par.alps),
               !.tls_auth_state = @ + (IF m1.t = "cr" THEN 0 ELSE 1)]
     IN  \/ /\ ~ server_handshake_message(hs, m1) \/ (m1.t = "fin" /\ c.pending # <<>>)
            /\ hs' = Lost(hs)
         \/ /\ server_handshake_message(hs, m1)
            /\ m1.t # "fin"
            /\ hs' = c
         \/ /\ server_handshake_message(hs, m1)
            /\ m1.t = "fin" /\ c.pending = <<>>
            /\ Finish(c, ClientFinished(c))
  /\ UNCHANGED <<srv, out>>

-----------------------------------------------------------------------------
\* The bodies of TLS 1.2: the chain, the signed parameters of the exchange.
tls12_certificate(m) == m.ok # "bad" /\ Trusted
tls12_key_exchange(m) == m.ok = "good"
tls12_certificate_request(m) == m.ok # "bad"

Holds12(m) ==
  CASE m.t = "cert" -> tls12_certificate(m)
    [] m.t = "ske"  -> tls12_key_exchange(m)
    [] m.t = "cr"   -> tls12_certificate_request(m)
    [] OTHER        -> m.ok # "bad"

\* run_tls12_handshake: when each message of the server's flight may come.
Due12(c, t) ==
  LET has(x) == x \in c.seen
      keys == has("ske") \/ c.par.rsa
  IN  CASE t = "cert"   -> c.seen = {}
        [] t = "status" -> has("cert") /\ c.par.status /\ c.seen \subseteq {"cert"}
        [] t = "ske"    -> has("cert") /\ ~ c.par.rsa /\ c.seen \subseteq {"cert", "status"}
                           /\ (c.par.status => has("status"))
        [] t = "cr"     -> has("cert") /\ ~ has("cr") /\ keys
        [] t = "done"   -> has("cert") /\ keys /\ (c.par.status => has("status"))
        [] OTHER        -> FALSE

\* After ServerHelloDone the client sends its own flight, its Finished over all
\* of it.
Flight ==
  /\ hs.phase = "flight12"
  /\ Complete
  /\ LET c == [Accept(hs, m1) EXCEPT !.seen = @ \cup {m1.t}, !.requested = @ \/ m1.t = "cr"]
         tr == c.tr \o Present(c.requested, <<<<"ccert", "good">>>>) \o <<<<"cke", "good">>>>
     IN  \/ /\ \/ ~ Due12(hs, m1.t) \/ ~ Holds12(m1)
               \/ m1.t = "done" /\ c.pending # <<>>
            /\ hs' = Lost(hs)
         \/ /\ Due12(hs, m1.t) /\ Holds12(m1)
            /\ m1.t # "done"
            /\ hs' = c
         \/ /\ Due12(hs, m1.t) /\ Holds12(m1) /\ c.pending = <<>>
            /\ m1.t = "done"
            /\ hs' = [c EXCEPT !.phase = "final12", !.said = tr, !.tr = Append(tr, <<"cfin", "good">>)]
  /\ UNCHANGED <<srv, out>>

\* A session ticket in the clear, then the Finished under the new keys.
Final ==
  /\ hs.phase = "final12"
  /\ Complete
  /\ LET c == [Accept(hs, m1) EXCEPT !.seen = @ \cup {m1.t}]
         ticket == ~ hs.changed /\ m1.t = "nst" /\ hs.par.ticket /\ "nst" \notin hs.seen /\ m1.ok # "bad"
         fin == hs.changed /\ m1.t = "fin" /\ m1.ok = "good" /\ m1.over = hs.tr /\ c.pending = <<>>
     IN  \/ ticket /\ hs' = c
         \/ fin /\ Finish(c, c.tr)
         \/ ~ ticket /\ ~ fin /\ hs' = Lost(hs)
  /\ UNCHANGED <<srv, out>>

-----------------------------------------------------------------------------
\* The socket fails, memory or the deadline runs out.
Broken ==
  /\ hs.phase \notin {"start", "lost", "done", "failed"}
  /\ hs' = [hs EXCEPT !.phase = "lost", !.broken = TRUE]
  /\ UNCHANGED <<srv, out>>

\* The same but for the flag of a HelloRetryRequest.
reset_manual_tls_handshake_Retry(c) == [Fresh EXCEPT !.tls_retry_seen = c.tls_retry_seen] @@ c

\* Everything an attempt leaves in the connection is cleared for the next one.
reset_manual_tls_handshake(c) == Fresh @@ c

\* connect_manual_tls_endpoint: a failed ChaCha attempt is followed by one with
\* the AES offer on a new socket, if that can be connected.
NextOffer ==
  /\ hs.phase = "lost"
  /\ IF hs.offer = "chacha"
     THEN /\ hs' = [reset_manual_tls_handshake(hs) EXCEPT !.offer = "aes", !.phase = "start", !.broken = FALSE]
          /\ srv' = [srv EXCEPT !.phase = "hello", !.version = srv.plan.version, !.tr = <<>>, !.fault = FALSE]
          /\ out' = <<>>
     ELSE /\ Go("failed")
          /\ UNCHANGED <<srv, out>>

HsInit ==
  /\ \E o \in {"chacha", "aes"} : hs = [offer |-> o, phase |-> "start", broken |-> FALSE] @@ Fresh
  /\ \E p \in Plans : srv = [plan |-> p, version |-> p.version, phase |-> "hello", tr |-> <<>>, fault |-> FALSE, faults |-> 0]
  /\ out = <<>>

HsNext ==
  \/ ServerHello \/ ServerFlight \/ ServerFinal
  \/ SendHello \/ ReadRecord \/ Hello \/ Encrypted \/ Flight \/ Final \/ Broken \/ NextOffer

-----------------------------------------------------------------------------
\* The flights a client may accept, written down as sequences.  The code ties
\* the version of a ServerHello to no earlier HelloRetryRequest.
Legal ==
  LET p == srv.plan
      hello == {<<"sh">>, <<"hrr", "sh">>}
      opt(t) == {<<>>, <<t>>}
  IN  IF hs.suite # "tls12"
      THEN {h \o <<"ee">> \o r \o <<"cert", "cv", "fin">> : h \in hello, r \in opt("cr")}
      ELSE {h \o <<"cert">> \o Present(p.status, <<"status">>) \o Present(~ p.rsa, <<"ske">>) \o r \o <<"done">> \o n \o <<"fin">> :
              h \in hello, r \in opt("cr"), n \in IF p.ticket THEN opt("nst") ELSE {<<>>}}

\* What the server covers by its first Finished, and what it then expects the
\* client's Finished of TLS 1.3 to cover beyond that.
ServerView ==
  LET fins == {i \in DOMAIN srv.tr : srv.tr[i] = <<"fin", "good">>}
      last == IF fins = {} THEN Len(srv.tr) ELSE Min(fins)
      sent(t) == \E i \in 1..last : srv.tr[i] = <<t, "good">>
  IN  SubSeq(srv.tr, 1, last) \o
      (IF hs.suite = "tls12" THEN <<>>
       ELSE Present(srv.plan.alps /\ sent("ee"), <<<<"cee", "good">>>>) \o Present(sent("cr"), <<<<"ccert", "good">>>>))

\* A handshake is complete, and the pin file is asked about a certificate, only
\* when the server sent one of the legal flights, both sides saw the same
\* messages, those of a retried hello and of the client's own flight included,
\* and the certificate is trusted where the policy asks for that at once.
Authenticated ==
  hs.phase = "done" \/ hs.pin # "none" =>
    /\ hs.got \in Legal
    /\ hs.view = ServerView
    /\ Trusted

\* A server that keeps to the protocol, accepts the offer and has an acceptable
\* certificate (and HTTP/2 where the transport needs it, and no retry under
\* REALITY) is never refused: not for how its messages are cut into
\* records, not for a retry or a certificate request, and not for what an
\* earlier attempt on the same connection object left behind.
HonestServerAccepted ==
  hs.phase = "lost" =>
    srv.fault \/ hs.broken \/ hs.offer \notin srv.plan.suites \/ ~ Trusted \/ hs.pin = "refused"
    \/ (srv.plan.retry /\ srv.plan.policy = "reality")
    \/ (srv.plan.h2 /\ (srv.plan.alpn # "h2" \/ srv.plan.rsa))
=============================================================================
