----------------------------- MODULE TlsRecords -----------------------------
(***************************************************************************)
(* The record layer of an established TLS 1.3 connection                   *)
(* (src/tls_records.c, tls13_finish_write of src/tls13_reality.c).         *)
(*                                                                         *)
(* Each direction has a key generation and a sequence number; a record     *)
(* opens only under the pair it was sealed with.  A KeyUpdate message is   *)
(* sealed under the old key and the new one starts at zero.  The client    *)
(* renews its own key after RekeyLimit records and asks for a new one      *)
(* after receiving that many; an update that asks is answered.  The peer   *)
(* is any conforming TLS 1.3 endpoint: it may renew its key, ask, send     *)
(* session tickets, and spread a handshake message over two records.       *)
(*                                                                         *)
(* A handshake message is two tokens, its header and its body: a ticket is *)
(* <<"T1", "T2">>, a KeyUpdate <<"K1", "K2">> or, asking, <<"K1", "K3">>.  *)
(***************************************************************************)
EXTENDS Integers, Sequences, FiniteSets

CONSTANTS
    RekeyLimit,  \* TLS_RECORD_REKEY_LIMIT
    HardLimit,   \* TLS_RECORD_HARD_LIMIT
    MaxSent,     \* bound on the data records of each side
    MaxUpdates,  \* bound on the peer's spontaneous key updates
    MaxTickets   \* bound on the peer's tickets

ASSUME LimitsAssumption ==
    /\ RekeyLimit \in Nat \ {0} /\ HardLimit \in Nat /\ RekeyLimit + 1 < HardLimit
    /\ MaxSent \in Nat /\ MaxUpdates \in Nat /\ MaxTickets \in Nat

VARIABLES
    send,            \* the client's sending key: generation and c_app_seq
    receive,         \* the client's receiving key: generation and s_app_seq
    requested,       \* tls_receive_update_requested
    send_closed,
    receive_closed,
    failed,          \* reading or writing returned -1
    post,            \* tls_post_handshake, the incomplete message
    delivered,       \* data records appended to the cache
    written,         \* data records the client has sealed
    requests,        \* history: updates the client has asked for
    up, down,        \* records under way
    peer,            \* the peer's state
    cut              \* the connection ended without close_notify

vars == <<send, receive, requested, send_closed, receive_closed, failed, post,
          delivered, written, requests, up, down, peer, cut>>

Fresh == [generation |-> 0, seq |-> 0]
NextKey(key) == [generation |-> key.generation + 1, seq |-> 0]
Advance(key) == [generation |-> key.generation, seq |-> key.seq + 1]

Sealed(key, type, body) == [key |-> key, type |-> type, body |-> body]

Ticket == <<"T1", "T2">>
Update(asking) == <<"K1", IF asking THEN "K3" ELSE "K2">>

Init ==
    /\ send = Fresh /\ receive = Fresh
    /\ requested = FALSE
    /\ send_closed = FALSE /\ receive_closed = FALSE /\ failed = FALSE
    /\ post = <<>>
    /\ delivered = 0 /\ written = 0 /\ requests = 0
    /\ up = <<>> /\ down = <<>>
    /\ peer = [send |-> Fresh, receive |-> Fresh, owes |-> FALSE, part |-> <<>>,
               sent |-> 0, updates |-> 0, tickets |-> 0, closed |-> FALSE]
    /\ cut = FALSE

-----------------------------------------------------------------------------
(* The client.                                                             *)

\* Mutant: the message is sealed under the new key.
KeyUpdate_NewKeyFirst(key, asking) ==
    [records |-> <<Sealed(NextKey(key), "handshake", Update(asking))>>, key |-> Advance(NextKey(key))]

\* tls_key_update_send: the records to send and the key that follows.
KeyUpdate(key, asking) ==
    [records |-> <<Sealed(key, "handshake", Update(asking))>>, key |-> NextKey(key)]

\* tls_prepare_app_record.
Prepared(key) ==
    IF key.seq >= RekeyLimit THEN KeyUpdate(key, FALSE) ELSE [records |-> <<>>, key |-> key]

\* reality_write_app_records, one record of it.
WriteApp ==
    /\ ~send_closed /\ ~failed /\ ~cut
    /\ written < MaxSent
    /\ LET p == Prepared(send)
       IN  IF p.key.seq >= HardLimit
             THEN /\ failed' = TRUE
                  /\ UNCHANGED <<send, written, up>>
             ELSE /\ up' = up \o p.records \o <<Sealed(p.key, "data", <<>>)>>
                  /\ send' = Advance(p.key)
                  /\ written' = written + 1
                  /\ UNCHANGED failed
    /\ UNCHANGED <<receive, requested, send_closed, receive_closed, post, delivered,
                   requests, down, peer, cut>>

\* tls13_finish_write: close_notify.
FinishWrite ==
    /\ ~send_closed /\ ~failed /\ ~cut
    /\ IF send.seq >= HardLimit
         THEN failed' = TRUE /\ UNCHANGED <<send, send_closed, up>>
         ELSE /\ up' = up \o <<Sealed(send, "alert", <<>>)>>
              /\ send' = Advance(send)
              /\ send_closed' = TRUE
              /\ UNCHANGED failed
    /\ UNCHANGED <<receive, requested, receive_closed, post, delivered, written,
                   requests, down, peer, cut>>

\* tls_post_handshake on the bytes collected so far: complete messages are
\* taken one after the other, an update must be the last thing in its record,
\* and what remains is an incomplete message.
Messages(tokens) == Len(tokens) \div 2

Updates(tokens) == {i \in 1..Messages(tokens) : tokens[2 * i - 1] = "K1"}

\* Mutant: a complete ticket stays in the buffer.
PostHandshake_KeepsTicket(tokens) ==
    [update |-> Updates(tokens) # {},
     asking |-> \E i \in Updates(tokens) : tokens[2 * i] = "K3",
     rest |-> IF Updates(tokens) # {} THEN <<>> ELSE tokens,
     bad |-> \E i \in Updates(tokens) : 2 * i < Len(tokens)]

PostHandshake(tokens) ==
    [update |-> Updates(tokens) # {},
     asking |-> \E i \in Updates(tokens) : tokens[2 * i] = "K3",
     rest |-> SubSeq(tokens, 2 * Messages(tokens) + 1, Len(tokens)),
     bad |-> \E i \in Updates(tokens) : 2 * i < Len(tokens)]

\* The flag a new receiving key clears (tls_update_keys) and a request sets.
RequestDue(key, rest, asked) ==
    rest = <<>> /\ key.seq >= RekeyLimit /\ ~asked /\ ~send_closed

AskedAfter(due, asked) == due \/ asked

\* decrypt_record_into.
Opens(record) == record.key = receive /\ receive.seq < HardLimit

\* fill_reality_plain_cache and tls_application_plain on the next record.
Fail ==
    /\ failed' = TRUE
    /\ UNCHANGED <<send, receive, requested, receive_closed, post, delivered, requests, up>>

\* A data record, or a handshake record h that leaves key and asked.
Accept(key, asked, rest, answer, data) ==
    LET due == RequestDue(key, rest, asked)
        reply == IF answer THEN KeyUpdate(send, FALSE) ELSE [records |-> <<>>, key |-> send]
        ask == IF due THEN KeyUpdate(reply.key, TRUE) ELSE [records |-> <<>>, key |-> reply.key]
    IN  /\ receive' = key
        /\ post' = rest
        /\ requested' = AskedAfter(due, asked)
        /\ requests' = IF due THEN requests + 1 ELSE requests
        /\ up' = up \o reply.records \o ask.records
        /\ send' = ask.key
        /\ delivered' = delivered + data
        /\ UNCHANGED <<receive_closed, failed>>

ReceiveRecord ==
    /\ ~receive_closed /\ ~failed /\ down # <<>>
    /\ down' = Tail(down)
    /\ LET record == Head(down)
           key == Advance(receive)
           h == PostHandshake(post \o record.body)
       IN  CASE ~Opens(record) -> Fail
             [] Opens(record) /\ record.type = "data" ->
                  IF post # <<>> THEN Fail ELSE Accept(key, requested, <<>>, FALSE, 1)
             [] Opens(record) /\ record.type = "alert" ->
                  IF post # <<>>
                    THEN Fail
                    ELSE /\ receive_closed' = TRUE /\ receive' = key
                         /\ UNCHANGED <<send, requested, failed, post, delivered, requests, up>>
             [] Opens(record) /\ record.type = "handshake" ->
                  IF h.bad \/ (h.asking /\ send_closed)
                    THEN Fail
                    ELSE Accept(IF h.update THEN NextKey(receive) ELSE key,
                                requested /\ ~h.update, h.rest, h.asking, 0)
    /\ UNCHANGED <<send_closed, written, peer, cut>>

\* The end of the connection where a record should begin.
ReceiveEof ==
    /\ ~receive_closed /\ ~failed /\ down = <<>> /\ cut
    /\ failed' = TRUE
    /\ UNCHANGED <<send, receive, requested, send_closed, receive_closed, post, delivered,
                   written, requests, up, down, peer, cut>>

-----------------------------------------------------------------------------
(* The peer.  A handshake message it has begun is finished by its next     *)
(* record, and an update it owes goes out before any more data.            *)

PeerSends(records, next) ==
    /\ ~peer.closed /\ ~cut
    /\ down' = down \o records
    /\ peer' = next
    /\ UNCHANGED <<send, receive, requested, send_closed, receive_closed, failed, post,
                   delivered, written, requests, up, cut>>

PeerData ==
    /\ peer.part = <<>> /\ ~peer.owes /\ peer.sent < MaxSent
    /\ PeerSends(<<Sealed(peer.send, "data", <<>>)>>,
                 [peer EXCEPT !.send = Advance(@), !.sent = @ + 1])

PeerTicket ==
    /\ peer.part = <<>> /\ peer.tickets < MaxTickets
    /\ PeerSends(<<Sealed(peer.send, "handshake", Ticket)>>,
                 [peer EXCEPT !.send = Advance(@), !.tickets = @ + 1])

\* An update of its own, or the answer to the client's request; a ticket may
\* go in front of it, and the message may be spread over two records.
PeerUpdate(asking, ticket) ==
    /\ peer.part = <<>>
    /\ peer.owes \/ peer.updates < MaxUpdates
    /\ ticket => peer.tickets < MaxTickets
    /\ PeerSends(<<Sealed(peer.send, "handshake",
                          (IF ticket THEN Ticket ELSE <<>>) \o Update(asking))>>,
                 [peer EXCEPT !.send = NextKey(@), !.owes = FALSE,
                              !.updates = IF peer.owes THEN @ ELSE @ + 1,
                              !.tickets = IF ticket THEN @ + 1 ELSE @])

PeerBegins(message) ==
    /\ peer.part = <<>>
    /\ IF message = Ticket THEN peer.tickets < MaxTickets
                           ELSE peer.owes \/ peer.updates < MaxUpdates
    /\ PeerSends(<<Sealed(peer.send, "handshake", SubSeq(message, 1, 1))>>,
                 [peer EXCEPT !.send = Advance(@), !.part = message])

PeerContinues ==
    /\ peer.part # <<>>
    /\ LET ticket == peer.part = Ticket
       IN  PeerSends(<<Sealed(peer.send, "handshake", SubSeq(peer.part, 2, 2))>>,
                     [peer EXCEPT !.send = IF ticket THEN Advance(@) ELSE NextKey(@),
                                  !.part = <<>>,
                                  !.owes = @ /\ ticket,
                                  !.tickets = IF ticket THEN @ + 1 ELSE @,
                                  !.updates = IF ticket \/ peer.owes THEN @ ELSE @ + 1])

PeerCloses ==
    /\ peer.part = <<>>
    /\ PeerSends(<<Sealed(peer.send, "alert", <<>>)>>,
                 [peer EXCEPT !.send = Advance(@), !.closed = TRUE])

PeerReceives ==
    /\ up # <<>> /\ Head(up).key = peer.receive
    /\ LET record == Head(up)
           update == record.type = "handshake"
       IN  peer' = [peer EXCEPT !.receive = IF update THEN NextKey(@) ELSE Advance(@),
                                !.owes = @ \/ (update /\ record.body = Update(TRUE) /\ ~peer.closed)]
    /\ up' = Tail(up)
    /\ UNCHANGED <<send, receive, requested, send_closed, receive_closed, failed, post,
                   delivered, written, requests, down, cut>>

\* The connection is lost before the peer's close_notify, with some of what
\* was under way.
Cut ==
    /\ ~cut /\ ~peer.closed
    /\ cut' = TRUE
    /\ \E n \in 0..Len(down) : down' = SubSeq(down, 1, n)
    /\ UNCHANGED <<send, receive, requested, send_closed, receive_closed, failed, post,
                   delivered, written, requests, up, peer>>

Next ==
    \/ WriteApp
    \/ FinishWrite
    \/ ReceiveRecord
    \/ ReceiveEof
    \/ PeerData
    \/ PeerTicket
    \/ \E asking, ticket \in BOOLEAN : PeerUpdate(asking, ticket)
    \/ \E message \in {Ticket, Update(TRUE), Update(FALSE)} : PeerBegins(message)
    \/ PeerContinues
    \/ PeerCloses
    \/ PeerReceives
    \/ Cut

Spec == Init /\ [][Next]_vars

-----------------------------------------------------------------------------
\* Both ends of a direction always agree on the key: the next record under way
\* opens under the key its receiver holds, and with nothing under way both
\* hold the same one, whatever updates, answers and requests have crossed
\* (tls_update_keys and tls_key_update_send, tls_records.c:767-792).
KeysAgree ==
    /\ IF up = <<>> THEN peer.receive = send ELSE Head(up).key = peer.receive
    /\ failed \/ receive_closed
         \/ IF down = <<>> THEN cut \/ receive = peer.send ELSE Head(down).key = receive

\* The client renews its key long before a sequence number runs out: sealing
\* never meets the hard limit, even when answers, requests and close_notify
\* come on top of the data (tls_prepare_app_record, tls_records.c:794-797).
SealAlwaysPossible == send.seq <= RekeyLimit + 1

\* The client asks for a new key at most once under each receiving key
\* (tls_receive_update_requested, tls_records.c:853-856).
AskedOncePerKey == requests <= receive.generation + 1

\* Keys under both limits and crossing KeyUpdates: the ends use the same key
\* for every record, a record can always be sealed before the hard limit, and
\* the peer is asked for a new key at most once per key.
KeysKept == KeysAgree /\ SealAlwaysPossible /\ AskedOncePerKey

\* The end of the stream is reported only after close_notify, when all the
\* peer's data has been delivered; a lost connection is a failure
\* (fill_reality_plain_cache, tls_records.c:938-942).
CleanEndIsComplete == receive_closed => delivered = peer.sent

\* A conforming peer never makes the client fail while its sending side is
\* open, however it spreads, coalesces and times tickets and key updates,
\* unless it ignores the request for a new key until the hard limit
\* (tls_post_handshake and tls_application_plain, tls_records.c:820-858).
FailsForCause == failed => cut \/ send_closed \/ receive.seq = HardLimit

\* A connection ends as it was ended: a clean end is reported only with all
\* data before it, a failure only for a cut, a record behind the own
\* close_notify, or a peer that never updates its key.
EndsForCause == CleanEndIsComplete /\ FailsForCause

\* The response survives the client's half-close: after close_notify has been
\* sent, reading fails only when the connection is lost or the peer runs
\* into the hard limit (the test test_transport_finish_write_preserves_response
\* of tests/test_xray.py, its case of a TLS connection over TCP).
ResponseSurvivesHalfClose == failed => cut \/ receive.seq = HardLimit
=============================================================================
