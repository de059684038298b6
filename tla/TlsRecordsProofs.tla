-------------------------- MODULE TlsRecordsProofs --------------------------
(***************************************************************************)
(* Proofs about TlsRecords, for every limit and every number of records,   *)
(* updates and tickets: the keys of both directions stay in step, sealing  *)
(* never meets the hard limit, and a connection ends as it was ended.      *)
(*                                                                         *)
(* The records under way form a chain.  A record is sealed at a position   *)
(* of the stream, a key with the beginning of a message that the record    *)
(* completes, and leaves the stream at another; each record is sealed      *)
(* where the one before it left off, the first one where the receiver is   *)
(* and the last one leaves off where the sender is.                        *)
(***************************************************************************)
EXTENDS TlsRecords, TLAPS

\* Sequences with the same elements are equal.
LEMMA SameElements ==
  ASSUME NEW S, NEW s \in Seq(S), NEW t \in Seq(S), Len(s) = Len(t), \A i \in 1..Len(s) : s[i] = t[i]
  PROVE  s = t
  OBVIOUS

\* Sequences of one kind of element make one when joined.
LEMMA Joined ==
  ASSUME NEW S, NEW s \in Seq(S), NEW t \in Seq(S)
  PROVE  /\ s \o t \in Seq(S) /\ Len(s \o t) = Len(s) + Len(t)
         /\ \A i \in 1..(Len(s) + Len(t)) : (s \o t)[i] = IF i <= Len(s) THEN s[i] ELSE t[i - Len(s)]
  OBVIOUS

Key == [generation : Nat, seq : Nat]

Token == {"T1", "T2", "K1", "K2", "K3"}

Asking == <<"K1", "K3">>
Plain == <<"K1", "K2">>
TicketAsking == <<"T1", "T2", "K1", "K3">>
TicketPlain == <<"T1", "T2", "K1", "K2">>

Begun == {<<"T1">>, <<"K1">>}
Renewing == {<<"K2">>, <<"K3">>, Asking, Plain, TicketAsking, TicketPlain}
Bodies == Begun \cup Renewing \cup {<<"T2">>, Ticket}

Record == [key : Key, type : {"data", "alert"}, body : {<<>>}]
            \cup [key : Key, type : {"handshake"}, body : Bodies]

\* The beginning of a message that a body completes, and the one it leaves.
Needs(body) ==
    IF body = <<"T2">> THEN <<"T1">>
    ELSE IF body \in {<<"K2">>, <<"K3">>} THEN <<"K1">> ELSE <<>>
Leaves(body) == IF body \in Begun THEN body ELSE <<>>

Position == [key : Key, half : Begun \cup {<<>>}]
At(key, half) == [key |-> key, half |-> half]

Before(r) == At(r.key, Needs(r.body))
After(r) == At(IF r.body \in Renewing THEN NextKey(r.key) ELSE Advance(r.key), Leaves(r.body))

Linked(s) == \A i \in 1..(Len(s) - 1) : Before(s[i + 1]) = After(s[i])
Starts(s, p) == s # <<>> => Before(s[1]) = p
Chain(s, p, q) ==
    /\ Linked(s) /\ Starts(s, p)
    /\ IF s = <<>> THEN p = q ELSE After(s[Len(s)]) = q

\* Data records of s, by a running count: n before the first, m behind the last.
Counted(s, n, m) ==
    \E c \in [1..(Len(s) + 1) -> Nat] :
       /\ c[1] = n /\ c[Len(s) + 1] = m
       /\ \A i \in 1..Len(s) : c[i + 1] = c[i] + (IF s[i].type = "data" THEN 1 ELSE 0)

-----------------------------------------------------------------------------
Peer == [send : Key, receive : Key, owes : BOOLEAN, part : {<<>>, Ticket, Asking, Plain},
         sent : Nat, updates : Nat, tickets : Nat, closed : BOOLEAN]

TypeOK ==
    /\ send \in Key /\ receive \in Key
    /\ requested \in BOOLEAN /\ send_closed \in BOOLEAN /\ receive_closed \in BOOLEAN
    /\ failed \in BOOLEAN /\ cut \in BOOLEAN
    /\ post \in Begun \cup {<<>>}
    /\ delivered \in Nat /\ written \in Nat /\ requests \in Nat
    /\ down \in Seq(Record) /\ peer \in Peer

\* Where the peer's stream stands.
Half(part) == IF part = <<>> THEN <<>> ELSE <<part[1]>>
PeerAt == At(peer.send, Half(peer.part))

Reading == ~failed /\ ~receive_closed

\* The records to the peer, and those to a client that still reads.
Upward(s, key, next) ==
    /\ s \in Seq(Record) /\ Chain(s, At(key, <<>>), At(next, <<>>))
    /\ \A i \in 1..Len(s) : s[i].type = "handshake" => s[i].body \in {Asking, Plain}

UpInv == Upward(up, peer.receive, send)

DownInv ==
    Reading =>
       /\ Linked(down) /\ Starts(down, At(receive, post))
       /\ ~cut => Chain(down, At(receive, post), PeerAt) /\ Counted(down, delivered, peer.sent)

\* close_notify is the last thing the peer sends; it survives if it was sent.
CloseInv ==
    /\ cut => ~peer.closed
    /\ \A i \in 1..Len(down) : down[i].type = "alert" => peer.closed /\ i = Len(down)
    /\ receive_closed => peer.closed /\ delivered = peer.sent

LimitInv ==
    /\ send.seq <= RekeyLimit + (IF send_closed THEN 1 ELSE 0)
    /\ receive.seq <= HardLimit
    /\ requests <= receive.generation + (IF requested THEN 1 ELSE 0)

Inv == TypeOK /\ UpInv /\ DownInv /\ CloseInv /\ LimitInv /\ FailsForCause

-----------------------------------------------------------------------------
\* Where the elements of a concatenation come from.
LEMMA Concatenated ==
    ASSUME NEW s \in Seq(Token), NEW t \in Seq(Token)
    PROVE  /\ s \o t \in Seq(Token) /\ Len(s \o t) = Len(s) + Len(t)
           /\ \A i \in 1..Len(s) : (s \o t)[i] = s[i]
           /\ \A i \in 1..Len(t) : (s \o t)[Len(s) + i] = t[i]
OBVIOUS

\* Nothing in front changes nothing.
LEMMA NothingInFront ==
    ASSUME NEW s \in Seq(Token)
    PROVE  <<>> \o s = s
  OBVIOUS

\* The two halves of a message, one behind the other.
LEMMA OneAndOne ==
    ASSUME NEW s \in Seq(Token), NEW t \in Seq(Token), Len(s) = 1, Len(t) = 1
    PROVE  Len(s \o t) = 2 /\ (s \o t)[1] = s[1]
<1> DEFINE u == s \o t
<1>1. Len(u) = Len(s) + Len(t) /\ \A i \in 1..Len(s) : u[i] = s[i]
  BY Zenon, Concatenated
<1> HIDE DEF u
<1>2. Len(u) = 2 /\ u[1] = s[1]
  BY <1>1
<1> QED
  BY <1>2 DEF u

\* Two messages of two tokens, one behind the other.
LEMMA TwoAndTwo ==
    ASSUME NEW s \in Seq(Token), NEW t \in Seq(Token), Len(s) = 2, Len(t) = 2
    PROVE  /\ s \o t \in Seq(Token) /\ Len(s \o t) = 4
           /\ (s \o t)[1] = s[1] /\ (s \o t)[2] = s[2]
           /\ (s \o t)[3] = t[1] /\ (s \o t)[4] = t[2]
<1> DEFINE u == s \o t
<1>1. /\ u \in Seq(Token) /\ Len(u) = Len(s) + Len(t)
      /\ \A i \in 1..Len(s) : u[i] = s[i]
      /\ \A i \in 1..Len(t) : u[Len(s) + i] = t[i]
  BY Zenon, Concatenated
<1> HIDE DEF u
<1>2. u[1] = s[1] /\ u[2] = s[2]
  BY <1>1
<1>3. u[2 + 1] = t[1] /\ u[2 + 2] = t[2]
  BY <1>1
<1>4. u[3] = t[1] /\ u[4] = t[2] /\ Len(u) = 4
  BY <1>1, <1>3
<1> QED
  BY <1>1, <1>2, <1>4 DEF u

\* The tokens of KeyUpdate messages, and what tells the bodies apart.
LEMMA Bodied ==
    /\ Update(TRUE) = Asking /\ Update(FALSE) = Plain
    /\ Ticket \o Asking = TicketAsking /\ Ticket \o Plain = TicketPlain
    /\ <<>> \o Asking = Asking /\ <<>> \o Plain = Plain
    /\ <<>> \notin Bodies
    /\ Ticket \notin Renewing \cup Begun /\ <<"T2">> \notin Renewing \cup Begun
    /\ \A b \in Begun : b \notin Renewing
    /\ Asking # Ticket /\ Plain # Ticket
<1>1. Update(TRUE) = Asking /\ Update(FALSE) = Plain
  BY DEF Update, Asking, Plain
<1>2. Ticket \o Asking = TicketAsking /\ Ticket \o Plain = TicketPlain
  <2> DEFINE s == Ticket \o Asking
             t == Ticket \o Plain
  <2>0. /\ Ticket \in Seq(Token) /\ Len(Ticket) = 2 /\ Ticket[1] = "T1" /\ Ticket[2] = "T2"
        /\ Asking \in Seq(Token) /\ Len(Asking) = 2 /\ Asking[1] = "K1" /\ Asking[2] = "K3"
        /\ Plain \in Seq(Token) /\ Len(Plain) = 2 /\ Plain[1] = "K1" /\ Plain[2] = "K2"
    BY DEF Ticket, Asking, Plain, Token
  <2>1. /\ s \in Seq(Token) /\ Len(s) = 4
        /\ s[1] = "T1" /\ s[2] = "T2" /\ s[3] = "K1" /\ s[4] = "K3"
    BY <2>0, TwoAndTwo
  <2>2. /\ t \in Seq(Token) /\ Len(t) = 4
        /\ t[1] = "T1" /\ t[2] = "T2" /\ t[3] = "K1" /\ t[4] = "K2"
    BY <2>0, TwoAndTwo
  <2>3. /\ TicketAsking \in Seq(Token) /\ Len(TicketAsking) = 4
        /\ \A i \in 1..4 : s[i] = TicketAsking[i]
    BY <2>1 DEF TicketAsking, Token
  <2>4. /\ TicketPlain \in Seq(Token) /\ Len(TicketPlain) = 4
        /\ \A i \in 1..4 : t[i] = TicketPlain[i]
    BY <2>2 DEF TicketPlain, Token
  <2> HIDE DEF s, t
  <2> QED
    BY Zenon, <2>1, <2>2, <2>3, <2>4, SameElements DEF s, t
<1>3. <<>> \o Asking = Asking /\ <<>> \o Plain = Plain
  BY DEF Asking, Plain
<1>4. <<>> \notin Bodies
  BY DEF Bodies, Begun, Renewing, Asking, Plain, TicketAsking, TicketPlain, Ticket
<1>5. Ticket \notin Renewing \cup Begun /\ <<"T2">> \notin Renewing \cup Begun
  BY DEF Begun, Renewing, Asking, Plain, TicketAsking, TicketPlain, Ticket
<1>6. \A b \in Begun : b \notin Renewing
  BY DEF Begun, Renewing, Asking, Plain, TicketAsking, TicketPlain
<1>7. Asking # Ticket /\ Plain # Ticket
  BY DEF Asking, Plain, Ticket
<1> QED
  BY Zenon, <1>1, <1>2, <1>3, <1>4, <1>5, <1>6, <1>7

\* tls_post_handshake on half a message, on one, and on a ticket before an update.
LEMMA HalfMessage ==
    ASSUME NEW t \in Seq(Token), Len(t) = 1
    PROVE  LET h == PostHandshake(t)
           IN  ~ h.bad /\ h.rest = t /\ h.update = FALSE /\ h.asking = FALSE
<1>1. Messages(t) = 0
  BY DEF Messages
<1>2. Updates(t) = {}
  BY <1>1 DEF Updates
<1>3. SubSeq(t, 1, 1) = t
  <2>1. /\ SubSeq(t, 1, 1) \in Seq(Token) /\ Len(SubSeq(t, 1, 1)) = 1 /\ SubSeq(t, 1, 1)[1] = t[1]
    OBVIOUS
  <2> QED
    BY <2>1, SameElements
<1>4. PostHandshake(t).bad = FALSE /\ PostHandshake(t).asking = FALSE
  BY <1>2 DEF PostHandshake
<1>5. PostHandshake(t).update = FALSE
  BY Zenon, <1>2 DEF PostHandshake
<1>6. PostHandshake(t).rest = t
  BY <1>1, <1>3 DEF PostHandshake
<1> QED
  BY <1>4, <1>5, <1>6

\* What tls_post_handshake makes of a record that completes one message.
LEMMA OneMessage ==
    ASSUME NEW t \in Seq(Token), Len(t) = 2
    PROVE  LET h == PostHandshake(t)
           IN  ~ h.bad /\ h.rest = <<>> /\ h.update = (t[1] = "K1") /\ h.asking \in BOOLEAN
<1>1. Messages(t) = 1
  BY DEF Messages
<1>2. Updates(t) = IF t[1] = "K1" THEN {1} ELSE {}
  BY <1>1 DEF Updates
<1>3. SubSeq(t, 3, 2) = <<>>
  OBVIOUS
<1>4. PostHandshake(t).bad = FALSE
  BY <1>2 DEF PostHandshake
<1>5. PostHandshake(t).update = (t[1] = "K1")
  BY <1>2 DEF PostHandshake
<1>6. PostHandshake(t).rest = <<>> /\ PostHandshake(t).asking \in BOOLEAN
  BY <1>1, <1>3 DEF PostHandshake
<1> QED
  BY <1>4, <1>5, <1>6

\* The same of a record with a ticket and a key update.
LEMMA TwoMessages ==
    ASSUME NEW t \in Seq(Token), Len(t) = 4, t[1] = "T1", t[3] = "K1"
    PROVE  LET h == PostHandshake(t)
           IN  ~ h.bad /\ h.rest = <<>> /\ h.update = TRUE /\ h.asking \in BOOLEAN
<1>1. Messages(t) = 2
  BY DEF Messages
<1>2. Updates(t) = {2}
  <2>1. \A i \in 1..2 : t[2 * i - 1] = "K1" <=> i = 2
    OBVIOUS
  <2> QED
    BY <1>1, <2>1 DEF Updates
<1>3. SubSeq(t, 5, 4) = <<>>
  OBVIOUS
<1>4. PostHandshake(t).bad = FALSE
  BY <1>2 DEF PostHandshake
<1>5. PostHandshake(t).update = TRUE
  BY Zenon, <1>2 DEF PostHandshake
<1>6. PostHandshake(t).rest = <<>> /\ PostHandshake(t).asking \in BOOLEAN
  BY <1>1, <1>3 DEF PostHandshake
<1> QED
  BY <1>4, <1>5, <1>6

\* tls_post_handshake on a message that a record completes, or begins.
LEMMA PostHandshakeExact ==
    ASSUME NEW body \in Bodies
    PROVE  LET h == PostHandshake(Needs(body) \o body)
           IN  /\ ~ h.bad /\ h.rest = Leaves(body) /\ h.update = (body \in Renewing)
               /\ h.asking \in BOOLEAN
<1> DEFINE t == Needs(body) \o body
<1>0. body \in Seq(Token) /\ Needs(body) \in Seq(Token) /\ t \in Seq(Token)
  <2>1. body \in Seq(Token)
    <3>1. /\ <<"T1">> \in Seq(Token) /\ <<"K1">> \in Seq(Token) /\ <<"T2">> \in Seq(Token)
          /\ <<"K2">> \in Seq(Token) /\ <<"K3">> \in Seq(Token)
      BY DEF Token
    <3>2. /\ Ticket \in Seq(Token) /\ Asking \in Seq(Token) /\ Plain \in Seq(Token)
          /\ TicketAsking \in Seq(Token) /\ TicketPlain \in Seq(Token)
      BY DEF Ticket, Asking, Plain, TicketAsking, TicketPlain, Token
    <3> QED
      BY Zenon, <3>1, <3>2 DEF Bodies, Begun, Renewing
  <2>2. Needs(body) \in Seq(Token)
    <3>1. <<>> \in Seq(Token) /\ <<"T1">> \in Seq(Token) /\ <<"K1">> \in Seq(Token)
      BY DEF Token
    <3> QED
      BY <3>1 DEF Needs
  <2> QED
    BY <2>1, <2>2, Joined
<1>1. CASE body \in Begun
  <2>1. Needs(body) = <<>> /\ Len(body) = 1 /\ body \notin Renewing
    BY <1>1, Bodied DEF Needs, Begun
  <2>2. t = body
    BY Zenon, <1>0, <2>1, NothingInFront
  <2> QED
    <3>1. LET h == PostHandshake(body)
          IN  ~ h.bad /\ h.rest = body /\ h.update = FALSE /\ h.asking = FALSE
      BY Zenon, <1>0, <2>1, HalfMessage
    <3>2. Leaves(body) = body /\ (body \in Renewing) = FALSE
      BY <1>1, <2>1 DEF Leaves
    <3> QED
      BY Zenon, <2>1, <2>2, <3>1, <3>2
<1>2. CASE body = Ticket
  <2>1. Needs(body) = <<>> /\ Len(body) = 2 /\ body[1] = "T1"
    BY <1>2 DEF Needs, Ticket
  <2>2. t = body
    BY Zenon, <1>0, <2>1, NothingInFront
  <2> QED
    <3>1. body \notin Renewing /\ body \notin Begun
      BY <1>2, Bodied
    <3>2. Leaves(body) = <<>> /\ (body[1] = "K1") = FALSE
      BY <2>1, <3>1 DEF Leaves
    <3>3. LET h == PostHandshake(body)
          IN  ~ h.bad /\ h.rest = <<>> /\ h.update = (body[1] = "K1") /\ h.asking \in BOOLEAN
      BY <1>0, <2>1, OneMessage
    <3> QED
      BY <2>2, <3>1, <3>2, <3>3
<1>3. CASE body = <<"T2">>
  <2>1. Needs(body) = <<"T1">>
    BY <1>3 DEF Needs
  <2>2. Len(t) = 2 /\ t[1] = "T1"
    <3>1. <<"T1">> \in Seq(Token) /\ Len(<<"T1">>) = 1 /\ <<"T1">>[1] = "T1" /\ Len(<<"T2">>) = 1
      BY DEF Token
    <3> QED
      BY <1>0, <1>3, <2>1, <3>1, OneAndOne
  <2> QED
    <3>1. body \notin Renewing /\ body \notin Begun
      BY <1>3, Bodied
    <3> HIDE DEF t
    <3>2. Leaves(body) = <<>> /\ (t[1] = "K1") = FALSE /\ (body \in Renewing) = FALSE
      BY <2>2, <3>1 DEF Leaves
    <3>3. LET h == PostHandshake(t)
          IN  ~ h.bad /\ h.rest = <<>> /\ h.update = (t[1] = "K1") /\ h.asking \in BOOLEAN
      BY <1>0, <2>2, OneMessage
    <3> QED
      BY Zenon, <3>1, <3>2, <3>3 DEF t
<1>4. CASE body \in {<<"K2">>, <<"K3">>}
  <2>1. Needs(body) = <<"K1">> /\ Len(body) = 1
    BY <1>4 DEF Needs
  <2>2. Len(t) = 2 /\ t[1] = "K1"
    <3>1. <<"K1">> \in Seq(Token) /\ Len(<<"K1">>) = 1 /\ <<"K1">>[1] = "K1"
      BY DEF Token
    <3> QED
      BY <1>0, <2>1, <3>1, OneAndOne
  <2>3. body \in Renewing /\ body \notin Begun
    BY <1>4, Bodied DEF Renewing
  <2> QED
    BY Zenon, <1>0, <2>2, <2>3, OneMessage DEF Leaves
<1>5. CASE body \in {Asking, Plain}
  <2>1. Needs(body) = <<>> /\ Len(body) = 2 /\ body[1] = "K1"
    BY <1>5 DEF Needs, Asking, Plain
  <2>2. t = body
    BY Zenon, <1>0, <2>1, NothingInFront
  <2>3. body \in Renewing /\ body \notin Begun
    BY <1>5, Bodied DEF Renewing
  <2> QED
    BY <1>0, <2>1, <2>2, <2>3, OneMessage DEF Leaves
<1>6. CASE body \in {TicketAsking, TicketPlain}
  <2>1. Needs(body) = <<>> /\ Len(body) = 4 /\ body[1] = "T1" /\ body[3] = "K1"
    BY <1>6 DEF Needs, TicketAsking, TicketPlain
  <2>2. t = body
    BY Zenon, <1>0, <2>1, NothingInFront
  <2>3. body \in Renewing /\ body \notin Begun
    BY <1>6, Bodied DEF Renewing
  <2> QED
    BY Zenon, <1>0, <2>1, <2>2, <2>3, TwoMessages DEF Leaves
<1> QED
  BY <1>1, <1>2, <1>3, <1>4, <1>5, <1>6 DEF Bodies, Renewing

\* A chain goes on where it left off.
LEMMA ChainConcat ==
    ASSUME NEW s \in Seq(Record), NEW t \in Seq(Record), NEW p, NEW q, NEW r,
           Chain(s, p, q), Chain(t, q, r)
    PROVE  Chain(s \o t, p, r)
<1> DEFINE u == s \o t
<1>1. u \in Seq(Record) /\ Len(u) = Len(s) + Len(t)
  OBVIOUS
<1>2. \A i \in 1..Len(s) : u[i] = s[i]
  OBVIOUS
<1>3. \A i \in 1..Len(t) : u[Len(s) + i] = t[i]
  OBVIOUS
<1>4. CASE s = <<>>
  BY <1>4 DEF Chain
<1>5. CASE t = <<>>
  BY <1>5 DEF Chain
<1>6. CASE s # <<>> /\ t # <<>>
  <2>1. Len(s) \in Nat \ {0} /\ Len(t) \in Nat \ {0}
    BY <1>6
  <2> HIDE DEF u
  <2>2. ASSUME NEW i \in 1..(Len(u) - 1)
        PROVE  Before(u[i + 1]) = After(u[i])
    <3>1. CASE i < Len(s)
      <4>1. i \in 1..(Len(s) - 1) /\ i \in 1..Len(s) /\ i + 1 \in 1..Len(s)
        BY <2>1, <3>1
      <4>2. u[i] = s[i] /\ u[i + 1] = s[i + 1]
        BY <1>2, <4>1
      <4> QED
        BY <4>1, <4>2 DEF Chain, Linked
    <3>2. CASE i = Len(s)
      BY <1>1, <1>2, <1>3, <1>6, <2>1, <3>2 DEF Chain, Starts
    <3>3. CASE i > Len(s)
      <4>1. (i - Len(s)) \in 1..(Len(t) - 1) /\ i - Len(s) + 1 \in 1..Len(t)
        BY <1>1, <2>1, <3>3
      <4>2. u[Len(s) + (i - Len(s))] = t[i - Len(s)] /\ u[Len(s) + (i - Len(s) + 1)] = t[i - Len(s) + 1]
        BY <1>3, <2>1, <4>1
      <4>3. Len(s) + (i - Len(s)) = i /\ Len(s) + (i - Len(s) + 1) = i + 1
        BY <2>1
      <4> QED
        BY <4>1, <4>2, <4>3 DEF Chain, Linked
    <3> QED
      BY <1>1, <2>1, <3>1, <3>2, <3>3
  <2>3. u # <<>> /\ u[1] = s[1] /\ u[Len(u)] = t[Len(t)]
    BY <1>1, <1>2, <1>3, <2>1
  <2> QED
    BY <1>6, <2>2, <2>3 DEF Chain, Linked, Starts, u
<1> QED
  BY <1>4, <1>5, <1>6

\* What is left of a chain when its first record is taken.
LEMMA ChainTail ==
    ASSUME NEW s \in Seq(Record), s # <<>>, NEW p, Linked(s), Starts(s, p)
    PROVE  /\ Head(s) \in Record /\ Tail(s) \in Seq(Record) /\ Before(Head(s)) = p
           /\ Linked(Tail(s)) /\ Starts(Tail(s), After(Head(s)))
           /\ \A q : Chain(s, p, q) => Chain(Tail(s), After(Head(s)), q)
<1> DEFINE t == Tail(s)
<1>1. Len(s) \in Nat \ {0} /\ Head(s) = s[1] /\ Head(s) \in Record
  OBVIOUS
<1>2. t \in Seq(Record) /\ Len(t) = Len(s) - 1 /\ \A i \in 1..Len(t) : t[i] = s[i + 1]
  OBVIOUS
<1> HIDE DEF t
<1>3. Linked(t)
  BY <1>1, <1>2 DEF Linked
<1>4. Starts(t, After(Head(s)))
  BY <1>1, <1>2 DEF Linked, Starts
<1>5. ASSUME NEW q, Chain(s, p, q)
      PROVE  IF t = <<>> THEN After(Head(s)) = q ELSE After(t[Len(t)]) = q
  BY <1>1, <1>2, <1>5 DEF Chain
<1> QED
  BY <1>1, <1>2, <1>3, <1>4, <1>5 DEF Chain, Starts, t

\* A chain that loses its end is still one.
LEMMA ChainPrefix ==
    ASSUME NEW s \in Seq(Record), NEW p, Linked(s), Starts(s, p), NEW n \in 0..Len(s)
    PROVE  LET t == SubSeq(s, 1, n)
           IN  /\ t \in Seq(Record) /\ Len(t) = n /\ Linked(t) /\ Starts(t, p)
               /\ \A i \in 1..n : t[i] = s[i]
<1> DEFINE t == SubSeq(s, 1, n)
<1>1. t \in Seq(Record) /\ Len(t) = n /\ \A i \in 1..n : t[i] = s[i]
  OBVIOUS
<1>2. Len(s) \in Nat /\ n \in Nat
  OBVIOUS
<1> HIDE DEF t
<1>3. Linked(t)
  BY <1>1, <1>2 DEF Linked
<1>4. Starts(t, p)
  BY <1>1, <1>2 DEF Starts
<1> QED
  BY <1>1, <1>3, <1>4 DEF t

\* Counting goes on with a record that is sent, and with one that is taken.
LEMMA CountedSend ==
    ASSUME NEW s \in Seq(Record), NEW n \in Nat, NEW m \in Nat, NEW r \in Record, Counted(s, n, m)
    PROVE  Counted(s \o <<r>>, n, m + (IF r.type = "data" THEN 1 ELSE 0))
<1> DEFINE u == s \o <<r>>
           k == m + (IF r.type = "data" THEN 1 ELSE 0)
<1>1. /\ Len(u) = Len(s) + 1 /\ Len(s) \in Nat /\ k \in Nat
      /\ \A i \in 1..Len(s) : u[i] = s[i]
      /\ u[Len(s) + 1] = r
  OBVIOUS
<1>2. PICK c \in [1..(Len(s) + 1) -> Nat] :
         /\ c[1] = n /\ c[Len(s) + 1] = m
         /\ \A i \in 1..Len(s) : c[i + 1] = c[i] + (IF s[i].type = "data" THEN 1 ELSE 0)
  BY DEF Counted
<1> DEFINE d == [i \in 1..(Len(s) + 2) |-> IF i = Len(s) + 2 THEN k ELSE c[i]]
<1> HIDE DEF u, k
<1>3. d \in [1..(Len(u) + 1) -> Nat]
  BY <1>1, <1>2
<1>4. d[1] = n /\ d[Len(u) + 1] = k
  BY <1>1, <1>2
<1>5. ASSUME NEW i \in 1..Len(u)
      PROVE  d[i + 1] = d[i] + (IF u[i].type = "data" THEN 1 ELSE 0)
  <2>1. CASE i \in 1..Len(s)
    <3>1. d[i] = c[i] /\ d[i + 1] = c[i + 1]
      BY <1>1, <2>1
    <3>2. c[i + 1] = c[i] + (IF s[i].type = "data" THEN 1 ELSE 0) /\ u[i] = s[i]
      BY Zenon, <1>1, <1>2, <2>1
    <3> QED
      BY Zenon, <3>1, <3>2
  <2>2. CASE i = Len(s) + 1
    <3>1. d[i] = c[i] /\ d[i + 1] = k /\ u[i] = r
      BY <1>1, <2>2
    <3>2. c[i] = m
      BY Zenon, <1>2, <2>2
    <3> QED
      BY Zenon, <3>1, <3>2 DEF k
  <2> QED
    BY <1>1, <2>1, <2>2
<1> HIDE DEF d
<1>6. Counted(u, n, k)
  BY Zenon, <1>3, <1>4, <1>5 DEF Counted
<1> QED
  BY <1>6 DEF u, k

\* Opening the first record counts it if it is data.
LEMMA CountedTake ==
    ASSUME NEW s \in Seq(Record), s # <<>>, NEW n \in Nat, NEW m \in Nat, Counted(s, n, m)
    PROVE  /\ Counted(Tail(s), n + (IF Head(s).type = "data" THEN 1 ELSE 0), m)
           /\ Tail(s) = <<>> => m = n + (IF Head(s).type = "data" THEN 1 ELSE 0)
<1> DEFINE t == Tail(s)
           k == n + (IF Head(s).type = "data" THEN 1 ELSE 0)
<1>1. /\ Len(s) \in Nat \ {0} /\ Len(t) = Len(s) - 1 /\ Head(s) = s[1]
      /\ \A i \in 1..Len(t) : t[i] = s[i + 1]
  OBVIOUS
<1>2. PICK c \in [1..(Len(s) + 1) -> Nat] :
         /\ c[1] = n /\ c[Len(s) + 1] = m
         /\ \A i \in 1..Len(s) : c[i + 1] = c[i] + (IF s[i].type = "data" THEN 1 ELSE 0)
  BY DEF Counted
<1> DEFINE d == [i \in 1..Len(s) |-> c[i + 1]]
<1> HIDE DEF t
<1>3. d \in [1..(Len(t) + 1) -> Nat] /\ d[1] = k /\ d[Len(t) + 1] = m
  BY <1>1, <1>2
<1>4. ASSUME NEW i \in 1..Len(t)
      PROVE  d[i + 1] = d[i] + (IF t[i].type = "data" THEN 1 ELSE 0)
  <2>1. d[i] = c[i + 1] /\ d[i + 1] = c[i + 1 + 1] /\ i + 1 \in 1..Len(s)
    BY <1>1
  <2>2. c[i + 1 + 1] = c[i + 1] + (IF s[i + 1].type = "data" THEN 1 ELSE 0) /\ t[i] = s[i + 1]
    BY Zenon, <1>1, <1>2, <2>1
  <2> QED
    BY Zenon, <2>1, <2>2
<1>5. t = <<>> => m = k
  <2>1. t = <<>> => Len(t) = 0
    OBVIOUS
  <2> QED
    BY <1>3, <2>1
<1> HIDE DEF d, k
<1>6. Counted(t, k, m)
  BY Zenon, <1>3, <1>4 DEF Counted
<1> QED
  BY <1>5, <1>6 DEF t, k
\* Keys, and records at the positions they are sealed and leave off at.
LEMMA Keyed ==
    ASSUME NEW k \in Key
    PROVE  /\ Advance(k) \in Key /\ NextKey(k) \in Key
           /\ k.seq \in Nat /\ k.generation \in Nat
           /\ Advance(k).seq = k.seq + 1 /\ Advance(k).generation = k.generation
           /\ NextKey(k).seq = 0 /\ NextKey(k).generation = k.generation + 1
BY DEF Key, Advance, NextKey

\* A position determines its key and its half of a message.
LEMMA Positions ==
    ASSUME NEW k, NEW l, NEW a, NEW b, At(k, a) = At(l, b)
    PROVE  k = l /\ a = b
BY DEF At

\* A record without a message leaves nothing half done.
LEMMA PlainRecord ==
    ASSUME NEW k \in Key, NEW type \in {"data", "alert"}
    PROVE  LET r == Sealed(k, type, <<>>)
           IN  r \in Record /\ Before(r) = At(k, <<>>) /\ After(r) = At(Advance(k), <<>>)
<1>1. Needs(<<>>) = <<>> /\ <<>> \notin Renewing /\ Leaves(<<>>) = <<>>
  BY Bodied DEF Needs, Leaves, Bodies
<1>2. Sealed(k, type, <<>>) \in Record
  BY DEF Record, Sealed
<1> QED
  BY <1>1, <1>2 DEF Sealed, Before, After

\* A record with a message.
LEMMA MessageRecord ==
    ASSUME NEW k \in Key, NEW body \in Bodies
    PROVE  LET r == Sealed(k, "handshake", body)
           IN  /\ r \in Record /\ Before(r) = At(k, Needs(body))
               /\ After(r) = At(IF body \in Renewing THEN NextKey(k) ELSE Advance(k), Leaves(body))
<1>1. Sealed(k, "handshake", body) \in Record
  BY DEF Record, Sealed
<1> QED
  BY <1>1 DEF Sealed, Before, After

\* A record alone is a chain.
LEMMA SingleChain ==
    ASSUME NEW r \in Record
    PROVE  <<r>> \in Seq(Record) /\ Chain(<<r>>, Before(r), After(r))
BY DEF Chain, Linked, Starts

\* Records sealed by two steps in a row, sent one behind the other.
LEMMA UpwardConcat ==
    ASSUME NEW s, NEW t, NEW k, NEW l, NEW m, Upward(s, k, l), Upward(t, l, m)
    PROVE  Upward(s \o t, k, m)
<1> DEFINE u == s \o t
<1>1. s \in Seq(Record) /\ t \in Seq(Record)
  BY DEF Upward
<1>2. u \in Seq(Record) /\ Len(u) = Len(s) + Len(t) /\ Len(s) \in Nat /\ Len(t) \in Nat
  BY <1>1
<1>3. \A i \in 1..Len(s) : u[i] = s[i]
  BY <1>1
<1>4. \A i \in 1..Len(t) : u[Len(s) + i] = t[i]
  BY <1>1
<1>5. Chain(u, At(k, <<>>), At(m, <<>>))
  BY <1>1, ChainConcat DEF Upward
<1> HIDE DEF u
<1>6. ASSUME NEW i \in 1..Len(u), u[i].type = "handshake"
      PROVE  u[i].body \in {Asking, Plain}
  <2>1. CASE i \in 1..Len(s)
    BY <1>3, <1>6, <2>1 DEF Upward
  <2>2. CASE i \notin 1..Len(s)
    <3>1. i - Len(s) \in 1..Len(t) /\ Len(s) + (i - Len(s)) = i
      BY <1>2, <2>2
    <3>2. u[i] = t[i - Len(s)]
      BY <1>4, <3>1
    <3> QED
      BY <1>6, <3>1, <3>2 DEF Upward
  <2> QED
    BY <2>1, <2>2
<1> QED
  BY <1>2, <1>5, <1>6 DEF Upward, u

\* Sealing nothing leaves the key where it is.
LEMMA UpwardEmpty ==
    ASSUME NEW k
    PROVE  Upward(<<>>, k, k)
BY DEF Upward, Chain, Linked, Starts

\* Sealing data or an alert takes one sequence number.
LEMMA UpwardPlain ==
    ASSUME NEW k \in Key, NEW type \in {"data", "alert"}
    PROVE  Upward(<<Sealed(k, type, <<>>)>>, k, Advance(k))
<1> DEFINE r == Sealed(k, type, <<>>)
<1>1. r \in Record /\ Before(r) = At(k, <<>>) /\ After(r) = At(Advance(k), <<>>)
  BY PlainRecord
<1>2. r.type # "handshake"
  BY DEF Sealed
<1> HIDE DEF r
<1>3. <<r>> \in Seq(Record) /\ Chain(<<r>>, At(k, <<>>), At(Advance(k), <<>>))
  BY <1>1, SingleChain
<1>4. Len(<<r>>) = 1 /\ <<r>>[1] = r
  OBVIOUS
<1> QED
  BY <1>2, <1>3, <1>4 DEF Upward, r

\* tls_key_update_send: the message goes under the old key, the new one follows.
LEMMA UpwardUpdate ==
    ASSUME NEW k \in Key, NEW asking \in BOOLEAN
    PROVE  /\ Upward(KeyUpdate(k, asking).records, k, KeyUpdate(k, asking).key)
           /\ KeyUpdate(k, asking).key = NextKey(k)
<1> DEFINE body == Update(asking)
           r == Sealed(k, "handshake", body)
<1>1. body \in {Asking, Plain}
  BY Zenon, Bodied
<1>2. body \in Renewing /\ body \in Bodies /\ Needs(body) = <<>> /\ Leaves(body) = <<>>
  <2>1. Needs(Asking) = <<>> /\ Needs(Plain) = <<>>
    BY DEF Needs, Asking, Plain
  <2>2. body \in Renewing
    BY <1>1 DEF Renewing
  <2>3. body \notin Begun
    BY <2>2, Bodied
  <2> QED
    BY <1>1, <2>1, <2>2, <2>3 DEF Leaves, Bodies
<1>3. r.body = body
  BY DEF Sealed
<1>4. r \in Record /\ Before(r) = At(k, <<>>) /\ After(r) = At(NextKey(k), <<>>)
  <2> HIDE DEF body
  <2> QED
    BY <1>2, MessageRecord
<1>5. KeyUpdate(k, asking).records = <<r>> /\ KeyUpdate(k, asking).key = NextKey(k)
  BY DEF KeyUpdate
<1> HIDE DEF r, body
<1>6. <<r>> \in Seq(Record) /\ Chain(<<r>>, At(k, <<>>), At(NextKey(k), <<>>))
  BY <1>4, SingleChain
<1>7. Len(<<r>>) = 1 /\ <<r>>[1] = r
  OBVIOUS
<1> QED
  BY <1>1, <1>3, <1>5, <1>6, <1>7 DEF Upward

-----------------------------------------------------------------------------
\* Both ends start with fresh keys.
LEMMA InvInit ==
    Init => Inv
<1> SUFFICES ASSUME Init PROVE Inv
  OBVIOUS
<1> USE DEF Init
<1>1. Fresh \in Key /\ Fresh.seq = 0 /\ Fresh.generation = 0
  BY DEF Fresh, Key
<1>2. /\ peer \in Peer /\ peer.part = <<>> /\ peer.send = Fresh /\ peer.receive = Fresh
      /\ peer.sent = 0 /\ peer.closed = FALSE
  BY <1>1 DEF Peer
<1>3. TypeOK
  <2>1. <<>> \in Seq(Record) /\ 0 \in Nat
    OBVIOUS
  <2> QED
    BY Zenon, <1>1, <1>2, <2>1 DEF TypeOK
<1>4. UpInv
  BY <1>2, UpwardEmpty DEF UpInv
<1>5. DownInv
  <2>1. Chain(<<>>, At(Fresh, <<>>), At(Fresh, <<>>))
    BY UpwardEmpty DEF Upward
  <2>2. Counted(<<>>, 0, 0)
    <3> DEFINE c == [i \in 1..1 |-> 0]
    <3>1. Len(<<>>) = 0 /\ c \in [1..(Len(<<>>) + 1) -> Nat] /\ c[1] = 0
      OBVIOUS
    <3> HIDE DEF c
    <3> QED
      BY <3>1 DEF Counted
  <2>3. Half(<<>>) = <<>>
    BY DEF Half
  <2> QED
    BY <1>2, <2>1, <2>2, <2>3 DEF DownInv, Chain, PeerAt
<1>6. CloseInv /\ LimitInv /\ FailsForCause
  BY <1>1, LimitsAssumption DEF CloseInv, LimitInv, FailsForCause
<1> QED
  BY <1>3, <1>4, <1>5, <1>6 DEF Inv

\* The conjuncts of the inductive invariant.
LEMMA Parts ==
    ASSUME Inv
    PROVE  TypeOK /\ UpInv /\ DownInv /\ CloseInv /\ LimitInv /\ FailsForCause
  BY Zenon DEF Inv

\* The conjuncts after a step make the invariant after it.
LEMMA Whole ==
    ASSUME TypeOK', UpInv', DownInv', CloseInv', LimitInv', FailsForCause'
    PROVE  Inv'
  BY Zenon DEF Inv

\* Sending goes on where it left off, below the limits.
LEMMA WriteAppKeeps ==
    ASSUME Inv, WriteApp
    PROVE  Inv'
<1> USE DEF WriteApp
<1> DEFINE p == Prepared(send)
           last == <<Sealed(p.key, "data", <<>>)>>
<1>1. send \in Key /\ send.seq \in Nat
  BY Keyed DEF Inv, TypeOK
<1>2. p.key \in Key /\ p.key.seq < RekeyLimit /\ Upward(p.records, send, p.key)
  <2>1. CASE send.seq >= RekeyLimit
    <3>1. p = KeyUpdate(send, FALSE)
      BY Zenon, <2>1 DEF Prepared
    <3>2. p.key = NextKey(send) /\ Upward(p.records, send, p.key)
      BY Zenon, <1>1, <3>1, UpwardUpdate
    <3>3. NextKey(send) \in Key /\ NextKey(send).seq = 0
      BY <1>1, Keyed
    <3> QED
      BY <3>2, <3>3, LimitsAssumption
  <2>2. CASE ~(send.seq >= RekeyLimit)
    <3>1. p.key = send /\ p.records = <<>>
      BY Zenon, <2>2 DEF Prepared
    <3> QED
      BY <1>1, <2>2, <3>1, UpwardEmpty, LimitsAssumption
  <2> QED
    BY <2>1, <2>2
<1>3. /\ up' = up \o p.records \o last /\ send' = Advance(p.key)
      /\ written' = written + 1 /\ failed' = failed
  <2>1. p.key.seq \in Nat
    BY <1>2, Keyed
  <2>2. ~(p.key.seq >= HardLimit)
    BY <1>2, <2>1, LimitsAssumption
  <2> QED
    BY <2>2
<1>4. Upward(last, p.key, Advance(p.key))
  BY Zenon, <1>2, UpwardPlain
<1>5. send' \in Key /\ send'.seq = p.key.seq + 1 /\ p.key.seq \in Nat
  BY <1>2, <1>3, Keyed
<1> HIDE DEF p, last
<1>6. Upward(up', peer.receive, send')
  <2>1. Upward(up \o p.records, peer.receive, p.key)
    BY <1>2, UpwardConcat DEF Inv, UpInv
  <2> QED
    BY <1>3, <1>4, <2>1, UpwardConcat
<1>7. TypeOK'
  BY <1>3, <1>5 DEF Inv, TypeOK
<1>8. LimitInv'
  <2>1. send'.seq <= RekeyLimit + (IF send_closed' THEN 1 ELSE 0)
    BY <1>2, <1>5, LimitsAssumption
  <2> QED
    BY Zenon, <2>1, Parts DEF LimitInv
<1>9. DownInv' /\ CloseInv' /\ FailsForCause'
  BY Zenon, <1>3, Parts DEF DownInv, CloseInv, FailsForCause, Reading, PeerAt
<1>10. UpInv'
  BY Zenon, <1>6 DEF UpInv
<1> QED
  BY Zenon, <1>7, <1>8, <1>9, <1>10, Whole

\* tls13_finish_write seals close_notify under the current key.
LEMMA FinishWriteKeeps ==
    ASSUME Inv, FinishWrite
    PROVE  Inv'
<1> USE DEF FinishWrite
<1>1. send \in Key /\ send.seq \in Nat /\ send.seq <= RekeyLimit
  BY Keyed, LimitsAssumption DEF Inv, TypeOK, LimitInv
<1>2. /\ up' = up \o <<Sealed(send, "alert", <<>>)>> /\ send' = Advance(send)
      /\ send_closed' = TRUE /\ failed' = failed
  BY <1>1, LimitsAssumption
<1>3. send' \in Key /\ send'.seq = send.seq + 1
  BY <1>1, <1>2, Keyed
<1>4. Upward(up', peer.receive, send')
  BY Zenon, <1>1, <1>2, UpwardPlain, UpwardConcat DEF Inv, UpInv
<1>5. TypeOK'
  BY <1>2, <1>3 DEF Inv, TypeOK
<1>6. LimitInv'
  BY <1>1, <1>2, <1>3, LimitsAssumption DEF Inv, LimitInv
<1>7. DownInv' /\ CloseInv' /\ FailsForCause'
  BY Zenon, <1>2, Parts DEF DownInv, CloseInv, FailsForCause, Reading, PeerAt
<1>8. UpInv'
  BY Zenon, <1>4 DEF UpInv
<1> QED
  BY Zenon, <1>5, <1>6, <1>7, <1>8, Whole

\* A record of the peer's goes behind those under way.
LEMMA PeerSendsKeeps ==
    ASSUME Inv, NEW r \in Record, NEW next \in Peer, PeerSends(<<r>>, next),
           Before(r) = PeerAt, After(r) = At(next.send, Half(next.part)),
           next.receive = peer.receive, r.type = "alert" => next.closed,
           next.sent = peer.sent + (IF r.type = "data" THEN 1 ELSE 0)
    PROVE  Inv'
<1> USE DEF PeerSends
<1>1. /\ down \in Seq(Record) /\ peer \in Peer /\ ~peer.closed /\ ~cut /\ ~receive_closed
      /\ peer.sent \in Nat /\ delivered \in Nat
  <2>1. down \in Seq(Record) /\ peer \in Peer /\ delivered \in Nat
    BY Zenon, Parts DEF TypeOK
  <2>2. ~peer.closed /\ ~cut /\ ~receive_closed
    BY Zenon, Parts DEF CloseInv
  <2>3. peer.sent \in Nat
    BY <2>1 DEF Peer
  <2> QED
    BY Zenon, <2>1, <2>2, <2>3
<1>2. /\ down' \in Seq(Record) /\ Len(down') = Len(down) + 1 /\ Len(down) \in Nat
      /\ \A i \in 1..Len(down) : down'[i] = down[i]
  BY <1>1
<1>3. TypeOK'
  BY <1>2 DEF Inv, TypeOK
<1>4. UpInv'
  <2>1. UNCHANGED <<up, send>> /\ peer' = next
    BY Zenon
  <2> QED
    BY Zenon, <2>1, Parts DEF UpInv
<1>5. DownInv'
  <2> SUFFICES ASSUME Reading'
               PROVE  Chain(down', At(receive, post), PeerAt') /\ Counted(down', delivered, next.sent)
    BY DEF DownInv, Chain
  <2>1. Chain(down, At(receive, post), PeerAt) /\ Counted(down, delivered, peer.sent)
    BY <1>1 DEF Inv, DownInv, Reading
  <2>2. Chain(down', At(receive, post), After(r))
    BY Zenon, <1>1, <2>1, SingleChain, ChainConcat
  <2>3. Counted(down', delivered, next.sent)
    BY Zenon, <1>1, <2>1, CountedSend
  <2> QED
    BY Zenon, <2>2, <2>3 DEF PeerAt
<1>6. CloseInv'
  <2>1. ASSUME NEW i \in 1..Len(down'), down'[i].type = "alert"
        PROVE  next.closed /\ i = Len(down')
    <3>1. i \notin 1..Len(down)
      BY Zenon, <1>1, <1>2, <2>1, Parts DEF CloseInv
    <3>2. i = Len(down) + 1 /\ down'[i] = r
      BY <1>1, <1>2, <3>1
    <3> QED
      BY Zenon, <1>2, <2>1, <3>2
  <2> QED
    BY Zenon, <1>1, <2>1 DEF CloseInv
<1>7. LimitInv' /\ FailsForCause'
  BY Zenon, Parts DEF LimitInv, FailsForCause
<1> QED
  BY Zenon, <1>3, <1>4, <1>5, <1>6, <1>7, Whole

\* The halves a message is sent in.
LEMMA Halves ==
    ASSUME NEW message \in {Ticket, Asking, Plain}
    PROVE  /\ SubSeq(message, 1, 1) = Half(message)
           /\ Half(message) = IF message = Ticket THEN <<"T1">> ELSE <<"K1">>
           /\ LET body == SubSeq(message, 2, 2)
              IN  /\ body \in Bodies /\ Needs(body) = Half(message) /\ Leaves(body) = <<>>
                  /\ body \in Renewing <=> message # Ticket
<1>1. \A s \in Seq(Token) : Len(s) = 2 => SubSeq(s, 1, 1) = <<s[1]>> /\ SubSeq(s, 2, 2) = <<s[2]>>
  <2> SUFFICES ASSUME NEW s \in Seq(Token), Len(s) = 2
               PROVE  SubSeq(s, 1, 1) = <<s[1]>> /\ SubSeq(s, 2, 2) = <<s[2]>>
    OBVIOUS
  <2> DEFINE a == SubSeq(s, 1, 1)
             b == SubSeq(s, 2, 2)
             c == <<s[1]>>
             d == <<s[2]>>
  <2>1. s[1] \in Token /\ s[2] \in Token
    OBVIOUS
  <2>2. /\ c \in Seq(Token) /\ Len(c) = 1 /\ c[1] = s[1]
        /\ d \in Seq(Token) /\ Len(d) = 1 /\ d[1] = s[2]
    BY <2>1
  <2>3. a \in Seq(Token) /\ Len(a) = 1 /\ a[1] = s[1]
    OBVIOUS
  <2>4. b \in Seq(Token) /\ Len(b) = 1 /\ b[1] = s[2]
    OBVIOUS
  <2> HIDE DEF a, b, c, d
  <2>5. a = c /\ b = d
    BY <2>2, <2>3, <2>4, SameElements
  <2> QED
    BY <2>5 DEF a, b, c, d
<1>2. /\ message \in Seq(Token) /\ Len(message) = 2 /\ message # <<>>
      /\ message[1] = IF message = Ticket THEN "T1" ELSE "K1"
      /\ message[2] \in IF message = Ticket THEN {"T2"} ELSE {"K2", "K3"}
  <2>1. CASE message = Ticket
    BY <2>1 DEF Ticket, Token
  <2>2. CASE message = Asking
    BY <2>2 DEF Ticket, Asking, Token
  <2>3. CASE message = Plain
    BY <2>3 DEF Ticket, Plain, Token
  <2> QED
    BY <2>1, <2>2, <2>3
<1>3. SubSeq(message, 1, 1) = <<message[1]>> /\ SubSeq(message, 2, 2) = <<message[2]>>
  BY <1>1, <1>2
<1>4. Half(message) = <<message[1]>>
  BY <1>2 DEF Half
<1>5. CASE message = Ticket
  <2>1. Half(message) = <<"T1">> /\ SubSeq(message, 2, 2) = <<"T2">>
    BY <1>2, <1>3, <1>4, <1>5
  <2>2. <<"T2">> \in Bodies /\ Needs(<<"T2">>) = <<"T1">> /\ Leaves(<<"T2">>) = <<>>
    BY Bodied DEF Bodies, Needs, Leaves
  <2> QED
    BY Zenon, <1>3, <1>4, <1>5, <2>1, <2>2, Bodied
<1>6. CASE message # Ticket
  <2>1. Half(message) = <<"K1">> /\ SubSeq(message, 2, 2) \in {<<"K2">>, <<"K3">>}
    BY <1>2, <1>3, <1>4, <1>6
  <2>2. \A body \in {<<"K2">>, <<"K3">>} :
           body \in Renewing /\ body \in Bodies /\ Needs(body) = <<"K1">> /\ Leaves(body) = <<>>
    <3>1. Needs(<<"K2">>) = <<"K1">> /\ Needs(<<"K3">>) = <<"K1">>
      BY DEF Needs
    <3> QED
      BY <3>1, Bodied DEF Bodies, Leaves, Renewing
  <2> QED
    BY Zenon, <1>3, <1>4, <1>6, <2>1, <2>2
<1> QED
  BY <1>5, <1>6

\* The peer seals data or close_notify.
LEMMA PeerPlainKeeps ==
    ASSUME Inv, PeerData \/ PeerCloses
    PROVE  Inv'
<1>1. /\ peer \in Peer /\ peer.part = <<>> /\ peer.send \in Key /\ peer.sent \in Nat
      /\ Half(<<>>) = <<>> /\ PeerAt = At(peer.send, <<>>)
  BY DEF Inv, TypeOK, Peer, PeerData, PeerCloses, Half, PeerAt
<1>2. Advance(peer.send) \in Key
  BY <1>1, Keyed
<1>3. CASE PeerData
  <2> DEFINE r == Sealed(peer.send, "data", <<>>)
             next == [peer EXCEPT !.send = Advance(@), !.sent = @ + 1]
  <2>1. r \in Record /\ Before(r) = PeerAt /\ After(r) = At(Advance(peer.send), <<>>)
    BY <1>1, PlainRecord
  <2>2. /\ next \in Peer /\ next.send = Advance(peer.send) /\ next.part = <<>>
        /\ next.receive = peer.receive /\ next.sent = peer.sent + 1
    <3>1. peer.sent + 1 \in Nat
      BY <1>1
    <3>2. next \in Peer
      BY Zenon, <1>1, <1>2, <3>1 DEF Peer
    <3> QED
      BY <1>1, <3>2 DEF Peer
  <2>3. PeerSends(<<r>>, next)
    BY <1>3 DEF PeerData
  <2>4. r.type = "data"
    BY DEF Sealed
  <2> HIDE DEF r, next
  <2> QED
    BY <1>1, <2>1, <2>2, <2>3, <2>4, PeerSendsKeeps
<1>4. CASE PeerCloses
  <2> DEFINE r == Sealed(peer.send, "alert", <<>>)
             next == [peer EXCEPT !.send = Advance(@), !.closed = TRUE]
  <2>1. r \in Record /\ Before(r) = PeerAt /\ After(r) = At(Advance(peer.send), <<>>)
    BY <1>1, PlainRecord
  <2>2. /\ next \in Peer /\ next.send = Advance(peer.send) /\ next.part = <<>>
        /\ next.receive = peer.receive /\ next.sent = peer.sent /\ next.closed
    BY Zenon, <1>1, <1>2 DEF Peer
  <2>3. PeerSends(<<r>>, next)
    BY <1>4 DEF PeerCloses
  <2>4. r.type = "alert"
    BY DEF Sealed
  <2> HIDE DEF r, next
  <2> QED
    BY <1>1, <2>1, <2>2, <2>3, <2>4, PeerSendsKeeps
<1> QED
  BY <1>3, <1>4

\* A handshake record: whole messages, half a message, or the other half.
LEMMA PeerMessageKeeps ==
    ASSUME Inv, NEW body \in Bodies, NEW next \in Peer,
           PeerSends(<<Sealed(peer.send, "handshake", body)>>, next),
           Half(peer.part) = Needs(body), Half(next.part) = Leaves(body),
           next.send = IF body \in Renewing THEN NextKey(peer.send) ELSE Advance(peer.send),
           next.receive = peer.receive, next.sent = peer.sent
    PROVE  Inv'
<1> DEFINE r == Sealed(peer.send, "handshake", body)
<1>1. peer.send \in Key /\ peer.sent \in Nat
  <2>1. peer \in Peer
    BY Zenon, Parts DEF TypeOK
  <2> QED
    BY <2>1 DEF Peer
<1>2. /\ r \in Record /\ Before(r) = At(peer.send, Needs(body))
      /\ After(r) = At(next.send, Leaves(body))
  BY <1>1, MessageRecord
<1>3. r.type = "handshake"
  BY DEF Sealed
<1> HIDE DEF r
<1> QED
  BY <1>1, <1>2, <1>3, PeerSendsKeeps DEF PeerAt, r

\* The peer seals a ticket.
LEMMA PeerTicketKeeps ==
    ASSUME Inv, PeerTicket
    PROVE  Inv'
<1> DEFINE next == [peer EXCEPT !.send = Advance(@), !.tickets = @ + 1]
<1>1. peer \in Peer /\ peer.part = <<>> /\ peer.send \in Key /\ Half(<<>>) = <<>>
  BY DEF Inv, TypeOK, Peer, PeerTicket, Half
<1>2. /\ next \in Peer /\ next.send = Advance(peer.send) /\ next.part = <<>>
      /\ next.receive = peer.receive /\ next.sent = peer.sent
  <2>1. peer.tickets + 1 \in Nat /\ Advance(peer.send) \in Key
    BY <1>1, Keyed DEF Peer
  <2>2. next \in Peer
    BY Zenon, <1>1, <2>1 DEF Peer
  <2> QED
    BY <1>1, <2>2 DEF Peer
<1>3. Ticket \in Bodies /\ Needs(Ticket) = <<>> /\ Leaves(Ticket) = <<>> /\ Ticket \notin Renewing
  <2>1. Needs(Ticket) = <<>>
    BY DEF Needs, Ticket
  <2> QED
    BY <2>1, Bodied DEF Bodies, Leaves
<1>4. PeerSends(<<Sealed(peer.send, "handshake", Ticket)>>, next)
  BY DEF PeerTicket
<1> HIDE DEF next
<1> QED
  BY <1>1, <1>2, <1>3, <1>4, PeerMessageKeeps

\* The peer seals a key update, alone or behind a ticket, and renews its key.
LEMMA PeerUpdateKeeps ==
    ASSUME Inv, NEW asking \in BOOLEAN, NEW ticket \in BOOLEAN, PeerUpdate(asking, ticket)
    PROVE  Inv'
<1> DEFINE body == (IF ticket THEN Ticket ELSE <<>>) \o Update(asking)
           next == [peer EXCEPT !.send = NextKey(@), !.owes = FALSE,
                                !.updates = IF peer.owes THEN @ ELSE @ + 1,
                                !.tickets = IF ticket THEN @ + 1 ELSE @]
<1>1. peer \in Peer /\ peer.part = <<>> /\ peer.send \in Key /\ Half(<<>>) = <<>>
  BY DEF Inv, TypeOK, Peer, PeerUpdate, Half
<1>2. /\ next \in Peer /\ next.send = NextKey(peer.send) /\ next.part = <<>>
      /\ next.receive = peer.receive /\ next.sent = peer.sent
  <2>1. /\ (IF ticket THEN peer.tickets + 1 ELSE peer.tickets) \in Nat
        /\ (IF peer.owes THEN peer.updates ELSE peer.updates + 1) \in Nat
        /\ NextKey(peer.send) \in Key
    BY <1>1, Keyed DEF Peer
  <2>2. next \in Peer
    BY Zenon, <1>1, <2>1 DEF Peer
  <2> QED
    BY <1>1, <2>2 DEF Peer
<1>3. body \in {Asking, Plain, TicketAsking, TicketPlain}
  <2>1. Update(asking) \in {Asking, Plain}
    BY Zenon, Bodied
  <2>2. CASE ticket
    BY Zenon, <2>1, <2>2, Bodied
  <2>3. CASE ~ticket
    BY <2>1, <2>3, Bodied
  <2> QED
    BY <2>2, <2>3
<1>4. PeerSends(<<Sealed(peer.send, "handshake", body)>>, next)
  BY DEF PeerUpdate
<1> HIDE DEF next, body
<1>5. body \in Renewing /\ body \in Bodies /\ Leaves(body) = <<>>
  BY <1>3, Bodied DEF Renewing, Bodies, Leaves
<1>6. Needs(body) = <<>>
  <2>1. /\ Needs(Asking) = <<>> /\ Needs(Plain) = <<>>
        /\ Needs(TicketAsking) = <<>> /\ Needs(TicketPlain) = <<>>
    BY DEF Needs, Asking, Plain, TicketAsking, TicketPlain
  <2> QED
    BY <1>3, <2>1
<1> QED
  BY <1>1, <1>2, <1>4, <1>5, <1>6, PeerMessageKeeps

\* The peer seals the first part of a message that it spreads over two records.
LEMMA PeerBeginsKeeps ==
    ASSUME Inv, NEW message \in {Ticket, Asking, Plain}, PeerBegins(message)
    PROVE  Inv'
<1> DEFINE body == SubSeq(message, 1, 1)
           next == [peer EXCEPT !.send = Advance(@), !.part = message]
<1>1. peer \in Peer /\ peer.part = <<>> /\ peer.send \in Key /\ Half(<<>>) = <<>>
  BY DEF Inv, TypeOK, Peer, PeerBegins, Half
<1>2. /\ next \in Peer /\ next.send = Advance(peer.send) /\ next.part = message
      /\ next.receive = peer.receive /\ next.sent = peer.sent
  BY Zenon, <1>1, Keyed DEF Peer
<1>3. body \in Begun /\ Half(message) = body
  BY Zenon, Halves DEF Begun
<1>4. PeerSends(<<Sealed(peer.send, "handshake", body)>>, next)
  BY DEF PeerBegins
<1> HIDE DEF next, body
<1>5. body \in Bodies /\ Needs(body) = <<>> /\ Leaves(body) = body /\ body \notin Renewing
  <2>1. Needs(<<"T1">>) = <<>> /\ Needs(<<"K1">>) = <<>>
    BY DEF Needs
  <2> QED
    BY <1>3, <2>1, Bodied DEF Begun, Bodies, Leaves
<1> QED
  BY <1>1, <1>2, <1>3, <1>4, <1>5, PeerMessageKeeps

\* The peer seals the rest of the message.
LEMMA PeerContinuesKeeps ==
    ASSUME Inv, PeerContinues
    PROVE  Inv'
<1> DEFINE ticket == peer.part = Ticket
           body == SubSeq(peer.part, 2, 2)
           next == [peer EXCEPT !.send = IF ticket THEN Advance(@) ELSE NextKey(@),
                                !.part = <<>>,
                                !.owes = @ /\ ticket,
                                !.tickets = IF ticket THEN @ + 1 ELSE @,
                                !.updates = IF ticket \/ peer.owes THEN @ ELSE @ + 1]
<1>1. /\ peer \in Peer /\ peer.part \in {Ticket, Asking, Plain} /\ peer.send \in Key
      /\ Half(<<>>) = <<>>
  BY DEF Inv, TypeOK, Peer, PeerContinues, Half
<1>2. /\ next.send = (IF ticket THEN Advance(peer.send) ELSE NextKey(peer.send)) /\ next.part = <<>>
      /\ next.receive = peer.receive /\ next.sent = peer.sent
  BY <1>1 DEF Peer
<1>3. next \in Peer
  <2>1. /\ (IF ticket THEN peer.tickets + 1 ELSE peer.tickets) \in Nat
        /\ (IF ticket \/ peer.owes THEN peer.updates ELSE peer.updates + 1) \in Nat
        /\ (IF ticket THEN Advance(peer.send) ELSE NextKey(peer.send)) \in Key
        /\ (peer.owes /\ ticket) \in BOOLEAN
    BY <1>1, Keyed DEF Peer
  <2> HIDE DEF ticket
  <2> QED
    BY Zenon, <1>1, <2>1 DEF Peer
<1>4. PeerSends(<<Sealed(peer.send, "handshake", body)>>, next)
  BY DEF PeerContinues
<1>5. /\ body \in Bodies /\ Needs(body) = Half(peer.part) /\ Leaves(body) = <<>>
      /\ body \in Renewing <=> ~ticket
  BY <1>1, Halves
<1> HIDE DEF next, body, ticket
<1> QED
  BY <1>1, <1>2, <1>3, <1>4, <1>5, PeerMessageKeeps

\* The peer takes the first record under way, which opens under its key.
LEMMA PeerReceivesKeeps ==
    ASSUME Inv, PeerReceives
    PROVE  Inv'
<1> DEFINE r == Head(up)
           update == r.type = "handshake"
           key == IF update THEN NextKey(peer.receive) ELSE Advance(peer.receive)
<1>1. /\ up \in Seq(Record) /\ up # <<>> /\ peer \in Peer /\ peer.receive \in Key
      /\ Chain(up, At(peer.receive, <<>>), At(send, <<>>))
      /\ up' = Tail(up) /\ r.key = peer.receive
  BY DEF Inv, TypeOK, UpInv, Upward, Peer, PeerReceives
<1>2. /\ r \in Record /\ Tail(up) \in Seq(Record) /\ Chain(Tail(up), After(r), At(send, <<>>))
  BY <1>1, ChainTail DEF Chain
<1>3. /\ Len(up) \in Nat \ {0} /\ Len(Tail(up)) = Len(up) - 1 /\ r = up[1]
      /\ \A i \in 1..Len(Tail(up)) : Tail(up)[i] = up[i + 1]
  BY <1>1
<1> HIDE DEF r
<1>4. IF update THEN r.body \in {Asking, Plain} ELSE r.body = <<>>
  BY <1>2, <1>3 DEF Inv, UpInv, Upward, Record
<1>5. After(r) = At(key, <<>>)
  <2>1. CASE update
    BY <1>1, <1>4, <2>1, Bodied DEF After, Renewing, Leaves
  <2>2. CASE ~update
    BY <1>1, <1>4, <2>2, Bodied DEF After, Leaves, Bodies
  <2> QED
    BY <2>1, <2>2
<1>6. /\ peer' \in Peer /\ peer'.receive = key /\ peer'.send = peer.send /\ peer'.part = peer.part
      /\ peer'.sent = peer.sent /\ peer'.closed = peer.closed
  <2> DEFINE owes == peer.owes \/ (update /\ r.body = Update(TRUE) /\ ~peer.closed)
  <2>1. owes \in BOOLEAN /\ key \in Key
    BY <1>1, Keyed DEF Peer
  <2>2. peer' = [peer EXCEPT !.receive = key, !.owes = owes]
    BY <1>1 DEF PeerReceives, r, Peer
  <2> HIDE DEF owes, key
  <2> QED
    BY Zenon, <1>1, <2>1, <2>2 DEF Peer
<1>7. UpInv'
  <2>1. \A i \in 1..Len(Tail(up)) : Tail(up)[i].type = "handshake" => Tail(up)[i].body \in {Asking, Plain}
    <3> SUFFICES ASSUME NEW i \in 1..Len(Tail(up))
                 PROVE  Tail(up)[i].type = "handshake" => Tail(up)[i].body \in {Asking, Plain}
      OBVIOUS
    <3>1. i + 1 \in 1..Len(up) /\ Tail(up)[i] = up[i + 1]
      BY <1>3
    <3> QED
      BY <3>1 DEF Inv, UpInv, Upward
  <2>2. send' = send
    BY DEF PeerReceives
  <2> QED
    BY Zenon, <1>1, <1>2, <1>5, <1>6, <2>1, <2>2 DEF UpInv, Upward
<1>8. TypeOK'
  <2>1. UNCHANGED <<send, receive, requested, send_closed, receive_closed, failed, cut, post, delivered, written,
                    requests, down>>
    BY Zenon DEF PeerReceives
  <2> QED
    BY Zenon, <1>6, <2>1, Parts DEF TypeOK
<1>9. DownInv' /\ CloseInv' /\ LimitInv' /\ FailsForCause'
  <2>1. UNCHANGED <<send, receive, requested, send_closed, receive_closed, failed, cut, post, delivered, written,
                    requests, down>>
    BY Zenon DEF PeerReceives
  <2>2. DownInv' /\ CloseInv'
    BY Zenon, <1>6, <2>1, Parts DEF DownInv, CloseInv, Reading, PeerAt
  <2> QED
    BY Zenon, <2>1, <2>2, Parts DEF LimitInv, FailsForCause
<1> QED
  BY Zenon, <1>7, <1>8, <1>9, Whole

\* A lost connection keeps a beginning of what was under way.
LEMMA CutKeeps ==
    ASSUME Inv, Cut
    PROVE  Inv'
<1>1. PICK n \in 0..Len(down) : down' = SubSeq(down, 1, n)
  BY DEF Cut
<1>2. down \in Seq(Record) /\ ~peer.closed /\ ~receive_closed
  BY DEF Inv, TypeOK, CloseInv, Cut
<1>3. down' \in Seq(Record) /\ Len(down') = n /\ \A i \in 1..n : down'[i] = down[i]
  BY <1>1, <1>2
<1>4. TypeOK'
  BY <1>3 DEF Inv, TypeOK, Cut
<1>5. UpInv' /\ LimitInv' /\ FailsForCause'
  BY DEF Inv, UpInv, LimitInv, FailsForCause, Cut
<1>6. DownInv'
  <2>1. CASE Reading
    <3>1. Linked(down) /\ Starts(down, At(receive, post))
      BY <2>1 DEF Inv, DownInv
    <3>2. Linked(down') /\ Starts(down', At(receive, post))
      BY <1>1, <1>2, <3>1, ChainPrefix
    <3> QED
      BY <3>2 DEF DownInv, Cut
  <2>2. CASE ~Reading
    <3>1. UNCHANGED <<failed, receive_closed>>
      BY Zenon DEF Cut
    <3> QED
      BY Zenon, <2>2, <3>1 DEF DownInv, Reading
  <2> QED
    BY <2>1, <2>2
<1>7. CloseInv'
  BY <1>1, <1>2, <1>3 DEF Inv, CloseInv, Cut
<1> QED
  BY <1>4, <1>5, <1>6, <1>7 DEF Inv

\* tls_post_handshake, tls_key_update_send: the answer, then the request.
LEMMA AcceptKeeps ==
    ASSUME Inv, NEW key \in Key, NEW asked \in BOOLEAN, NEW rest, NEW answer \in BOOLEAN, NEW data,
           Accept(key, asked, rest, answer, data), answer => ~send_closed,
           UNCHANGED <<send_closed, peer>>,
           requests <= key.generation + (IF asked THEN 1 ELSE 0)
    PROVE  /\ send' \in Key /\ requested' \in BOOLEAN /\ requests' \in Nat /\ UpInv'
           /\ send'.seq <= RekeyLimit + (IF send_closed THEN 1 ELSE 0)
           /\ requests' <= key.generation + (IF requested' THEN 1 ELSE 0)
<1> DEFINE due == RequestDue(key, rest, asked)
           reply == IF answer THEN KeyUpdate(send, FALSE) ELSE [records |-> <<>>, key |-> send]
           ask == IF due THEN KeyUpdate(reply.key, TRUE) ELSE [records |-> <<>>, key |-> reply.key]
<1>1. send \in Key /\ requests \in Nat /\ Upward(up, peer.receive, send) /\ send_closed \in BOOLEAN
  BY DEF Inv, TypeOK, UpInv
<1>2. due => ~send_closed /\ ~asked
  BY DEF RequestDue
<1>3. /\ requested' = AskedAfter(due, asked) /\ send' = ask.key
      /\ requests' = (IF due THEN requests + 1 ELSE requests)
      /\ up' = up \o reply.records \o ask.records
  BY DEF Accept
<1>4. /\ Upward(reply.records, send, reply.key) /\ reply.key \in Key
      /\ reply.key = IF answer THEN NextKey(send) ELSE send
  <2>1. CASE answer
    BY Zenon, <1>1, <2>1, UpwardUpdate, Keyed
  <2>2. CASE ~answer
    <3>1. reply.records = <<>> /\ reply.key = send
      BY <2>2
    <3> QED
      BY Zenon, <1>1, <2>2, <3>1, UpwardEmpty
  <2> QED
    BY Zenon, <2>1, <2>2
<1> HIDE DEF due, reply
<1>5. /\ Upward(ask.records, reply.key, ask.key) /\ ask.key \in Key
      /\ ask.key = IF due THEN NextKey(reply.key) ELSE reply.key
  <2>1. CASE due
    BY Zenon, <1>4, <2>1, UpwardUpdate, Keyed
  <2>2. CASE ~due
    <3>1. ask.records = <<>> /\ ask.key = reply.key
      BY <2>2
    <3> QED
      BY Zenon, <1>4, <2>2, <3>1, UpwardEmpty
  <2> QED
    BY Zenon, <2>1, <2>2
<1> HIDE DEF ask
<1>6. UpInv'
  <2>1. Upward(up \o reply.records, peer.receive, reply.key)
    BY Zenon, <1>1, <1>4, UpwardConcat
  <2>2. Upward(up \o reply.records \o ask.records, peer.receive, ask.key)
    BY Zenon, <1>5, <2>1, UpwardConcat
  <2> QED
    BY Zenon, <1>3, <2>2 DEF UpInv
<1>7. send' = send \/ send'.seq = 0
  BY <1>1, <1>3, <1>4, <1>5, Keyed
<1>8. send'.seq <= RekeyLimit + (IF send_closed THEN 1 ELSE 0)
  BY <1>1, <1>7, LimitsAssumption DEF Inv, LimitInv
<1>9. requested' \in BOOLEAN /\ requested' = (due \/ asked)
  BY <1>3 DEF AskedAfter
<1>10. requests' \in Nat /\ requests' <= key.generation + (IF requested' THEN 1 ELSE 0)
  <2>1. key.generation \in Nat
    BY Keyed
  <2>2. CASE due
    <3>1. requested' /\ ~asked /\ requests' = requests + 1
      BY Zenon, <1>2, <1>3, <1>9, <2>2
    <3>2. requests <= key.generation
      BY <1>1, <2>1, <3>1
    <3> QED
      BY <1>1, <2>1, <3>1, <3>2
  <2>3. CASE ~due
    BY <1>1, <1>3, <1>9, <2>1, <2>3
  <2> QED
    BY <2>2, <2>3
<1> QED
  BY <1>3, <1>5, <1>6, <1>8, <1>9, <1>10

\* The client takes the first record under way, which opens under its key.
LEMMA ReceiveRecordKeeps ==
    ASSUME Inv, ReceiveRecord
    PROVE  Inv'
<1> DEFINE r == Head(down)
           key == Advance(receive)
           h == PostHandshake(post \o r.body)
           one == IF r.type = "data" THEN 1 ELSE 0
<1>1. /\ down \in Seq(Record) /\ down # <<>> /\ receive \in Key /\ receive.seq \in Nat
      /\ Reading /\ down' = Tail(down) /\ receive.seq <= HardLimit /\ peer \in Peer
      /\ UNCHANGED <<send_closed, written, peer, cut>> /\ peer.sent \in Nat /\ delivered \in Nat
  BY Keyed DEF Inv, TypeOK, LimitInv, Reading, ReceiveRecord, Peer
<1>2. Linked(down) /\ Starts(down, At(receive, post))
  BY <1>1 DEF Inv, DownInv
<1>3. /\ r \in Record /\ Tail(down) \in Seq(Record) /\ Before(r) = At(receive, post)
      /\ Linked(Tail(down)) /\ Starts(Tail(down), After(r))
  BY <1>1, <1>2, ChainTail
<1>4. r.key = receive /\ Needs(r.body) = post
  BY <1>3, Positions DEF Before
<1>5. /\ Len(down) \in Nat \ {0} /\ Len(Tail(down)) = Len(down) - 1 /\ r = down[1]
      /\ \A i \in 1..Len(Tail(down)) : Tail(down)[i] = down[i + 1]
  BY <1>1
<1>6. ~cut => /\ Chain(Tail(down), After(r), PeerAt)
              /\ Counted(Tail(down), delivered + one, peer.sent)
              /\ Tail(down) = <<>> => peer.sent = delivered + one
  <2> SUFFICES ASSUME ~cut
               PROVE  /\ Chain(Tail(down), After(r), PeerAt)
                      /\ Counted(Tail(down), delivered + one, peer.sent)
                      /\ Tail(down) = <<>> => peer.sent = delivered + one
    OBVIOUS
  <2>1. Chain(down, At(receive, post), PeerAt) /\ Counted(down, delivered, peer.sent)
    BY <1>1 DEF Inv, DownInv
  <2> QED
    BY <1>1, <1>2, <2>1, ChainTail, CountedTake
<1>7. \A i \in 1..Len(down') : down'[i].type = "alert" => peer.closed /\ i = Len(down')
  <2> SUFFICES ASSUME NEW i \in 1..Len(Tail(down)), Tail(down)[i].type = "alert"
               PROVE  peer.closed /\ i = Len(Tail(down))
    BY <1>1
  <2>1. i + 1 \in 1..Len(down) /\ down[i + 1].type = "alert"
    BY <1>5
  <2>2. \A j \in 1..Len(down) : down[j].type = "alert" => peer.closed /\ j = Len(down)
    BY DEF Inv, CloseInv
  <2>3. peer.closed /\ i + 1 = Len(down)
    BY <2>1, <2>2
  <2>4. i + 1 = Len(down)
    BY <2>3
  <2>5. i \in Nat
    OBVIOUS
  <2>6. i = Len(down) - 1
    BY <2>4, <2>5
  <2> QED
    BY <1>5, <2>3, <2>6, Zenon
<1> HIDE DEF r
\* What accepting the record comes to.
<1>8. ASSUME NEW next \in Key, NEW asked \in BOOLEAN, NEW rest \in Begun \cup {<<>>},
             NEW answer \in BOOLEAN, Accept(next, asked, rest, answer, one),
             answer => ~send_closed, After(r) = At(next, rest), next.seq <= HardLimit,
             requests <= next.generation + (IF asked THEN 1 ELSE 0)
      PROVE  Inv'
  <2>1. /\ send' \in Key /\ requested' \in BOOLEAN /\ requests' \in Nat /\ UpInv'
        /\ send'.seq <= RekeyLimit + (IF send_closed THEN 1 ELSE 0)
        /\ requests' <= next.generation + (IF requested' THEN 1 ELSE 0)
    BY <1>1, <1>8, AcceptKeeps
  <2>2. /\ receive' = next /\ post' = rest /\ delivered' = delivered + one
        /\ receive_closed' = receive_closed /\ failed' = failed
    BY <1>8 DEF Accept
  <2>3. delivered' \in Nat
    BY <1>1, <2>2
  <2>4. TypeOK'
    BY Zenon, <1>1, <1>3, <2>1, <2>2, <2>3, Parts DEF TypeOK
  <2>5. DownInv'
    BY Zenon, <1>1, <1>3, <1>6, <1>8, <2>2 DEF DownInv, PeerAt
  <2>6. CloseInv'
    BY Zenon, <1>1, <1>7, <2>2, Parts DEF CloseInv, Reading
  <2>7. LimitInv'
    BY Zenon, <1>1, <1>8, <2>1, <2>2 DEF LimitInv
  <2>8. FailsForCause'
    BY Zenon, <1>1, <2>2 DEF FailsForCause, Reading
  <2> QED
    BY Zenon, <2>1, <2>4, <2>5, <2>6, <2>7, <2>8, Whole
<1>9. ASSUME Fail, cut \/ send_closed \/ receive.seq = HardLimit
      PROVE  Inv'
  <2>0. failed' = TRUE /\ UNCHANGED <<send, receive, requested, receive_closed, post, delivered, requests, up>>
    BY Zenon, <1>9 DEF Fail
  <2>1. TypeOK'
    BY Zenon, <1>1, <1>3, <2>0, Parts DEF TypeOK
  <2>2. UpInv' /\ LimitInv' /\ FailsForCause'
    BY Zenon, <1>1, <1>9, <2>0, Parts DEF UpInv, LimitInv, FailsForCause
  <2>3. DownInv'
    BY Zenon, <2>0 DEF DownInv, Reading
  <2>4. CloseInv'
    BY Zenon, <1>1, <1>7, <2>0, Parts DEF CloseInv, Reading
  <2> QED
    BY Zenon, <2>1, <2>2, <2>3, <2>4, Whole
<1>10. CASE ~Opens(r)
  <2>1. Fail
    BY Zenon, <1>10 DEF ReceiveRecord, r
  <2>2. receive.seq = HardLimit
    BY <1>1, <1>4, <1>10, LimitsAssumption DEF Opens
  <2> QED
    BY <1>9, <2>1, <2>2
<1>11. ASSUME Opens(r), r.type \in {"data", "alert"}
       PROVE  r.body = <<>> /\ post = <<>> /\ After(r) = At(key, <<>>)
  <2>1. r.body = <<>>
    BY <1>3, <1>11 DEF Record
  <2>2. Needs(<<>>) = <<>> /\ <<>> \notin Renewing /\ Leaves(<<>>) = <<>>
    BY Bodied DEF Needs, Leaves, Bodies
  <2> QED
    BY Zenon, <1>4, <2>1, <2>2 DEF After
<1>12. key \in Key /\ key.seq = receive.seq + 1 /\ key.generation = receive.generation
  BY <1>1, Keyed
<1>13. Opens(r) => receive.seq + 1 <= HardLimit
  BY <1>1, LimitsAssumption DEF Opens
<1>14. CASE Opens(r) /\ r.type = "data"
  <2>1. Accept(key, requested, <<>>, FALSE, 1)
    BY Zenon, <1>11, <1>14 DEF ReceiveRecord, r
  <2>2. one = 1
    BY <1>14
  <2>3. requested \in BOOLEAN /\ requests <= receive.generation + (IF requested THEN 1 ELSE 0)
    BY Zenon, Parts DEF TypeOK, LimitInv
  <2> HIDE DEF key, one
  <2> QED
    BY Zenon, <1>8, <1>11, <1>12, <1>13, <1>14, <2>1, <2>2, <2>3
<1>15. CASE Opens(r) /\ r.type = "alert"
  <2>1. /\ receive_closed' = TRUE /\ receive' = key
        /\ UNCHANGED <<send, requested, failed, post, delivered, requests, up>>
    BY Zenon, <1>11, <1>15 DEF ReceiveRecord, r
  <2>2. peer.closed /\ Len(down) = 1 /\ ~cut
    <3>1. \A j \in 1..Len(down) : down[j].type = "alert" => peer.closed /\ j = Len(down)
      BY DEF Inv, CloseInv
    <3>2. 1 \in 1..Len(down) /\ down[1].type = "alert"
      BY <1>5, <1>15
    <3>3. peer.closed /\ Len(down) = 1
      BY Zenon, <3>1, <3>2
    <3> QED
      BY Zenon, <3>3, Parts DEF CloseInv
  <2>3. delivered = peer.sent
    BY <1>1, <1>3, <1>5, <1>6, <1>15, <2>2
  <2> HIDE DEF key
  <2>4. TypeOK'
    BY <1>1, <1>3, <1>12, <2>1 DEF Inv, TypeOK
  <2>5. UpInv' /\ DownInv' /\ FailsForCause'
    BY <1>1, <2>1 DEF Inv, UpInv, DownInv, FailsForCause, Reading
  <2>6. CloseInv'
    BY <1>1, <1>7, <2>1, <2>2, <2>3 DEF CloseInv
  <2>7. LimitInv'
    BY <1>1, <1>12, <1>13, <1>15, <2>1 DEF Inv, LimitInv
  <2> QED
    BY <2>4, <2>5, <2>6, <2>7 DEF Inv
<1>16. CASE Opens(r) /\ r.type = "handshake"
  <2>1. r.body \in Bodies
    BY <1>3, <1>16 DEF Record
  <2>2. /\ ~h.bad /\ h.rest = Leaves(r.body) /\ h.update = (r.body \in Renewing)
        /\ h.asking \in BOOLEAN
    BY <1>4, <2>1, PostHandshakeExact
  <2> DEFINE next == IF h.update THEN NextKey(receive) ELSE key
             asked == requested /\ ~h.update
  <2>3. IF h.bad \/ (h.asking /\ send_closed) THEN Fail
          ELSE Accept(next, asked, h.rest, h.asking, 0)
    BY Zenon, <1>16 DEF ReceiveRecord, r
  <2>4. After(r) = At(next, h.rest)
    BY Zenon, <1>4, <2>2 DEF After
  <2>5. h.rest \in Begun \cup {<<>>} /\ one = 0
    BY <1>16, <2>2 DEF Leaves
  <2> HIDE DEF h, one
  <2>6. /\ next \in Key /\ next.seq <= HardLimit /\ asked \in BOOLEAN
        /\ requests <= next.generation + (IF asked THEN 1 ELSE 0)
    <3>1. /\ requested \in BOOLEAN /\ requests \in Nat /\ receive.generation \in Nat
          /\ requests <= receive.generation + (IF requested THEN 1 ELSE 0)
      BY <1>1, Keyed DEF Inv, TypeOK, LimitInv
    <3>2. CASE h.update
      <4>1. next = NextKey(receive) /\ asked = FALSE
        BY <3>2
      <4>2. /\ NextKey(receive) \in Key /\ NextKey(receive).seq = 0
            /\ NextKey(receive).generation = receive.generation + 1
        BY <1>1, Keyed
      <4> QED
        BY <3>1, <4>1, <4>2, LimitsAssumption
    <3>3. CASE ~h.update
      <4>1. next = key /\ asked = requested
        BY <3>1, <3>3
      <4> HIDE DEF key, next, asked
      <4> QED
        BY <1>12, <1>13, <1>16, <3>1, <4>1
    <3> QED
      BY <3>2, <3>3
  <2> HIDE DEF next, asked
  <2>7. CASE h.asking /\ send_closed
    BY <1>9, <2>3, <2>7
  <2>8. CASE ~(h.asking /\ send_closed)
    <3>1. Accept(next, asked, h.rest, h.asking, one)
      BY <2>2, <2>3, <2>5, <2>8
    <3> QED
      BY <1>8, <2>2, <2>4, <2>5, <2>6, <2>8, <3>1
  <2> QED
    BY <2>7, <2>8
<1>17. r.type \in {"data", "alert", "handshake"}
  BY <1>3 DEF Record
<1> QED
  BY <1>10, <1>14, <1>15, <1>16, <1>17

\* tls_post_handshake, tls_update_keys, tls_prepare_app_record: every step
\* of the connection keeps the chains of records and the limits.
LEMMA InvStep ==
    Inv /\ [Next]_vars => Inv'
<1> SUFFICES ASSUME Inv, [Next]_vars PROVE Inv'
  OBVIOUS
<1>1. CASE ReceiveEof
  <2>1. cut /\ failed' = TRUE /\ UNCHANGED <<send, receive, requested, send_closed, receive_closed,
                 post, delivered, written, requests, up, down, peer, cut>>
    BY <1>1 DEF ReceiveEof
  <2> QED
    BY Zenon, <2>1 DEF Inv, TypeOK, UpInv, DownInv, CloseInv, LimitInv, FailsForCause, Reading
<1>2. CASE \E asking, ticket \in BOOLEAN : PeerUpdate(asking, ticket)
  BY <1>2, PeerUpdateKeeps
<1>3. CASE \E message \in {Ticket, Update(TRUE), Update(FALSE)} : PeerBegins(message)
  BY Zenon, <1>3, PeerBeginsKeeps, Bodied
<1>4. CASE UNCHANGED vars
  BY Zenon, <1>4 DEF vars, Inv, TypeOK, UpInv, DownInv, CloseInv, LimitInv, FailsForCause, Reading, PeerAt
<1> QED
  BY Zenon, <1>1, <1>2, <1>3, <1>4, WriteAppKeeps, FinishWriteKeeps, ReceiveRecordKeeps, PeerPlainKeeps,
     PeerTicketKeeps, PeerContinuesKeeps, PeerReceivesKeeps, CutKeeps DEF Next

\* The inductive invariant holds in every reachable state.
LEMMA InvHolds ==
    Spec => []Inv
BY InvInit, InvStep, PTL DEF Spec

\* Keys stay in step: the next record under way always opens under the key
\* its receiver holds, the client renews its own key before the hard limit
\* and asks for a new one at most once per key (tls_update_keys,
\* tls_key_update_send, tls_prepare_app_record), for all limits.
THEOREM KeysInStep ==
    Spec => []KeysKept
<1>1. Inv => KeysKept
  <2> SUFFICES ASSUME Inv PROVE KeysKept
    OBVIOUS
  <2>1. IF up = <<>> THEN peer.receive = send ELSE Head(up).key = peer.receive
    <3>1. up \in Seq(Record) /\ Chain(up, At(peer.receive, <<>>), At(send, <<>>))
      BY SMTT(20) DEF Inv, UpInv, Upward
    <3>2. CASE up = <<>>
      BY <3>1, <3>2, Positions DEF Chain
    <3>3. CASE up # <<>>
      <4>1. Head(up) = up[1] /\ Before(up[1]) = At(peer.receive, <<>>)
        BY <3>1, <3>3 DEF Chain, Starts
      <4> QED
        BY <3>3, <4>1, Positions DEF Before
    <3> QED
      BY <3>2, <3>3
  <2>2. failed \/ receive_closed
           \/ IF down = <<>> THEN cut \/ receive = peer.send ELSE Head(down).key = receive
    <3> SUFFICES ASSUME Reading
                 PROVE  IF down = <<>> THEN cut \/ receive = peer.send ELSE Head(down).key = receive
      BY DEF Reading
    <3>1. /\ down \in Seq(Record) /\ Starts(down, At(receive, post))
          /\ ~cut => Chain(down, At(receive, post), PeerAt)
      BY DEF Inv, TypeOK, DownInv
    <3>2. CASE down = <<>>
      BY <3>1, <3>2, Positions DEF Chain, PeerAt
    <3>3. CASE down # <<>>
      <4>1. Head(down) = down[1] /\ Before(down[1]) = At(receive, post)
        BY <3>1, <3>3 DEF Starts
      <4> QED
        BY <3>3, <4>1, Positions DEF Before
    <3> QED
      BY <3>2, <3>3
  <2>3. send.seq \in Nat /\ receive.generation \in Nat /\ requests \in Nat
    BY Keyed DEF Inv, TypeOK
  <2>4. SealAlwaysPossible /\ AskedOncePerKey
    BY <2>3, LimitsAssumption DEF Inv, LimitInv, SealAlwaysPossible, AskedOncePerKey
  <2> QED
    BY <2>1, <2>2, <2>4 DEF KeysKept, KeysAgree
<1> QED
  BY <1>1, InvHolds, PTL

\* fill_reality_plain_cache reports the end of the stream only with all the
\* peer's data before it, and reading fails only for a cut, for a request
\* behind the client's own close_notify, or at the hard limit.
THEOREM EndsExplained ==
    Spec => []EndsForCause
<1>1. Inv => EndsForCause
  BY DEF Inv, CloseInv, EndsForCause, CleanEndIsComplete
<1> QED
  BY <1>1, InvHolds, PTL

=============================================================================
