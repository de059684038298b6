------------------------------ MODULE MC_Relay ------------------------------
(***************************************************************************)
(* The relay loop over carriers that are only counted, and the two         *)
(* carriers below it that parse what arrives: WebSocket (and HTTPUpgrade)  *)
(* and gRPC.  Each works in behaviours of its own while the others rest.   *)
(*                                                                         *)
(* WebSocket: frames of every kind, fragments with control frames between  *)
(* them, characters cut by a fragment, sizes coded in both ways, illegal   *)
(* frames and a stream that ends without a Close, behind good and bad      *)
(* answers to the request.  gRPC: the messages of one stream vary, and     *)
(* another stream takes part of the memory budget.                         *)
(***************************************************************************)
EXTENDS MC_RelayLoop, Sequences

VARIABLES part,
          c, input, plan,              \* WebSocket
          dec, grpc_reserved, net      \* Grpc

wsVars == <<c, input, plan>>
grpcVars == <<dec, grpc_reserved, net>>

-----------------------------------------------------------------------------
F(op, data) == [fin |-> TRUE, op |-> op, ext |-> FALSE, data |-> data]
Part(op, data) == [fin |-> FALSE, op |-> op, ext |-> FALSE, data |-> data]
Long(op, data) == [fin |-> TRUE, op |-> op, ext |-> TRUE, data |-> data]
Bye == F("close", <<"code", "code">>)

WsCarriers == {[kind |-> k, early |-> e] : k \in {"ws", "httpupgrade"}, e \in 0..1}
Ok(n) == <<n, "ok">>
WsAnswers == {
  [status |-> TRUE, lines |-> <<Ok("upgrade"), Ok("connection"), Ok("accept")>>],
  [status |-> TRUE, lines |-> <<Ok("connection"), Ok("upgrade"), <<"protocol", "echo">>, Ok("accept")>>],
  [status |-> TRUE, lines |-> <<Ok("upgrade"), Ok("upgrade"), Ok("connection"), Ok("accept")>>],
  [status |-> TRUE, lines |-> <<Ok("upgrade"), Ok("connection")>>],
  [status |-> FALSE, lines |-> <<Ok("upgrade"), Ok("connection"), Ok("accept")>>]}
WsScripts(kind) ==
  IF kind = "httpupgrade" THEN {<<F("binary", <<"a", "a">>)>>}
  ELSE {<<F("binary", <<"a", "z">>), F("ping", <<"a">>), Bye, F("binary", <<"a">>)>>,
        <<Part("text", <<"a", "l2">>), F("ping", <<>>), F("cont", <<"c", "x">>), F("close", <<>>)>>,
        <<Part("text", <<"l2", "c">>), F("cont", <<"a">>), Bye>>,
        <<Part("text", <<"l1">>), Part("cont", <<>>), F("text", <<"a">>), Bye>>,
        <<F("text", <<"l2", "x", "c">>), Bye>>,
        <<Long("binary", <<"a", "a", "a", "a">>), F("cont", <<"a">>), Bye>>,
        <<Part("binary", <<"a", "a", "a">>), F("ping", <<"a", "b">>), F("cont", <<"a", "a">>), Bye>>,
        <<Part("binary", <<"a", "a", "a">>), F("pong", <<"a">>), F("ping", <<"b">>), F("cont", <<"a">>), F("close", <<"code", "code", "l1">>)>>,
        <<Long("binary", <<"a">>), Bye>>,
        <<F("ping", <<"a">>), F("ping", <<"b">>), F("close", <<"a">>)>>,
        <<Part("ping", <<>>), Bye>>,
        <<F("binary", <<"a">>), F("reserved", <<>>)>>,
        <<F("binary", <<"a">>)>>}

Field(f, w, n) == [f |-> f, w |-> w, n |-> n, more |-> 0]
Pair == <<Field(1, "bytes", 2)>>
Replaced == <<Field(1, "bytes", 1), Field(1, "bytes", 1)>>
Messages == {<<>>, Pair, Replaced,
  <<Field(2, "varint", 0), [Field(1, "bytes", 1) EXCEPT !.more = 1], Field(3, "fixed", 1)>>,
  <<Field(2, "start", 0), Field(1, "bytes", 1), Field(2, "end", 0)>>,
  <<Field(1, "bytes", 1), Field(2, "start", 0)>>,
  <<Field(1, "lie", 1)>>,
  <<[Field(1, "bytes", 1) EXCEPT !.more = 2]>>}
GrpcAnswers(s) ==
  IF s = 1 THEN {<<>>} \cup {<<m>> : m \in Messages} \cup {<<m, Replaced>> : m \in Messages}
  ELSE {<<Pair>>}

Ws == INSTANCE WebSocket WITH
        wire <- input, Carriers <- WsCarriers, Answers <- WsAnswers, Scripts <- WsScripts,
        MaxWrites <- 2, MaxPings <- 1, Short <- 3, CORE_WS_MESSAGE_LIMIT <- 4, Heartbeat <- TRUE
Grpc == INSTANCE Grpc WITH
        Stream <- {1, 2}, Answers <- GrpcAnswers, GRPC_BUFFER_LIMIT <- 5, MaxShift <- 1, MaxGroups <- 1,
        Fixed <- 1, ReadSize <- 1

-----------------------------------------------------------------------------
MCInit ==
  /\ part \in {"relay", "websocket", "grpc"}
  /\ Init /\ (part = "relay" \/ mode = CHOOSE m \in Modes : TRUE)
  /\ IF part = "websocket" THEN Ws!WsInit ELSE c = 0 /\ input = 0 /\ plan = 0
  /\ IF part = "grpc" THEN Grpc!GrpcInit ELSE dec = 0 /\ grpc_reserved = 0 /\ net = 0

MCNext ==
  /\ UNCHANGED part
  /\ \/ part = "relay" /\ Next /\ UNCHANGED <<wsVars, grpcVars>>
     \/ part = "websocket" /\ Ws!WsNext /\ UNCHANGED <<vars, grpcVars>>
     \/ part = "grpc" /\ Grpc!GrpcNext /\ UNCHANGED <<vars, wsVars>>

MCSpec == MCInit /\ [][MCNext]_<<part, vars, wsVars, grpcVars>>

-----------------------------------------------------------------------------
\* WebSocket and HTTPUpgrade carry the bytes of both directions unchanged and
\* in order however frames, fragments and reads are cut, answer pings, report
\* the end only at a Close and fail only for cause
\* (ws_decode_frame, ws_connect, httpupgrade_connect, tls13_finish_write).
CarrierFaithful == part = "websocket" => Ws!CarrierFaithful

=============================================================================
