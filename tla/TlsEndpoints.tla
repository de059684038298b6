---------------------------- MODULE TlsEndpoints ----------------------------
(***************************************************************************)
(* Opening TLS connections to a server with several addresses              *)
(* (tls_transport.c).  connect_manual_tls and open_tls_socket take sockets *)
(* from the dialer and offer ChaCha20 or AES on each; what worked is kept  *)
(* in two tables shared by all threads under g_tls_state_lock: the address *)
(* that last answered a site, and the sites and addresses that needed AES. *)
(* A step of a thread is one critical section or one handshake.            *)
(***************************************************************************)
EXTENDS Naturals, FiniteSets

CONSTANTS Caller, Site, Addr, NoAddr,
          TLS_ENDPOINT_CACHE_SIZE, TLS_AES_FALLBACK_CACHE_SIZE

ASSUME NoAddrAssumption == NoAddr \notin Addr /\ NoAddr \notin Site \X Addr

VARIABLES
  accepts,        \* the cipher offers the server behind an address accepts
  endpoints,      \* g_tls_endpoint_cache: a slot holds <<site, address>> or NoAddr
  replace_index,  \* g_tls_endpoint_replace_index modulo the size of the table
  aes,            \* g_tls_aes_fallback_cache: pairs <<site, address or NoAddr>>
  conn            \* the connection each caller is opening

endpointVars == <<accepts, endpoints, replace_index, aes, conn>>

Slots == 0..TLS_ENDPOINT_CACHE_SIZE - 1
Other(offer) == IF offer = "chacha" THEN "aes" ELSE "chacha"
NoConn == [pc |-> "idle", by |-> NoAddr, site |-> NoAddr, cached |-> NoAddr, left |-> {}, addr |-> NoAddr,
           offer |-> "chacha", again |-> FALSE, use_aes |-> FALSE, broken |-> FALSE]

Set(t, f) == conn' = [conn EXCEPT ![t] = f]
Cached(s) == {i \in Slots : endpoints[i] # NoAddr /\ endpoints[i][1] = s}

-----------------------------------------------------------------------------
\* The entry of the site if there is one, else the first free slot, else the
\* slots in turn.
First(slots) == {i \in slots : \A j \in slots : i <= j}

Slot(s) == IF Cached(s) # {} THEN Cached(s) ELSE First({i \in Slots : endpoints[i] = NoAddr})

cache_tls_endpoint(s, a) ==
  LET i == IF Slot(s) # {} THEN CHOOSE j \in Slot(s) : TRUE ELSE replace_index
  IN  /\ endpoints' = [endpoints EXCEPT ![i] = <<s, a>>]
      /\ replace_index' = IF Slot(s) # {} THEN replace_index ELSE (replace_index + 1) % TLS_ENDPOINT_CACHE_SIZE

\* invalidate_cached_tls_endpoint: the entry goes only if it still names the
\* address that failed.
Stale_Any(s, a) == Cached(s)

Stale(s, a) == {i \in Cached(s) : endpoints[i][2] = a}

\* A site, or one address of it, is known to have needed AES.
NeedsAes(s, a) == <<s, a>> \in aes

\* cache_tls_aes_fallback and cache_tls_address_aes: a full table learns nothing.
RememberAes(entry) ==
  aes' = IF Cardinality(aes) < TLS_AES_FALLBACK_CACHE_SIZE THEN aes \cup {entry} ELSE aes

-----------------------------------------------------------------------------
\* connect_manual_tls: is the site known to need AES?  Then, in a second
\* critical section, which address answered last.
ConnectManual(t, s) ==
  /\ conn[t].pc = "idle"
  /\ Set(t, [NoConn EXCEPT !.pc = "look", !.by = "manual", !.site = s, !.left = Addr,
                           !.offer = IF NeedsAes(s, NoAddr) THEN "aes" ELSE "chacha"])
  /\ UNCHANGED <<accepts, endpoints, replace_index, aes>>

LookUp(t) ==
  /\ conn[t].pc = "look"
  /\ \E hit \in IF Cached(conn[t].site) = {} THEN {NoAddr} ELSE {endpoints[i][2] : i \in Cached(conn[t].site)} :
        Set(t, [conn[t] EXCEPT !.pc = "dial", !.cached = hit])
  /\ UNCHANGED <<accepts, endpoints, replace_index, aes>>

\* open_tls_socket: the flag is the one an earlier connection of the same
\* stream left behind.
OpenTlsSocket(t, s, flag) ==
  /\ conn[t].pc = "idle"
  /\ Set(t, [NoConn EXCEPT !.pc = "dial", !.by = "socket", !.site = s, !.left = Addr, !.use_aes = flag])
  /\ UNCHANGED <<accepts, endpoints, replace_index, aes>>

\* core_dialer_next hands out every address once, in any order, and may fail
\* to connect some.  open_tls_socket consults the table for each address.
DialerNext(t) ==
  LET c == conn[t]
      asked(a) == IF c.by = "manual" THEN c.offer
                  ELSE IF (c.left = Addr /\ c.use_aes) \/ NeedsAes(c.site, a) THEN "aes" ELSE "chacha"
  IN  /\ c.pc = "dial"
      /\ \/ \E a \in c.left :
              Set(t, [c EXCEPT !.pc = "hand", !.left = @ \ {a}, !.addr = a, !.offer = asked(a), !.use_aes = FALSE])
         \/ \E a \in c.left : Set(t, [c EXCEPT !.left = @ \ {a}, !.broken = TRUE])
         \/ /\ c.left = {}
            /\ Set(t, [NoConn EXCEPT !.pc = "failed", !.broken = c.broken])
      /\ UNCHANGED <<accepts, endpoints, replace_index, aes>>

\* The connection is now its caller's; what it keeps of this is the flag that
\* OpenTlsSocket may later be given.
Connected(c) == IF c.by = "manual" THEN [c EXCEPT !.pc = "endpoint", !.left = {}, !.cached = NoAddr, !.broken = FALSE] ELSE NoConn

Succeeded_AlwaysAes(c) == [c EXCEPT !.pc = "aes", !.left = {}, !.cached = NoAddr, !.broken = FALSE]

\* The handshake succeeds; an AES offer that worked is remembered first.
Succeeded(c) == IF c.offer = "aes" THEN [c EXCEPT !.pc = "aes", !.left = {}, !.cached = NoAddr, !.broken = FALSE] ELSE Connected(c)

\* One handshake.  A refused offer is followed by the other one on a new socket
\* to the same address, which may fail to connect: connect_manual_tls_endpoint
\* goes only from ChaCha to AES; open_tls_socket goes either way, but only if
\* the failure came before a cipher was chosen.
Retries(c, unchosen) == ~ c.again /\ IF c.by = "manual" THEN c.offer = "chacha" ELSE unchosen

Handshake(t) ==
  LET c == conn[t]
      stale == c.by = "manual" /\ c.cached = c.addr
      lost(b) == [c EXCEPT !.pc = IF stale THEN "stale" ELSE "dial", !.addr = IF stale THEN @ ELSE NoAddr,
                           !.offer = IF c.by = "manual" /\ ~ c.again THEN @ ELSE "chacha",
                           !.again = FALSE, !.broken = @ \/ b]
  IN  /\ c.pc = "hand"
      /\ \/ /\ c.offer \in accepts[c.addr]
            /\ Set(t, Succeeded(c))
         \/ \E broken, connected \in BOOLEAN :
              /\ c.offer \in accepts[c.addr] => broken
              /\ \E unchosen \in IF broken THEN BOOLEAN ELSE {TRUE} :
                   IF Retries(c, unchosen) /\ connected
                   THEN Set(t, [c EXCEPT !.offer = Other(@), !.again = TRUE, !.broken = @ \/ broken])
                   ELSE Set(t, lost(broken \/ (Retries(c, unchosen) /\ ~ connected)))
      /\ UNCHANGED <<accepts, endpoints, replace_index, aes>>

\* remember_manual_tls_success, and the end of open_tls_socket.
CacheAes(t) ==
  /\ conn[t].pc = "aes"
  /\ RememberAes(<<conn[t].site, IF conn[t].by = "manual" THEN NoAddr ELSE conn[t].addr>>)
  /\ Set(t, Connected(conn[t]))
  /\ UNCHANGED <<accepts, endpoints, replace_index>>

CacheEndpoint(t) ==
  /\ conn[t].pc = "endpoint"
  /\ cache_tls_endpoint(conn[t].site, conn[t].addr)
  /\ Set(t, NoConn)
  /\ UNCHANGED <<accepts, aes>>

\* The cached address failed: it is not tried first again.
Invalidate(t) ==
  /\ conn[t].pc = "stale"
  /\ endpoints' = [i \in Slots |-> IF i \in Stale(conn[t].site, conn[t].addr) THEN NoAddr ELSE endpoints[i]]
  /\ Set(t, [conn[t] EXCEPT !.pc = "dial", !.addr = NoAddr, !.cached = NoAddr])
  /\ UNCHANGED <<accepts, replace_index, aes>>

\* The failure is reported.
Over(t) ==
  /\ conn[t].pc = "failed"
  /\ Set(t, NoConn)
  /\ UNCHANGED <<accepts, endpoints, replace_index, aes>>

EndpointsInit ==
  /\ accepts \in [Addr -> SUBSET {"chacha", "aes"}]
  /\ endpoints = [i \in Slots |-> NoAddr] /\ replace_index = 0 /\ aes = {}
  /\ conn = [t \in Caller |-> NoConn]

EndpointsNext ==
  \E t \in Caller :
    \/ \E s \in Site : ConnectManual(t, s) \/ \E flag \in BOOLEAN : OpenTlsSocket(t, s, flag)
    \/ LookUp(t) \/ DialerNext(t) \/ Handshake(t) \/ CacheAes(t) \/ CacheEndpoint(t) \/ Invalidate(t) \/ Over(t)

EndpointsSpec == EndpointsInit /\ [][EndpointsNext]_endpointVars

-----------------------------------------------------------------------------
\* What other connections put into the tables never costs a connection its
\* server: as long as nothing fails on the network, opening fails only if no
\* address accepts either offer.  (A site remembered as needing AES is offered
\* nothing else.)
ServerReached ==
  \A t \in Caller :
    conn[t].pc = "failed" /\ ~ conn[t].broken => \A a \in Addr : accepts[a] = {}

\* A remembered address is dropped only for a newer success of its site, by
\* the thread that just failed at that very address, or for the place when the
\* table is full of other sites: one thread's old failure never removes the
\* address another thread has since found to work.
EndpointForgottenForCause ==
  \A s \in Site, a \in Addr :
    (\E i \in Slots : endpoints[i] = <<s, a>>) /\ (\A i \in Slots : endpoints'[i] # <<s, a>>) =>
      \E t \in Caller :
        \/ conn[t].pc = "stale" /\ conn[t].site = s /\ conn[t].addr = a /\ conn'[t] # conn[t]
        \/ /\ conn[t].pc = "endpoint" /\ conn'[t] # conn[t]
           /\ conn[t].site = s \/ \A i \in Slots : endpoints[i] # NoAddr /\ endpoints[i][1] # conn[t].site

\* cache_tls_endpoint and invalidate_cached_tls_endpoint: every step forgets an
\* address only for one of those causes.
EndpointsKept == [][EndpointForgottenForCause]_endpointVars
=============================================================================
