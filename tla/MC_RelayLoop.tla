--------------------------- MODULE MC_RelayLoop ---------------------------
EXTENDS RelayLoop

Started(protocol, carrier, first) == [protocol |-> protocol, carrier |-> carrier, first |-> first]

\* Carriers with a socket of their own.
MCStreams == {Started("vless", "plain", FALSE), Started("vless", "upgrade", FALSE),
              Started("vless", "ws", TRUE), Started("trojan", "plain", FALSE)}

\* Streams of the HTTP/2 pool.
MCPool == {Started("vless", "pool", FALSE), Started("trojan", "pool", FALSE)}

MCAll == MCStreams \cup MCPool
=============================================================================
