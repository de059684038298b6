----------------------------- MODULE MC_Dialer -----------------------------
(* Two IPv6 and two IPv4 addresses: the families race and each has a second *)
(* address to try.  A preferred address comes again in the DNS answer, and  *)
(* all four together are one more than the limit.                           *)
EXTENDS Dialer

CONSTANTS a1, a2, b1, b2

MCSix == {a1, a2}
MCFour == {b1, b2}
MCAnswers(f) == IF f = 6 THEN {<<>>, <<a1>>, <<a1, a2>>} ELSE {<<>>, <<b1>>, <<b1, b2>>}
MCFixed == {<<b1, a1>>}
MCPreferred == {a1, b1}
=============================================================================
