--------------------------- MODULE SessionProofs ----------------------------
(***************************************************************************)
(* Proofs about three things a session depends on: the pin file by which   *)
(* it trusts a server, the deadline of its thread, and the relay of a      *)
(* direct connection.                                                      *)
(*                                                                         *)
(* Pins, for any number of processes, hosts and certificates: whoever is   *)
(* past tofu_lock holds the lock, so between the search of Compare and the *)
(* rename nobody else changes the file, the copy in the temporary file is  *)
(* the current file and one entry of a host that is not listed yet, and    *)
(* appending such an entry keeps what every search finds.  A loss of       *)
(* power, which may take entries back, takes the sessions with it.         *)
(*                                                                         *)
(* Deadlines, for any timeouts, nesting and clock: conserving the budgets  *)
(* is inductive once it is known that no deadline is active and paused at  *)
(* a time (Exclusive).                                                     *)
(*                                                                         *)
(* Relay, for all buffer sizes and windows: what was received is what was  *)
(* delivered and the unsent rest of the buffer (Stream), so every send     *)
(* extends what was delivered by the bytes that come next, and an end is   *)
(* passed on only when that rest is empty.                                 *)
(***************************************************************************)
EXTENDS TofuPins, Deadline, TcpRelay, TLAPS

-----------------------------------------------------------------------------
(* Sequences. *)

\* A sequence is a function on an initial segment of the numbers.
LEMMA SequenceDefined == \A S : Seq(S) = UNION {[1..n -> S] : n \in Nat}
  OBVIOUS

\* The elements of a sequence.
LEMMA ElementIn ==
  ASSUME NEW S, NEW s \in Seq(S), NEW n \in 1..Len(s)
  PROVE  s[n] \in S
  OBVIOUS

\* Sequences with the same elements are equal.
LEMMA SameElements ==
  ASSUME NEW S, NEW s \in Seq(S), NEW t \in Seq(S), Len(s) = Len(t), \A i \in 1..Len(s) : s[i] = t[i]
  PROVE  s = t
  OBVIOUS

\* Sequences of one kind of element make one when joined.
LEMMA Joined ==
  ASSUME NEW S, NEW s \in Seq(S), NEW t \in Seq(S)
  PROVE  /\ s \o t \in Seq(S) /\ Len(s \o t) = Len(s) + Len(t)
         /\ \A i \in 1..(Len(s) + Len(t)) : (s \o t)[i] = IF i <= Len(s) THEN s[i] ELSE t[i - Len(s)]
  OBVIOUS

\* A part of a sequence.
LEMMA PartOf ==
  ASSUME NEW S, NEW s, NEW m \in Int, NEW n \in Int, \A i \in m..n : s[i] \in S
  PROVE  /\ SubSeq(s, m, n) \in Seq(S)
         /\ Len(SubSeq(s, m, n)) = IF m <= n THEN n - m + 1 ELSE 0
         /\ \A i \in 1..(n - m + 1) : SubSeq(s, m, n)[i] = s[m + i - 1]
  OBVIOUS

(* The pin file. *)

Held == {"find", "copy", "sync", "rename", "dir"}
Calls == [pc : {"idle", "lock"} \cup Held, host : Host \cup {None}, pin : Pin \cup {None},
          fd : File \cup {None}, temp : File \cup {None},
          result : Results \cup {None}]

\* The variables have their types; every file that has the name is whole.
TofuTypeOK ==
  /\ lock \in Proc \cup {None}
  /\ pins \in File /\ pins.at = "disk"
  /\ disk \in File /\ disk.at = "disk"
  /\ proc \in [Proc -> Calls]

\* What a call knows while it is under way.
CallKnows(p) ==
  LET c == proc[p]
  IN  /\ c.pc # "idle" => c.host \in Host /\ c.pin \in Pin /\ c.result = None
      /\ c.result # None => c.host \in Host /\ c.pin \in Pin
      /\ c.pc \in Held => lock = p
      /\ c.pc \in {"copy", "sync", "rename"} => ~ Lists(pins, c.host)
      /\ c.pc = "copy" => c.fd = pins
      /\ c.pc = "sync" => c.temp = Added(pins, c.host, c.pin)
      /\ c.pc = "rename" => c.temp = Synced(Added(pins, c.host, c.pin))
      /\ c.pc = "dir" => Finds(pins, c.host, c.pin)

\* The inductive invariant.
TofuInv ==
  /\ TofuTypeOK
  /\ \A p \in Proc : CallKnows(p)
  /\ AcceptedIsPinned

-----------------------------------------------------------------------------
\* Appending the entry of a host the file does not list: the new entry is
\* found, and every entry found before still is.
LEMMA AddedFinds ==
  ASSUME NEW f \in File, NEW h \in Host, NEW d \in Pin, ~ Lists(f, h)
  PROVE  LET g == Synced(Added(f, h, d))
         IN  /\ Added(f, h, d) \in File
             /\ g \in File /\ g.at = "disk"
             /\ Finds(g, h, d)
             /\ \A k \in Host, e \in Pin : Finds(f, k, e) => Finds(g, k, e)
<1> DEFINE new == [host |-> h, pin |-> d]
           g == Synced(Added(f, h, d))
           n == Len(f.lines)
<1>1. new \in Entry \cup {Junk}
  BY DEF Entry
<1>2. f.lines \in Seq(Entry \cup {Junk}) /\ n \in Nat
  BY DEF File
<1>3. g = [lines |-> Append(f.lines, new), end |-> "newline", at |-> "disk"]
  BY DEF Added, Synced
<1>4. /\ Append(f.lines, new) \in Seq(Entry \cup {Junk})
      /\ Len(Append(f.lines, new)) = n + 1
      /\ \A i \in 1..n : Append(f.lines, new)[i] = f.lines[i]
      /\ Append(f.lines, new)[n + 1] = new
  BY <1>1, <1>2
<1>5. DOMAIN f.lines = 1..n /\ DOMAIN g.lines = 1..(n + 1)
  BY <1>2, <1>3, <1>4
<1>6. Added(f, h, d) \in File /\ g \in File /\ g.at = "disk"
  BY <1>3, <1>4 DEF File, Added, Synced
<1>7. Finds(g, h, d)
  <2>1. g.lines[n + 1] = new /\ n + 1 \in DOMAIN g.lines
    BY <1>2, <1>3, <1>4, <1>5
  <2>2. \A j \in 1..((n + 1) - 1) : g.lines[j].host # h
    BY <1>2, <1>3, <1>4, <1>5 DEF Lists
  <2> QED
    BY <2>1, <2>2 DEF Finds
<1>8. ASSUME NEW k \in Host, NEW e \in Pin, Finds(f, k, e)
      PROVE  Finds(g, k, e)
  BY <1>8, <1>2, <1>3, <1>4, <1>5 DEF Finds
<1> QED
  BY <1>6, <1>7, <1>8

\* Every initial state satisfies the invariant: no call is under way.
LEMMA TofuInvInit == TofuInit => TofuInv
<1> SUFFICES ASSUME TofuInit PROVE TofuInv
  OBVIOUS
<1>1. TofuTypeOK
  BY TofuAssumption DEF TofuInit, TofuTypeOK, Rest, Call, Calls, Held
<1>2. \A p \in Proc : proc[p].pc = "idle" /\ proc[p].result = None
  BY Zenon DEF TofuInit, Rest, Call
<1>3. None \notin {"verified", "learned"}
  BY TofuAssumption DEF Results
<1> QED
  BY <1>1, <1>2, <1>3 DEF TofuInv, CallKnows, AcceptedIsPinned, Held

\* A call's step that leaves the file alone, and the lock too unless it is free
\* or its own, keeps what the other calls know.
LEMMA OthersKeep ==
  ASSUME TofuInv, NEW p \in Proc, TofuTypeOK', pins' = pins,
         lock' = lock \/ lock \in {p, None},
         \A q \in Proc \ {p} : proc'[q] = proc[q],
         CallKnows(p)',
         proc'[p].result \in {"verified", "learned"} => Finds(pins, proc'[p].host, proc'[p].pin)
  PROVE  TofuInv'
<1>1. ASSUME NEW q \in Proc
      PROVE  CallKnows(q)'
  <2>1. CASE q = p
    BY <2>1
  <2>2. CASE q # p
    <3>1. proc'[q] = proc[q] /\ CallKnows(q)
      BY <2>2 DEF TofuInv
    <3>2. proc[q].pc \in Held => lock' = q
      BY <3>1, <2>2, TofuAssumption DEF CallKnows
    <3> QED
      BY <3>1, <3>2 DEF CallKnows
  <2> QED
    BY <2>1, <2>2
<1>2. AcceptedIsPinned'
  <2>1. ASSUME NEW q \in Proc, proc'[q].result \in {"verified", "learned"}
        PROVE  Finds(pins, proc'[q].host, proc'[q].pin)
    BY <2>1 DEF TofuInv, AcceptedIsPinned
  <2> QED
    BY <2>1 DEF AcceptedIsPinned
<1> QED
  BY <1>1, <1>2 DEF TofuInv

\* What a call leaves behind is a call.
LEMMA EndOfCall ==
  ASSUME NEW h \in Host, NEW d \in Pin, NEW r \in Results
  PROVE  Call("idle", h, d, r) \in Calls
  BY DEF Call, Calls

\* The end of a call: it has its result and nothing else, and the lock is free
\* if it was the call's.
LEMMA Ended ==
  ASSUME TofuInv, NEW p \in Proc, proc[p].pc # "idle",
         NEW r \in Results,
         Done(p, r), pins' = pins, disk' \in {disk, pins}, lock' = lock \/ Unlocked(p),
         r \in {"verified", "learned"} => Finds(pins, proc[p].host, proc[p].pin)
  PROVE  TofuInv'
<1> DEFINE e == Call("idle", proc[p].host, proc[p].pin, r)
<1>1. proc[p] \in Calls /\ proc[p].host \in Host /\ proc[p].pin \in Pin
  BY DEF TofuInv, TofuTypeOK, CallKnows
<1>2. e = [pc |-> "idle", host |-> proc[p].host, pin |-> proc[p].pin,
           fd |-> None, temp |-> None, result |-> r]
  BY DEF Call
<1>3. proc'[p] = e /\ \A q \in Proc \ {p} : proc'[q] = proc[q]
  BY DEF Done, TofuInv, TofuTypeOK
<1>4. TofuTypeOK'
  <2>1. proc' \in [Proc -> Calls]
    <3>1. e \in Calls
      BY Zenon, <1>1, EndOfCall
    <3>2. proc' = [proc EXCEPT ![p] = e] /\ proc \in [Proc -> Calls]
      BY Zenon DEF Done, TofuInv, TofuTypeOK
    <3> QED
      BY Zenon, <3>1, <3>2
  <2> QED
    BY <2>1 DEF TofuInv, TofuTypeOK, Unlocked
<1>5. CallKnows(p)'
  <2>1. proc'[p].pc = "idle" /\ proc'[p].host = proc[p].host /\ proc'[p].pin = proc[p].pin
    BY <1>2, <1>3
  <2>2. "idle" \notin Held \cup {"copy", "sync", "rename", "dir"}
    BY DEF Held
  <2> QED
    BY Zenon, <1>1, <2>1, <2>2 DEF CallKnows
<1>6. lock' = lock \/ lock \in {p, None}
  BY DEF Unlocked
<1> QED
  BY <1>1, <1>2, <1>3, <1>4, <1>5, <1>6, OthersKeep

\* Every step of a call keeps the invariant.
LEMMA CallKeeps ==
  ASSUME TofuInv, NEW p \in Proc, TofuStep(p)
  PROVE  TofuInv'
<1> DEFINE c == proc[p]
<1> USE TofuAssumption
<1>0. /\ c \in Calls /\ CallKnows(p) /\ TofuTypeOK
      /\ proc \in [Proc -> Calls]
  BY DEF TofuInv, TofuTypeOK
<1>1. CASE secure_tofu_verify_or_store(p)
  <2>1. PICK h \in Host, d \in Pin : proc' = [proc EXCEPT ![p] = Call("lock", h, d, None)]
    BY Zenon, <1>1 DEF secure_tofu_verify_or_store
  <2>2. proc'[p] = Call("lock", h, d, None) /\ \A q \in Proc \ {p} : proc'[q] = proc[q]
    BY <1>0, <2>1
  <2>3. TofuTypeOK'
    <3>1. Call("lock", h, d, None) \in Calls
      BY DEF Call, Calls
    <3>2. UNCHANGED <<lock, pins, disk>>
      BY Zenon, <1>1 DEF secure_tofu_verify_or_store
    <3>3. proc' \in [Proc -> Calls]
      BY Zenon, <1>0, <2>1, <3>1
    <3> QED
      BY Zenon, <1>0, <3>2, <3>3 DEF TofuTypeOK
  <2>4. CallKnows(p)'
    BY <2>2 DEF CallKnows, Call, Held
  <2>5. proc'[p].result \notin {"verified", "learned"}
    BY <2>2 DEF Call, Results
  <2> QED
    BY <1>1, <2>2, <2>3, <2>4, <2>5, OthersKeep DEF secure_tofu_verify_or_store
<1>2. CASE tofu_lock(p)
  <2>1. proc'[p] = [c EXCEPT !.pc = "find"] /\ \A q \in Proc \ {p} : proc'[q] = proc[q]
    BY <1>0, <1>2 DEF tofu_lock
  <2>2. TofuTypeOK'
    BY <1>0, <1>2 DEF tofu_lock, TofuTypeOK, Calls, Held
  <2>3. CallKnows(p)' /\ proc'[p].result = None
    BY <1>0, <1>2, <2>1 DEF tofu_lock, CallKnows, Held, Calls
  <2> QED
    BY <1>2, <2>1, <2>2, <2>3, OthersKeep DEF tofu_lock, Results
<1>3. CASE Abandon(p)
  BY <1>3, Ended DEF Abandon, Results
<1>4. CASE Compare(p)
  <2>1. CASE Lists(pins, c.host)
    <3>1. Done(p, IF Finds(pins, c.host, c.pin) THEN "verified" ELSE "mismatch")
      BY <1>4, <2>1 DEF Compare
    <3>2. Unlocked(p) /\ pins' = pins /\ disk' = disk /\ c.pc = "find"
      BY <1>4, <2>1 DEF Compare
    <3> QED
      BY <3>1, <3>2, Ended DEF Results
  <2>2. CASE ~ Lists(pins, c.host)
    <3>1. /\ c.pc = "find"
          /\ proc' = [proc EXCEPT ![p].pc = "copy", ![p].fd = pins]
          /\ UNCHANGED <<lock, pins, disk>>
      BY <1>4, <2>2 DEF Compare
    <3>2. /\ proc'[p] = [c EXCEPT !.pc = "copy", !.fd = pins]
          /\ \A q \in Proc \ {p} : proc'[q] = proc[q]
      BY <1>0, <3>1
    <3>3. TofuTypeOK'
      BY Zenon, <1>0, <3>1 DEF TofuTypeOK, Calls, Held
    <3>4. CallKnows(p)' /\ proc'[p].result = None
      BY <1>0, <2>2, <3>1, <3>2 DEF CallKnows, Held, Calls
    <3> QED
      BY Zenon, <3>1, <3>2, <3>3, <3>4, OthersKeep DEF Results
  <2> QED
    BY <2>1, <2>2
<1>5. CASE TofuFails(p)
  BY <1>5, Ended DEF TofuFails, Results
<1>6. CASE Copy(p)
  <2>1. /\ c.pc = "copy" /\ c.fd = pins /\ ~ Lists(pins, c.host) /\ c.host \in Host /\ c.pin \in Pin
        /\ proc' = [proc EXCEPT ![p].pc = "sync", ![p].temp = Added(pins, c.host, c.pin)]
        /\ UNCHANGED <<lock, pins, disk>>
    BY Zenon, <1>0, <1>6 DEF Copy, CallKnows
  <2>2. /\ proc'[p] = [c EXCEPT !.pc = "sync", !.temp = Added(pins, c.host, c.pin)]
        /\ \A q \in Proc \ {p} : proc'[q] = proc[q]
    BY <1>0, <2>1
  <2>3. Added(pins, c.host, c.pin) \in File
    BY <1>0, <2>1, AddedFinds DEF TofuTypeOK
  <2>4. TofuTypeOK'
    BY Zenon, <1>0, <2>1, <2>3 DEF TofuTypeOK, Calls, Held
  <2>5. CallKnows(p)' /\ proc'[p].result = None
    BY <1>0, <2>1, <2>2 DEF CallKnows, Held, Calls
  <2> QED
    BY Zenon, <2>1, <2>2, <2>4, <2>5, OthersKeep DEF Results
<1>7. CASE Fsync(p)
  <2>1. /\ c.pc = "sync" /\ c.temp = Added(pins, c.host, c.pin)
        /\ ~ Lists(pins, c.host) /\ c.host \in Host /\ c.pin \in Pin
        /\ proc' = [proc EXCEPT ![p].pc = "rename", ![p].temp = Synced(Added(pins, c.host, c.pin))]
        /\ UNCHANGED <<lock, pins, disk>>
    BY Zenon, <1>0, <1>7 DEF Fsync, CallKnows
  <2>2. /\ proc'[p] = [c EXCEPT !.pc = "rename", !.temp = Synced(Added(pins, c.host, c.pin))]
        /\ \A q \in Proc \ {p} : proc'[q] = proc[q]
    BY <1>0, <2>1
  <2>3. Synced(Added(pins, c.host, c.pin)) \in File
    BY <1>0, <2>1, AddedFinds DEF TofuTypeOK
  <2>4. TofuTypeOK'
    BY Zenon, <1>0, <2>1, <2>3 DEF TofuTypeOK, Calls, Held
  <2>5. CallKnows(p)' /\ proc'[p].result = None
    BY <1>0, <2>1, <2>2 DEF CallKnows, Held, Calls
  <2> QED
    BY Zenon, <2>1, <2>2, <2>4, <2>5, OthersKeep DEF Results
<1>8. CASE Rename(p)
  <2>1. /\ c.pc = "rename" /\ lock = p /\ pins' = Synced(Added(pins, c.host, c.pin))
        /\ ~ Lists(pins, c.host) /\ c.host \in Host /\ c.pin \in Pin
        /\ proc' = [proc EXCEPT ![p].pc = "dir", ![p].temp = None]
        /\ UNCHANGED <<lock, disk>>
    BY <1>0, <1>8 DEF Rename, CallKnows, Held
  <2>2. /\ proc'[p] = [c EXCEPT !.pc = "dir", !.temp = None]
        /\ \A q \in Proc \ {p} : proc'[q] = proc[q]
    BY <1>0, <2>1
  <2>3. /\ pins' \in File /\ pins'.at = "disk" /\ Finds(pins', c.host, c.pin)
        /\ \A k \in Host, e \in Pin : Finds(pins, k, e) => Finds(pins', k, e)
    BY <1>0, <2>1, AddedFinds DEF TofuTypeOK
  <2>4. TofuTypeOK'
    BY Zenon, <1>0, <2>1, <2>3 DEF TofuTypeOK, Calls, Held
  <2>5. CallKnows(p)' /\ proc'[p].result = None
    BY <1>0, <2>1, <2>2, <2>3 DEF CallKnows, Held, Calls
  <2>6. ASSUME NEW q \in Proc \ {p}
        PROVE  CallKnows(q)'
    <3>1. proc[q].pc \notin Held
      BY <2>1, <2>6 DEF TofuInv, CallKnows
    <3> QED
      BY <2>2, <3>1 DEF TofuInv, CallKnows, Held
  <2>7. ASSUME NEW q \in Proc, proc'[q].result \in {"verified", "learned"}
        PROVE  Finds(pins', proc'[q].host, proc'[q].pin)
    <3>1. q # p /\ proc'[q] = proc[q]
      BY Zenon, <2>2, <2>5, <2>7 DEF Results
    <3>2. Finds(pins, proc[q].host, proc[q].pin)
      BY <2>7, <3>1 DEF TofuInv, AcceptedIsPinned
    <3>3. proc[q].host \in Host /\ proc[q].pin \in Pin
      BY <2>7, <3>1 DEF TofuInv, CallKnows, Results
    <3> QED
      BY <2>3, <3>1, <3>2, <3>3
  <2> QED
    BY <2>4, <2>5, <2>6, <2>7 DEF TofuInv, AcceptedIsPinned
<1>9. CASE FsyncParent(p)
  BY <1>0, <1>9, Ended DEF FsyncParent, Results, CallKnows
<1>10. CASE Killed(p)
  <2>1. proc'[p] = Rest /\ \A q \in Proc \ {p} : proc'[q] = proc[q]
    BY <1>0, <1>10 DEF Killed
  <2>2. TofuTypeOK'
    BY <1>0, <1>10 DEF Killed, Unlocked, TofuTypeOK, Rest, Call, Calls
  <2>3. CallKnows(p)' /\ proc'[p].result = None
    BY <2>1 DEF CallKnows, Rest, Call, Held
  <2>4. lock' = lock \/ lock \in {p, None}
    BY <1>10 DEF Killed, Unlocked
  <2> QED
    BY <1>10, <2>1, <2>2, <2>3, <2>4, OthersKeep DEF Killed, Results
<1> QED
  BY <1>1, <1>2, <1>3, <1>4, <1>5, <1>6, <1>7, <1>8, <1>9, <1>10 DEF TofuStep

\* So does every step of the machine, and every stuttering step.
LEMMA TofuInvStep == TofuInv /\ [TofuNext]_tofuVars => TofuInv'
<1> SUFFICES ASSUME TofuInv, [TofuNext]_tofuVars
             PROVE  TofuInv'
  OBVIOUS
<1>1. CASE UNCHANGED tofuVars
  BY Zenon, <1>1 DEF tofuVars, TofuInv, TofuTypeOK, CallKnows, AcceptedIsPinned
<1>2. CASE WriteBack
  BY <1>2 DEF WriteBack, TofuInv, TofuTypeOK, CallKnows, AcceptedIsPinned
<1>3. CASE PowerLoss
  <2>1. pins' = disk /\ disk' = disk /\ lock' = None
    BY <1>3 DEF PowerLoss, Survives, TofuInv, TofuTypeOK
  <2>2. proc' \in [Proc -> Calls] /\ \A p \in Proc : proc'[p].pc = "idle" /\ proc'[p].result = None
    BY <1>3 DEF PowerLoss, Rest, Call, Calls
  <2>3. TofuTypeOK'
    BY <2>1, <2>2 DEF TofuInv, TofuTypeOK
  <2> QED
    BY <2>2, <2>3, TofuAssumption DEF TofuInv, CallKnows, AcceptedIsPinned, Held, Results
<1> QED
  BY <1>1, <1>2, <1>3, CallKeeps DEF TofuNext

\* Two sessions the pin file accepted for one host saw the same certificate:
\* whatever secure_tofu_verify_or_store accepted is what the file says.
THEOREM AcceptedAgree == TofuSpec => []AcceptedIsPinned
<1>1. TofuInv => AcceptedIsPinned
  BY DEF TofuInv
<1> QED
  BY TofuInvInit, TofuInvStep, <1>1, PTL DEF TofuSpec

\* No step of the code and no crash between two of them changes or drops a pin.
THEOREM PinsNeverChange == TofuSpec => PinsKept
<1>1. ASSUME TofuInv, [TofuNext]_tofuVars
      PROVE  [\A h \in Host, d \in Pin :
                Finds(pins, h, d) => Finds(pins', h, d) \/ pins' = disk]_tofuVars
  <2>1. CASE PowerLoss
    BY <1>1, <2>1 DEF PowerLoss, Survives, TofuInv, TofuTypeOK
  <2>2. ASSUME NEW p \in Proc, Rename(p)
        PROVE  \A h \in Host, d \in Pin : Finds(pins, h, d) => Finds(pins', h, d)
    <3>1. /\ ~ Lists(pins, proc[p].host) /\ proc[p].host \in Host /\ proc[p].pin \in Pin
          /\ pins' = Synced(Added(pins, proc[p].host, proc[p].pin))
      BY <1>1, <2>2 DEF Rename, TofuInv, CallKnows
    <3> QED
      BY <1>1, <3>1, AddedFinds DEF TofuInv, TofuTypeOK
  <2>3. ASSUME NEW p \in Proc, TofuStep(p), ~ Rename(p)
        PROVE  pins' = pins
    BY <2>3 DEF TofuStep, secure_tofu_verify_or_store, tofu_lock, Abandon, Compare, TofuFails,
                Copy, Fsync, FsyncParent, Killed
  <2>4. CASE WriteBack \/ UNCHANGED tofuVars
    BY <2>4 DEF WriteBack, tofuVars
  <2> QED
    BY <1>1, <2>1, <2>2, <2>3, <2>4 DEF TofuNext
<1> QED
  BY TofuInvInit, TofuInvStep, <1>1, PTL DEF TofuSpec, PinsKept

-----------------------------------------------------------------------------
(* Deadlines. *)

(* A deadline is active or paused, never both.                              *)
Exclusive == \A l \in Levels : active[l] => paused[l] = 0

DeadlineInv == DeadlineTypeOK /\ Exclusive /\ BudgetConserved /\ SleepsWithinDeadline

(* What core_deadline_limit returns: never more than what is left, and never *)
(* "no limit" while a deadline is active.                                    *)
LEMMA LimitedWithin ==
  ASSUME DeadlineTypeOK, NEW t \in Nat \cup {Forever}
  PROVE  /\ Limited(t) \in Nat \cup {Forever}
         /\ active[depth] => Limited(t) # Forever /\ Limited(t) <= Remaining
BY DEF DeadlineTypeOK, Limited, Remaining, Larger, Forever

(* Every operation keeps the types. *)
LEMMA TypeInductive == DeadlineTypeOK /\ [DeadlineNext]_deadlineVars => DeadlineTypeOK'
<1> SUFFICES ASSUME DeadlineTypeOK, [DeadlineNext]_deadlineVars PROVE DeadlineTypeOK'
  OBVIOUS
<1> USE TimeoutsAssumption, DepthAssumption
<1>1. ASSUME NEW l \in Levels, NEW t \in Timeouts, BeginAt(l, t), depth' \in Levels PROVE DeadlineTypeOK'
  BY <1>1 DEF DeadlineTypeOK, BeginAt, Larger
<1>2. ASSUME NEW t \in Timeouts, Begin(t) PROVE DeadlineTypeOK'
  BY <1>1, <1>2 DEF DeadlineTypeOK, Begin
<1>3. ASSUME NEW t \in Timeouts, ScopeBegin(t) PROVE DeadlineTypeOK'
  <2>1. depth + 1 \in Levels /\ depth' \in Levels
    BY <1>3 DEF DeadlineTypeOK, ScopeBegin, Levels
  <2> QED
    BY <1>1, <1>3, <2>1 DEF ScopeBegin
<1>4. CASE End
  BY <1>4 DEF DeadlineTypeOK, End
<1>5. CASE Pause
  <2>1. Remaining \in Nat
    BY DEF DeadlineTypeOK, Remaining, Larger
  <2> QED
    BY <1>5, <2>1 DEF DeadlineTypeOK, Pause
<1>6. CASE Resume
  <2>1. ResumedUntil \in Nat
    BY <1>6 DEF DeadlineTypeOK, Resume, ResumedUntil
  <2> QED
    BY <1>6, <2>1 DEF DeadlineTypeOK, Resume
<1>7. CASE ScopeEnd
  <2>1. depth' \in Levels
    BY <1>7 DEF DeadlineTypeOK, ScopeEnd, Levels
  <2> QED
    BY <1>7, <2>1 DEF DeadlineTypeOK, ScopeEnd
<1>8. ASSUME NEW t \in Nat \cup {Forever}, CorePoll(t) PROVE DeadlineTypeOK'
  <2>1. wakeAt' \in Nat \cup {Forever}
    BY <1>8, LimitedWithin DEF CorePoll, PollFor, DeadlineTypeOK
  <2> QED
    BY <1>8, <2>1 DEF DeadlineTypeOK, CorePoll
<1>9. CASE Interrupted
  <2>1. (IF wakeAt = Forever THEN Forever ELSE wakeAt - now) \in Nat \cup {Forever}
    BY <1>9 DEF DeadlineTypeOK, Interrupted
  <2>2. wakeAt' \in Nat \cup {Forever}
    BY <1>9, <2>1, LimitedWithin DEF Interrupted, DeadlineTypeOK
  <2> QED
    BY <1>9, <2>2 DEF DeadlineTypeOK, Interrupted
<1>10. CASE PollReturns
  BY <1>10 DEF DeadlineTypeOK, PollReturns
<1>11. CASE Tick
  BY <1>11 DEF DeadlineTypeOK, Tick
<1>12. CASE UNCHANGED deadlineVars
  BY <1>12 DEF DeadlineTypeOK, deadlineVars
<1> QED
  BY Zenon, <1>2, <1>3, <1>4, <1>5, <1>6, <1>7, <1>8, <1>9, <1>10, <1>11, <1>12 DEF DeadlineNext

(* Every operation leaves a deadline active, paused or neither. *)
LEMMA ExclusiveInductive == DeadlineTypeOK /\ Exclusive /\ [DeadlineNext]_deadlineVars => Exclusive'
<1> SUFFICES ASSUME DeadlineTypeOK, Exclusive, [DeadlineNext]_deadlineVars PROVE Exclusive'
  OBVIOUS
<1>1. ASSUME NEW t \in Timeouts, Begin(t) \/ ScopeBegin(t) PROVE Exclusive'
  BY <1>1 DEF DeadlineTypeOK, Exclusive, Begin, ScopeBegin, BeginAt
<1>2. CASE End \/ Pause \/ Resume \/ ScopeEnd
  BY <1>2 DEF DeadlineTypeOK, Exclusive, End, Pause, Resume, ScopeEnd
<1>3. CASE CorePoll(Forever) \/ Interrupted \/ PollReturns \/ Tick \/ UNCHANGED deadlineVars \/ \E t \in Timeouts : CorePoll(t)
  BY <1>3 DEF Exclusive, CorePoll, Interrupted, PollReturns, Tick, deadlineVars
<1> QED
  BY <1>1, <1>2, <1>3 DEF DeadlineNext

(* Every operation conserves the budgets. *)
LEMMA BudgetInductive == DeadlineTypeOK /\ Exclusive /\ BudgetConserved /\ [DeadlineNext]_deadlineVars => BudgetConserved'
<1> SUFFICES ASSUME DeadlineTypeOK, Exclusive, BudgetConserved, [DeadlineNext]_deadlineVars, NEW l \in Levels
             PROVE  /\ active'[l] => Larger(until'[l] - now', 0) = Unspent(l)'
                    /\ paused'[l] # 0 => paused'[l] - 1 = Unspent(l)'
  BY DEF BudgetConserved
<1> USE TimeoutsAssumption, DepthAssumption
<1>1. ASSUME NEW k \in Levels, NEW t \in Timeouts, BeginAt(k, t)
      PROVE  /\ active'[l] => Larger(until'[l] - now', 0) = Unspent(l)'
             /\ paused'[l] # 0 => paused'[l] - 1 = Unspent(l)'
  BY <1>1 DEF DeadlineTypeOK, BudgetConserved, BeginAt, Unspent, Larger
<1>2. ASSUME NEW t \in Timeouts, Begin(t) \/ ScopeBegin(t)
      PROVE  /\ active'[l] => Larger(until'[l] - now', 0) = Unspent(l)'
             /\ paused'[l] # 0 => paused'[l] - 1 = Unspent(l)'
  <2>1. ScopeBegin(t) => depth + 1 \in Levels
    BY DEF DeadlineTypeOK, ScopeBegin, Levels
  <2> QED
    BY Zenon, <1>1, <1>2, <2>1 DEF DeadlineTypeOK, Begin, ScopeBegin
<1>3. CASE End \/ ScopeEnd
  BY <1>3 DEF DeadlineTypeOK, BudgetConserved, End, ScopeEnd, Unspent, Larger
<1>4. CASE Pause
  BY <1>4 DEF DeadlineTypeOK, BudgetConserved, Pause, Remaining, Unspent, Larger
<1>5. CASE Resume
  <2>1. paused[l] # 0 => paused[l] - 1 = Unspent(l) /\ paused[l] \in Nat \ {0} /\ now \in Nat
    BY DEF DeadlineTypeOK, BudgetConserved
  <2>2. Unspent(l)' = Unspent(l)
    BY <1>5 DEF Resume, Unspent
  <2>3. CASE l = depth
    <3>1. until'[l] = now + paused[l] - 1 /\ now' = now /\ paused'[l] = 0 /\ paused[l] # 0
      BY <1>5, <2>3 DEF DeadlineTypeOK, Resume, ResumedUntil
    <3> QED
      BY <2>1, <2>2, <3>1 DEF Larger
  <2>4. CASE l # depth
    BY <1>5, <2>2, <2>4 DEF DeadlineTypeOK, BudgetConserved, Resume
  <2> QED
    BY <2>3, <2>4
<1>6. CASE Interrupted \/ PollReturns \/ CorePoll(Forever) \/ \E t \in Timeouts : CorePoll(t)
  BY <1>6 DEF BudgetConserved, Interrupted, PollReturns, CorePoll, Unspent
<1>7. CASE Tick
  <2>1. /\ until[l] \in Int /\ now \in Nat
        /\ UNCHANGED <<active, paused, until>> /\ now' = now + 1
    BY <1>7 DEF DeadlineTypeOK, Tick
  <2> QED
    BY <1>7, <2>1 DEF DeadlineTypeOK, Exclusive, BudgetConserved, Tick, Unspent, Larger
<1>8. CASE UNCHANGED deadlineVars
  BY <1>8 DEF BudgetConserved, deadlineVars, Unspent
<1> QED
  BY <1>2, <1>3, <1>4, <1>5, <1>6, <1>7, <1>8 DEF DeadlineNext

(* Every operation keeps a sleeping thread within its deadline. *)
LEMMA SleepInductive == DeadlineTypeOK /\ SleepsWithinDeadline /\ [DeadlineNext]_deadlineVars => SleepsWithinDeadline'
<1> SUFFICES ASSUME DeadlineTypeOK, SleepsWithinDeadline, [DeadlineNext]_deadlineVars PROVE SleepsWithinDeadline'
  OBVIOUS
<1> USE TimeoutsAssumption, DepthAssumption
<1>1. CASE thread' = "run"
  BY <1>1 DEF SleepsWithinDeadline
<1>2. ASSUME NEW t \in Nat \cup {Forever}, CorePoll(t) PROVE SleepsWithinDeadline'
  BY <1>2, LimitedWithin DEF DeadlineTypeOK, SleepsWithinDeadline, CorePoll, PollFor, Remaining, Larger, Forever
<1>3. CASE Interrupted
  <2>1. (IF wakeAt = Forever THEN Forever ELSE wakeAt - now) \in Nat \cup {Forever}
    BY <1>3 DEF DeadlineTypeOK, Interrupted
  <2> QED
    BY <1>3, <2>1, LimitedWithin DEF DeadlineTypeOK, SleepsWithinDeadline, Interrupted, Remaining, Larger, Forever
<1>4. CASE Tick
  BY <1>4 DEF DeadlineTypeOK, SleepsWithinDeadline, Tick, Forever
<1>5. CASE UNCHANGED deadlineVars
  BY <1>5 DEF SleepsWithinDeadline, deadlineVars
<1>6. CASE End \/ Pause \/ Resume \/ ScopeEnd \/ PollReturns \/ \E t \in Timeouts : Begin(t) \/ ScopeBegin(t)
  BY <1>1, <1>6 DEF End, Pause, Resume, ScopeEnd, PollReturns, Begin, ScopeBegin, BeginAt
<1> QED
  BY Zenon, <1>2, <1>3, <1>4, <1>5, <1>6 DEF DeadlineNext

(* Pausing, resuming and scopes conserve every deadline, and no thread sleeps *)
(* past its own (deadline.c, core_poll), for any timeouts and nesting.        *)
THEOREM DeadlineSafe == DeadlineSpec => []DeadlineInv
<1>1. DeadlineInit => DeadlineInv
  BY DepthAssumption DEF DeadlineInit, DeadlineInv, DeadlineTypeOK, Exclusive, BudgetConserved, SleepsWithinDeadline, Levels, Forever
<1>2. DeadlineInv /\ [DeadlineNext]_deadlineVars => DeadlineInv'
  BY TypeInductive, ExclusiveInductive, BudgetInductive, SleepInductive DEF DeadlineInv
<1> QED
  BY <1>1, <1>2, PTL DEF DeadlineSpec

(* Pausing and resuming (core_deadline_pause, core_deadline_resume) neither    *)
(* extends nor shortens a deadline, and core_poll returns by it.              *)
THEOREM DeadlinesKept == DeadlineSpec => []DeadlineKept
<1>1. DeadlineInv => DeadlineKept
  BY DEF DeadlineInv, DeadlineKept
<1> QED
  BY <1>1, DeadlineSafe, PTL
-----------------------------------------------------------------------------

(* The relay of a direct connection. *)

RelayTypeOK ==
  /\ sent \in [Sides -> Nat] /\ received \in [Sides -> Nat] /\ offsets \in [Sides -> Nat]
  /\ closed \in [Sides -> BOOLEAN] /\ reading \in [Sides -> BOOLEAN]
  /\ shutdown_sent \in [Sides -> BOOLEAN]
  /\ buffers \in [Sides -> Seq(Nat)] /\ delivered \in [Sides -> Seq(Nat)]
  /\ turn \in Sides

\* What has been received is what has been delivered and what is in the
\* buffer behind the offset; the buffer holds the last bytes received.
Stream(i) ==
  /\ offsets[i] <= Len(buffers[i]) /\ received[i] <= sent[i]
  /\ Len(delivered[i]) + Unsent(i) = received[i]
  /\ \A k \in 1..Len(buffers[i]) : buffers[i][k] = received[i] - Len(buffers[i]) + k
  /\ ~reading[i] => closed[i] /\ received[i] = sent[i]
  /\ shutdown_sent[i] => ~reading[i] /\ Unsent(i) = 0

RelayInv == RelayTypeOK /\ \A i \in Sides : Stream(i)

PipeStep == Pipe!Next \/ UNCHANGED Pipe!vars

-----------------------------------------------------------------------------
\* Bytes in order are a sequence.
LEMMA BytesInOrder ==
  ASSUME NEW n \in Nat, NEW r \in Nat
  PROVE  LET f == [k \in 1..n |-> r + k]
         IN  f \in Seq(Nat) /\ Len(f) = n /\ \A k \in 1..n : f[k] = r + k
<1> DEFINE f == [k \in 1..n |-> r + k]
<1>1. f \in [1..n -> Nat]
  OBVIOUS
<1>2. f \in Seq(Nat)
  BY <1>1, SequenceDefined
<1>3. Len(f) = n
  BY <1>1, <1>2
<1> QED
  BY <1>2, <1>3

\* The bookkeeping of a send of k bytes.
LEMMA Balance ==
  ASSUME NEW L \in Int, NEW B \in Int, NEW o \in Int, NEW r \in Int, NEW k \in Int, L + (B - o) = r
  PROVE  r - B + (o + k) = L + k /\ (o + k = B => L + k + 0 = r)
OBVIOUS

\* Each descriptor has the other one.
LEMMA SidesAre == \A i \in Sides : other(i) \in Sides
BY DEF Sides, other

\* Nothing has been sent or received.
LEMMA RelayInit == Init => RelayInv /\ Pipe!Init
<1> SUFFICES ASSUME Init PROVE RelayInv /\ Pipe!Init
  OBVIOUS
<1>1. <<>> \in Seq(Nat) /\ Len(<<>>) = 0 /\ 0 \in Sides
  BY DEF Sides
<1>2. RelayTypeOK
  BY <1>1 DEF Init, RelayTypeOK
<1>3. \A i \in Sides : Stream(i)
  BY <1>1 DEF Init, Stream, Unsent
<1>4. Pipe!Init
  BY DEF Init, Pipe!Init
<1> QED
  BY <1>2, <1>3, <1>4 DEF RelayInv

\* The types of the parts of a stream.
LEMMA TypeOf ==
  ASSUME RelayTypeOK, NEW i \in Sides
  PROVE  /\ received[i] \in Nat /\ sent[i] \in Nat /\ offsets[i] \in Nat
         /\ buffers[i] \in Seq(Nat) /\ delivered[i] \in Seq(Nat)
  BY Zenon DEF RelayTypeOK

\* A stream none of whose parts has changed.
LEMMA SameStream ==
  ASSUME NEW j \in Sides, Stream(j), buffers'[j] = buffers[j], offsets'[j] = offsets[j],
         received'[j] = received[j], delivered'[j] = delivered[j], reading'[j] = reading[j],
         shutdown_sent'[j] = shutdown_sent[j], sent'[j] = sent[j], closed'[j] = closed[j]
  PROVE  Stream(j)'
  BY Zenon DEF Stream, Unsent

\* A stream whose buffer has just been filled.
LEMMA JustFilled ==
  ASSUME NEW i \in Sides, NEW r \in Nat, NEW n \in Nat, NEW f \in Seq(Nat), Len(f) = n,
         \A k \in 1..n : f[k] = r + k, r + n <= sent[i], Len(delivered[i]) = r,
         reading[i], ~shutdown_sent[i],
         UNCHANGED <<delivered, reading, shutdown_sent, sent, closed>>,
         buffers'[i] = f, offsets'[i] = 0, received'[i] = r + n
  PROVE  Stream(i)'
<1>1. 0 <= n /\ n - 0 = n /\ \A k \in 1..n : (r + n) - n + k = r + k
  OBVIOUS
<1>2. Unsent(i)' = n
  BY Zenon, <1>1 DEF Unsent
<1>3. \A k \in 1..Len(buffers'[i]) : buffers'[i][k] = received'[i] - Len(buffers'[i]) + k
  BY Zenon, <1>1
<1> QED
  BY Zenon, <1>1, <1>2, <1>3 DEF Stream

\* recv: the buffer is empty, so all that was received has been delivered.
LEMMA TakenKeeps ==
  ASSUME RelayInv, NEW i \in Sides, NEW n \in Nat \ {0}, Taken(i, n), UNCHANGED peers,
         buffers[i] = <<>>, reading[i], received[i] + n <= sent[i], turn' \in Sides
  PROVE  RelayInv'
<1> DEFINE f == [k \in 1..n |-> received[i] + k]
<1>1. /\ RelayTypeOK /\ Stream(i) /\ received[i] \in Nat /\ n \in Nat
      /\ Len(buffers[i]) = 0 /\ offsets[i] = 0
  <2>1. RelayTypeOK /\ Stream(i) /\ received[i] \in Nat /\ n \in Nat /\ offsets[i] \in Nat
    <3>1. RelayTypeOK /\ Stream(i)
      BY Zenon DEF RelayInv
    <3>2. received[i] \in Nat /\ offsets[i] \in Nat
      BY Zenon, <3>1, TypeOf
    <3> QED
      BY Zenon, <3>1, <3>2
  <2>2. Len(buffers[i]) = 0 /\ offsets[i] <= Len(buffers[i])
    BY <2>1 DEF Stream
  <2> QED
    BY <2>1, <2>2
<1>2. f \in Seq(Nat) /\ Len(f) = n /\ \A k \in 1..n : f[k] = received[i] + k
  BY <1>1, BytesInOrder
<1> HIDE DEF f
<1>3. /\ buffers' = [buffers EXCEPT ![i] = f] /\ offsets' = [offsets EXCEPT ![i] = 0]
      /\ received' = [received EXCEPT ![i] = @ + n]
      /\ UNCHANGED <<delivered, reading, shutdown_sent, sent, closed>>
  BY DEF Taken, peers, f
<1>4. RelayTypeOK'
  <2>1. received[i] + n \in Nat /\ 0 \in Nat
    BY <1>1
  <2> QED
    BY Zenon, <1>1, <1>2, <1>3, <2>1 DEF RelayTypeOK
<1>5. ASSUME NEW j \in Sides PROVE Stream(j)'
  <2>1. CASE j # i
    <3>1. Stream(j)
      BY Zenon DEF RelayInv
    <3>2. buffers'[j] = buffers[j] /\ offsets'[j] = offsets[j] /\ received'[j] = received[j]
      BY Zenon, <1>1, <1>3, <2>1 DEF RelayTypeOK
    <3> QED
      BY Zenon, <1>3, <3>1, <3>2, SameStream
  <2>2. CASE j = i
    <3>1. /\ buffers'[i] = f /\ offsets'[i] = 0 /\ received'[i] = received[i] + n
          /\ Len(delivered[i]) \in Nat /\ Len(delivered[i]) = received[i] /\ ~shutdown_sent[i]
      BY <1>1, <1>3 DEF RelayTypeOK, Stream, Unsent
    <3> QED
      BY Zenon, <1>1, <1>2, <1>3, <2>2, <3>1, JustFilled
  <2> QED
    BY Zenon, <2>1, <2>2
<1> QED
  BY Zenon, <1>4, <1>5 DEF RelayInv

\* A stream whose buffer has been given to the last byte.
LEMMA AllGiven ==
  ASSUME NEW d \in Sides, Stream(d), received[d] \in Nat, ~shutdown_sent[d],
         UNCHANGED <<received, reading, shutdown_sent, sent, closed>>,
         buffers'[d] = <<>>, offsets'[d] = 0, Len(delivered'[d]) = received[d]
  PROVE  Stream(d)'
<1>1. Len(<<>>) = 0 /\ 0 - 0 = 0 /\ 0 <= 0 /\ received[d] + 0 = received[d] /\ \A k \in 1..0 : FALSE
  OBVIOUS
<1>2. Unsent(d)' = 0
  BY Zenon, <1>1 DEF Unsent
<1>3. \A k \in 1..Len(buffers'[d]) : buffers'[d][k] = received'[d] - Len(buffers'[d]) + k
  BY Zenon, <1>1
<1> QED
  BY Zenon, <1>1, <1>2, <1>3 DEF Stream

\* A stream whose buffer has been given in part.
LEMMA PartGiven ==
  ASSUME NEW d \in Sides, Stream(d), ~shutdown_sent[d],
         UNCHANGED <<received, reading, shutdown_sent, sent, closed>>,
         buffers'[d] = buffers[d], offsets'[d] <= Len(buffers[d]),
         Len(delivered'[d]) + (Len(buffers[d]) - offsets'[d]) = received[d]
  PROVE  Stream(d)'
  BY Zenon DEF Stream, Unsent

\* send: the next bytes of the buffer go behind those delivered.
LEMMA GivenKeeps ==
  ASSUME RelayInv, NEW d \in Sides, NEW n \in 1..Unsent(d), Given(d, n), UNCHANGED peers,
         turn' \in Sides, pc # "failed", pc' # "failed"
  PROVE  RelayInv' /\ Pipe!Deliver(d)
<1> DEFINE L == Len(delivered[d])
           o == offsets[d]
           b == buffers[d]
           B == Len(buffers[d])
           s == SubSeq(b, o + 1, o + n)
           f == [k \in 1..n |-> L + k]
           done == o + n = B
<1>1. /\ RelayTypeOK /\ Stream(d) /\ received[d] \in Nat /\ sent[d] \in Nat /\ o \in Nat
      /\ b \in Seq(Nat) /\ delivered[d] \in Seq(Nat)
  <2>1. RelayTypeOK /\ Stream(d)
    BY Zenon DEF RelayInv
  <2>2. /\ received[d] \in Nat /\ sent[d] \in Nat /\ offsets[d] \in Nat
        /\ buffers[d] \in Seq(Nat) /\ delivered[d] \in Seq(Nat)
    BY Zenon, <2>1, TypeOf
  <2> QED
    BY Zenon, <2>1, <2>2
<1>2. L \in Nat /\ B \in Nat /\ B = Len(b)
  BY <1>1
<1>3. /\ o <= B /\ L + (B - o) = received[d] /\ received[d] <= sent[d]
      /\ \A k \in 1..B : b[k] = received[d] - B + k
      /\ shutdown_sent[d] => B - o = 0
      /\ ~reading[d] => closed[d] /\ received[d] = sent[d]
  BY <1>1 DEF Stream, Unsent
<1>4. n \in 1..(B - o)
  BY DEF Unsent
<1>5. /\ delivered' = [delivered EXCEPT ![d] = @ \o s]
      /\ buffers' = [buffers EXCEPT ![d] = IF done THEN <<>> ELSE @]
      /\ offsets' = [offsets EXCEPT ![d] = IF done THEN 0 ELSE @ + n]
      /\ UNCHANGED <<received, reading, shutdown_sent, sent, closed>>
  BY DEF Given, peers
<1> HIDE DEF L, B, b, o
<1>6. n \in Nat /\ 1 <= n /\ o + n <= B /\ ~shutdown_sent[d]
  BY <1>1, <1>2, <1>3, <1>4
<1>6a. L + n + (B - (o + n)) = received[d] /\ (o + n = B => L + n = received[d])
  <2>1. received[d] \in Nat /\ o \in Nat /\ L + (B - o) = received[d]
    BY Zenon, <1>1, <1>3
  <2> QED
    BY <1>2, <1>6, <2>1
<1>7. f \in Seq(Nat) /\ Len(f) = n /\ \A k \in 1..n : f[k] = L + k
  BY <1>2, <1>6, BytesInOrder
<1>8. s \in Seq(Nat) /\ Len(s) = n /\ \A k \in 1..n : s[k] = b[o + k]
  <2>1. \A k \in (o + 1)..(o + n) : k \in 1..Len(b)
    BY <1>1, <1>2, <1>6
  <2>2. \A k \in (o + 1)..(o + n) : b[k] \in Nat
    BY <1>1, <2>1, ElementIn
  <2>3. o + 1 \in Int /\ o + n \in Int /\ o + 1 <= o + n /\ (o + n) - (o + 1) + 1 = n
    BY <1>1, <1>6
  <2>4. /\ s \in Seq(Nat) /\ Len(s) = (o + n) - (o + 1) + 1
        /\ \A k \in 1..(o + n) - (o + 1) + 1 : s[k] = b[(o + 1) + k - 1]
    BY <2>2, <2>3, PartOf
  <2>5. \A k \in 1..n : (o + 1) + k - 1 = o + k
    BY <1>1, <1>6
  <2> QED
    BY <2>3, <2>4, <2>5
<1>9. \A k \in 1..n : s[k] = L + k
  <2> SUFFICES ASSUME NEW k \in 1..n PROVE s[k] = L + k
    BY Zenon
  <2>1. o + k \in 1..B
    BY <1>1, <1>2, <1>6
  <2>2. b[o + k] = received[d] - B + (o + k)
    BY <1>3, <2>1
  <2>3. received[d] - B + (o + k) = L + k
    <3>1. k \in Int /\ L \in Int /\ B \in Int /\ o \in Int /\ received[d] \in Int
      BY <1>1, <1>2
    <3>2. L + (B - o) = received[d]
      BY Zenon, <1>3
    <3> QED
      BY <3>1, <3>2, Balance
  <2> QED
    BY <1>8, <2>2, <2>3
<1> HIDE DEF s, f
<1>10. s = f
  BY <1>7, <1>8, <1>9, SameElements
<1>11. delivered[d] \o s \in Seq(Nat) /\ Len(delivered[d] \o s) = L + n
  BY Zenon, <1>1, <1>8, Joined DEF L
<1>12. RelayTypeOK'
  <2>1. o + n \in Nat /\ 0 \in Nat /\ <<>> \in Seq(Nat)
    BY <1>1, <1>6
  <2>2. buffers' \in [Sides -> Seq(Nat)] /\ delivered' \in [Sides -> Seq(Nat)]
    BY Zenon, <1>1, <1>5, <1>11, <2>1 DEF RelayTypeOK
  <2>3. offsets' \in [Sides -> Nat]
    BY <1>1, <1>5, <2>1 DEF RelayTypeOK, o
  <2> QED
    BY Zenon, <1>1, <1>5, <2>2, <2>3 DEF RelayTypeOK
<1>13. ASSUME NEW j \in Sides PROVE Stream(j)'
  <2>1. CASE j # d
    <3>1. Stream(j)
      BY Zenon DEF RelayInv
    <3>2. buffers'[j] = buffers[j] /\ offsets'[j] = offsets[j] /\ delivered'[j] = delivered[j]
      BY Zenon, <1>1, <1>5, <2>1 DEF RelayTypeOK
    <3> QED
      BY Zenon, <1>5, <3>1, <3>2, SameStream
  <2>2. CASE j = d
    <3>1. Len(delivered'[d]) = L + n
      <4>1. delivered'[d] = delivered[d] \o s
        BY Zenon, <1>1, <1>5 DEF RelayTypeOK
      <4> QED
        BY Zenon, <1>11, <4>1
    <3>2. CASE done
      <4>1. buffers'[d] = <<>> /\ offsets'[d] = 0 /\ Len(<<>>) = 0
        <5>1. Len(<<>>) = 0
          OBVIOUS
        <5> QED
          BY Zenon, <1>1, <1>5, <3>2, <5>1 DEF RelayTypeOK
      <4>3. L + n = received[d]
        BY Zenon, <1>6a, <3>2
      <4> QED
        BY Zenon, <1>1, <1>5, <1>6, <2>2, <3>1, <4>1, <4>3, AllGiven
    <3>3. CASE ~done
      <4>1. buffers'[d] = b /\ offsets'[d] = o + n
        BY Zenon, <1>1, <1>5, <3>3 DEF RelayTypeOK, b, o
      <4>3. L + n + (B - (o + n)) = received[d] /\ o + n <= B
        BY Zenon, <1>6, <1>6a
      <4> QED
        BY Zenon, <1>1, <1>2, <1>5, <1>6, <2>2, <3>1, <4>1, <4>3, PartGiven DEF b, B
    <3> QED
      BY Zenon, <3>2, <3>3
  <2> QED
    BY Zenon, <2>1, <2>2
<1>14. Pipe!Deliver(d)
  <2>1. L + n \in L..sent[d]
    <3>1. n \in Nat /\ L \in Nat /\ B \in Nat /\ o \in Nat /\ received[d] \in Nat /\ sent[d] \in Nat
      BY Zenon, <1>1, <1>2, <1>6
    <3>2. L + (B - o) = received[d] /\ received[d] <= sent[d] /\ o + n <= B
      BY Zenon, <1>3, <1>6
    <3> QED
      BY <3>1, <3>2
  <2>2. Pipe!From(L, L + n) = f
    <3>1. (L + n) - L = n
      BY <1>2, <1>6
    <3> QED
      BY <3>1 DEF Pipe!From, f
  <2>3. delivered' = [delivered EXCEPT ![d] = @ \o Pipe!From(Len(@), L + n)]
    BY Zenon, <1>1, <1>5, <1>10, <2>2 DEF RelayTypeOK, L
  <2> QED
    BY Zenon, <1>5, <1>6, <2>1, <2>3 DEF Pipe!Deliver, L
<1> QED
  BY <1>12, <1>13, <1>14 DEF RelayInv

\* Steps that change neither a stream nor what the peers have sent and closed.
LEMMA StreamsKept ==
  ASSUME RelayInv, UNCHANGED <<sent, closed, streams>>, turn' \in Sides
  PROVE  RelayInv'
<1>1. RelayTypeOK'
  BY Zenon DEF RelayInv, RelayTypeOK, streams
<1>2. ASSUME NEW j \in Sides PROVE Stream(j)'
  <2>1. Stream(j)
    BY Zenon DEF RelayInv
  <2> QED
    BY Zenon, <2>1 DEF Stream, Unsent, streams
<1> QED
  BY Zenon, <1>1, <1>2 DEF RelayInv

\* The side whose turn it is, and the other.
LEMMA Turns ==
  ASSUME RelayInv
  PROVE  turn \in Sides /\ other(turn) \in Sides /\ 0 \in Sides /\ 1 \in Sides
<1>1. turn \in Sides
  BY Zenon DEF RelayInv, RelayTypeOK
<1> QED
  BY <1>1, SidesAre DEF Sides

\* A step of the loop that moves no byte, whether it goes on or fails.
LEMMA NothingMoves ==
  ASSUME RelayInv, UNCHANGED <<peers, streams>>, turn' \in Sides, pc # "failed"
  PROVE  RelayInv' /\ PipeStep
<1>1. RelayInv'
  BY Zenon, StreamsKept DEF peers
<1>2. CASE pc' = "failed"
  <2>1. Pipe!Break
    BY <1>2 DEF Pipe!Break, peers, streams
  <2> QED
    BY Zenon, <1>1, <2>1 DEF PipeStep, Pipe!Next
<1>3. CASE pc' # "failed"
  <2>1. UNCHANGED Pipe!vars
    BY <1>3 DEF Pipe!vars, peers, streams
  <2> QED
    BY Zenon, <1>1, <2>1 DEF PipeStep
<1> QED
  BY Zenon, <1>2, <1>3

\* The end of a direction is passed on behind its bytes.
LEMMA EndMoves ==
  ASSUME RelayInv, NEW i \in Sides, ~reading[i], Unsent(i) = 0,
         shutdown_sent' = [shutdown_sent EXCEPT ![i] = TRUE],
         UNCHANGED <<received, delivered, buffers, offsets, reading, sent, closed>>,
         turn' \in Sides, pc # "failed", pc' # "failed", ~shutdown_sent[i]
  PROVE  RelayInv' /\ Pipe!End(i)
<1>0. RelayTypeOK
  BY Zenon DEF RelayInv
<1>1. RelayTypeOK'
  <2>1. shutdown_sent' \in [Sides -> BOOLEAN]
    BY <1>0 DEF RelayTypeOK
  <2> QED
    BY Zenon, <1>0, <2>1 DEF RelayTypeOK
<1>2. ASSUME NEW j \in Sides PROVE Stream(j)'
  <2>1. Stream(j)
    BY Zenon DEF RelayInv
  <2>2. shutdown_sent'[j] = IF j = i THEN TRUE ELSE shutdown_sent[j]
    BY <1>0 DEF RelayTypeOK
  <2>3. Unsent(j)' = Unsent(j)
    BY Zenon DEF Unsent
  <2> QED
    BY Zenon, <2>1, <2>2, <2>3 DEF Stream
<1>3. closed[i] /\ Len(delivered[i]) = sent[i]
  <2>1. Stream(i) /\ Len(delivered[i]) \in Nat
    BY <1>0 DEF RelayInv, RelayTypeOK
  <2>2. closed[i] /\ received[i] = sent[i] /\ Len(delivered[i]) + 0 = received[i]
    BY Zenon, <2>1 DEF Stream
  <2> QED
    BY <2>1, <2>2
<1>4. Pipe!End(i)
  BY <1>3 DEF Pipe!End
<1> QED
  BY Zenon, <1>1, <1>2, <1>4 DEF RelayInv

\* The pass that prepares the poll.
LEMMA ShutdownKeeps ==
  ASSUME RelayInv, Shutdown
  PROVE  RelayInv' /\ PipeStep
<1>0. turn \in Sides /\ 0 \in Sides /\ 1 \in Sides
  BY Zenon, Turns
<1>1. pc = "shut" /\ UNCHANGED peers
  BY Zenon DEF Shutdown
<1>2. pc # "failed"
  BY <1>1
<1>3. CASE /\ ~reading[turn] /\ Unsent(turn) = 0 /\ ~shutdown_sent[turn]
           /\ shutdown_sent' = [shutdown_sent EXCEPT ![turn] = TRUE] /\ Prepared
           /\ UNCHANGED <<received, delivered, buffers, offsets, reading, received_reply>>
  <2>1. turn' \in Sides /\ pc' # "failed"
    BY <1>0, <1>3 DEF Prepared
  <2>2. UNCHANGED <<received, delivered, buffers, offsets, reading, sent, closed>>
    BY Zenon, <1>1, <1>3 DEF peers
  <2>3. RelayInv' /\ Pipe!End(turn)
    BY Zenon, <1>0, <1>2, <1>3, <2>1, <2>2, EndMoves
  <2> QED
    BY Zenon, <1>0, <2>3 DEF PipeStep, Pipe!Next
<1>4. CASE Fail \/ (Prepared /\ UNCHANGED streams)
  <2>1. UNCHANGED streams /\ turn' \in Sides
    BY Zenon, <1>0, <1>4 DEF Fail, Prepared
  <2> QED
    BY Zenon, <1>1, <1>2, <2>1, NothingMoves
<1> QED
  BY Zenon, <1>3, <1>4 DEF Shutdown

\* The test before the poll, the poll, and its failure.
LEMMA PollKeeps ==
  ASSUME RelayInv, Test \/ Poll \/ PollFails
  PROVE  RelayInv' /\ PipeStep
<1>1. UNCHANGED <<peers, streams>> /\ turn' \in Sides
  BY Zenon, Turns DEF Test, Poll, PollFails, Fail
<1>2. pc # "failed"
  BY DEF Test, Poll, PollFails
<1> QED
  BY Zenon, <1>1, <1>2, NothingMoves

\* recv finds the end of the stream.
LEMMA EndRead ==
  ASSUME RelayInv, NEW i \in Sides, received[i] = sent[i], closed[i],
         reading' = [reading EXCEPT ![i] = FALSE], turn' \in Sides,
         UNCHANGED <<received, delivered, buffers, offsets, shutdown_sent, sent, closed>>
  PROVE  RelayInv'
<1>0. RelayTypeOK
  BY Zenon DEF RelayInv
<1>1. RelayTypeOK'
  <2>1. reading' \in [Sides -> BOOLEAN]
    BY <1>0 DEF RelayTypeOK
  <2> QED
    BY Zenon, <1>0, <2>1 DEF RelayTypeOK
<1>2. ASSUME NEW j \in Sides PROVE Stream(j)'
  <2>1. Stream(j)
    BY Zenon DEF RelayInv
  <2>2. reading'[j] = IF j = i THEN FALSE ELSE reading[j]
    BY <1>0 DEF RelayTypeOK
  <2>3. Unsent(j)' = Unsent(j)
    BY Zenon DEF Unsent
  <2> QED
    BY Zenon, <2>1, <2>2, <2>3 DEF Stream
<1> QED
  BY Zenon, <1>1, <1>2 DEF RelayInv

\* recv: bytes, the end, nothing yet, or an error.
LEMMA RecvKeeps ==
  ASSUME RelayInv, Recv
  PROVE  RelayInv' /\ PipeStep
<1>0. turn \in Sides
  BY Zenon, Turns
<1>1. pc = "recv" /\ UNCHANGED peers /\ turn' = turn
  BY Zenon DEF Recv, Fail
<1>2. pc # "failed"
  BY <1>1
<1>3. CASE UNCHANGED streams
  BY Zenon, <1>0, <1>1, <1>2, <1>3, NothingMoves
<1>4. ASSUME NEW n \in 1..Chunk, received[turn] + n <= sent[turn], Taken(turn, n), MayRecv(turn), pc' = "send"
      PROVE  RelayInv' /\ PipeStep
  <2>1. n \in Nat \ {0} /\ pc' # "failed"
    BY <1>4, BoundsAssumption
  <2>2. RelayInv'
    BY Zenon, <1>0, <1>1, <1>4, <2>1, TakenKeeps DEF MayRecv
  <2>3. UNCHANGED Pipe!vars
    BY Zenon, <1>1, <1>2, <1>4, <2>1 DEF Taken, Pipe!vars, peers
  <2> QED
    BY Zenon, <2>2, <2>3 DEF PipeStep
<1>5. CASE /\ received[turn] = sent[turn] /\ closed[turn] /\ reading' = [reading EXCEPT ![turn] = FALSE]
           /\ UNCHANGED <<received, delivered, buffers, offsets, shutdown_sent, received_reply>> /\ pc' = "send"
  <2>1. pc' # "failed"
    BY <1>5
  <2>2. UNCHANGED <<received, delivered, buffers, offsets, shutdown_sent, sent, closed>>
    BY Zenon, <1>1, <1>5 DEF peers
  <2>3. RelayInv'
    BY Zenon, <1>0, <1>1, <1>5, <2>2, EndRead
  <2>4. UNCHANGED Pipe!vars
    BY Zenon, <1>2, <2>1, <2>2 DEF Pipe!vars
  <2> QED
    BY Zenon, <2>3, <2>4 DEF PipeStep
<1> QED
  BY Zenon, <1>3, <1>4, <1>5 DEF Recv, Fail

\* send: bytes, nothing yet, or an error.
LEMMA SendKeeps ==
  ASSUME RelayInv, Send
  PROVE  RelayInv' /\ PipeStep
<1>0. turn \in Sides /\ other(turn) \in Sides
  BY Zenon, Turns
<1>1. pc = "send" /\ UNCHANGED peers /\ turn' \in Sides
  BY Zenon, <1>0 DEF Send, Advance, Fail
<1>2. pc # "failed"
  BY <1>1
<1>3. CASE UNCHANGED streams
  BY Zenon, <1>0, <1>1, <1>2, <1>3, NothingMoves
<1>4. ASSUME NEW n \in 1..Unsent(other(turn)), Given(other(turn), n), Advance
      PROVE  RelayInv' /\ PipeStep
  <2>1. pc' # "failed"
    BY <1>4 DEF Advance
  <2>2. RelayInv' /\ Pipe!Deliver(other(turn))
    BY Zenon, <1>0, <1>1, <1>2, <1>4, <2>1, GivenKeeps
  <2> QED
    BY Zenon, <1>0, <2>2 DEF PipeStep, Pipe!Next
<1> QED
  BY Zenon, <1>3, <1>4 DEF Send, Fail

\* A peer sends a byte.
LEMMA PeerSendsKeeps ==
  ASSUME RelayInv, NEW i \in Sides, PeerSends(i)
  PROVE  RelayInv' /\ PipeStep
<1>0. RelayTypeOK
  BY Zenon DEF RelayInv
<1>1. ~closed[i] /\ sent' = [sent EXCEPT ![i] = @ + 1] /\ UNCHANGED <<closed, pc, turn>> /\ UNCHANGED streams
  BY Zenon DEF PeerSends
<1>2. UNCHANGED <<received, delivered, buffers, offsets, shutdown_sent, reading>>
  BY Zenon, <1>1 DEF streams
<1>3. RelayTypeOK'
  <2>1. sent' \in [Sides -> Nat]
    BY <1>0, <1>1 DEF RelayTypeOK
  <2> QED
    BY Zenon, <1>0, <1>1, <1>2, <2>1 DEF RelayTypeOK
<1>4. ASSUME NEW j \in Sides PROVE Stream(j)'
  <2>1. Stream(j) /\ sent[j] \in Nat /\ received[j] \in Nat
    BY Zenon, <1>0 DEF RelayInv, RelayTypeOK
  <2>2. sent'[j] = IF j = i THEN sent[j] + 1 ELSE sent[j]
    BY <1>0, <1>1 DEF RelayTypeOK
  <2>3. Unsent(j)' = Unsent(j)
    BY Zenon, <1>2 DEF Unsent
  <2>4. received[j] <= sent'[j]
    <3>1. received[j] <= sent[j]
      BY Zenon, <2>1 DEF Stream
    <3> QED
      BY <2>1, <2>2, <3>1
  <2> QED
    BY Zenon, <1>1, <1>2, <2>1, <2>2, <2>3, <2>4 DEF Stream
<1>5. Pipe!Write(i)
  BY <1>1, <1>2 DEF Pipe!Write
<1> QED
  BY Zenon, <1>3, <1>4, <1>5 DEF RelayInv, PipeStep, Pipe!Next

\* A peer ends its direction.
LEMMA PeerClosesKeeps ==
  ASSUME RelayInv, NEW i \in Sides, PeerCloses(i)
  PROVE  RelayInv' /\ PipeStep
<1>0. RelayTypeOK
  BY Zenon DEF RelayInv
<1>1. closed' = [closed EXCEPT ![i] = TRUE] /\ UNCHANGED <<sent, pc, turn>> /\ UNCHANGED streams
  BY Zenon DEF PeerCloses
<1>2. UNCHANGED <<received, delivered, buffers, offsets, shutdown_sent, reading>>
  BY Zenon, <1>1 DEF streams
<1>3. RelayTypeOK'
  <2>1. closed' \in [Sides -> BOOLEAN]
    BY <1>0, <1>1 DEF RelayTypeOK
  <2> QED
    BY Zenon, <1>0, <1>1, <1>2, <2>1 DEF RelayTypeOK
<1>4. ASSUME NEW j \in Sides PROVE Stream(j)'
  <2>1. Stream(j)
    BY Zenon DEF RelayInv
  <2>2. closed'[j] = IF j = i THEN TRUE ELSE closed[j]
    BY <1>0, <1>1 DEF RelayTypeOK
  <2>3. Unsent(j)' = Unsent(j)
    BY Zenon, <1>2 DEF Unsent
  <2> QED
    BY Zenon, <1>1, <1>2, <2>1, <2>2, <2>3 DEF Stream
<1>5. Pipe!Close(i)
  BY <1>1, <1>2 DEF Pipe!Close
<1> QED
  BY Zenon, <1>3, <1>4, <1>5 DEF RelayInv, PipeStep, Pipe!Next

\* Steps of the peers that the pipe does not know of, and no step.
LEMMA AsideKeeps ==
  ASSUME RelayInv, (\E i \in Sides : PeerReads(i) \/ PeerResets(i)) \/ UNCHANGED vars
  PROVE  RelayInv' /\ PipeStep
<1>1. UNCHANGED <<sent, closed, streams>> /\ UNCHANGED <<pc, turn>>
  BY Zenon DEF PeerReads, PeerResets, vars, peers
<1>2. RelayInv'
  BY Zenon, <1>1, Turns, StreamsKept
<1>3. UNCHANGED Pipe!vars
  BY Zenon, <1>1 DEF Pipe!vars, streams
<1> QED
  BY Zenon, <1>2, <1>3 DEF PipeStep

\* Every step of the loop and the peers keeps the invariant and is a step of
\* the pipe, or changes nothing the pipe knows of.
LEMMA RelayStep ==
  ASSUME RelayInv, [Next]_vars
  PROVE  RelayInv' /\ PipeStep
  BY Zenon, ShutdownKeeps, PollKeeps, RecvKeeps, SendKeeps, PeerSendsKeeps, PeerClosesKeeps, AsideKeeps
     DEF Next, Relay

\* relay_tcp_pair implements the pipe: whatever the sizes of its buffers and
\* of the peers' windows, each direction delivers the bytes of the other peer
\* in order and without a gap, and its end only behind the last of them.
THEOREM RelayImplementsPipe ==
  Spec => ImplementsPipe
<1>1. Init => RelayInv /\ Pipe!Init
  BY RelayInit
<1>2. RelayInv /\ [Next]_vars => RelayInv'
  BY RelayStep
<1>3. RelayInv /\ [Next]_vars => [Pipe!Next]_Pipe!vars
  BY RelayStep DEF PipeStep
<1> QED
  BY <1>1, <1>2, <1>3, PTL DEF Spec, ImplementsPipe, Pipe!Spec
=============================================================================
