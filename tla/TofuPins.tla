------------------------------ MODULE TofuPins ------------------------------
(***************************************************************************)
(* The trust-on-first-use pin file of tls_certificate.c.  Every handshake  *)
(* under the "tofu" policy ends in secure_tofu_verify_or_store: it takes   *)
(* an exclusive flock on <path>.lock, looks its host up in the pin file    *)
(* and either compares the pin found there or writes a copy of the file    *)
(* with its own pin appended, which it then renames over the old one.      *)
(* Any number of threads and of processes run it at once on one file, any  *)
(* of them may be killed between two system calls, and the machine may     *)
(* lose power.                                                             *)
(*                                                                         *)
(* A file is a sequence of lines; a line is the entry of one host, or Junk *)
(* (a comment, or text sscanf does not take for an entry).  `end' says how *)
(* the last line ends, `at' whether the content is on disk or in memory.   *)
(* A descriptor is the content of the inode it was opened on: the code     *)
(* only ever writes to files that have no name but their temporary one, so *)
(* that content does not change.                                           *)
(***************************************************************************)
EXTENDS Integers, Sequences

CONSTANTS
  Proc,       \* the threads, of one process or of several, that verify a pin
  Host,       \* pin keys, host:port (xhttp_make_pin_key)
  Pin,        \* digests of leaf certificates
  MaxSize,    \* TLS_PIN_FILE_MAX_SIZE, in lines
  Left,       \* pin files an earlier session, or someone's editor, may leave
  None

VARIABLES
  lock,       \* the holder of the flock on the .lock file, or None
  pins,       \* the file behind the name of the pin file, as processes see it
  disk,       \* what that name shows after a loss of power
  proc        \* proc[p]: one call of secure_tofu_verify_or_store

tofuVars == <<lock, pins, disk, proc>>

Junk == [host |-> None, pin |-> None]
Entry == [host : Host, pin : Pin]
File == [lines : Seq(Entry \cup {Junk}), end : {"newline", "text"},
         at : {"disk", "memory"}]

Results == {"refused", "verified", "mismatch", "learned"}

ASSUME TofuAssumption ==
  /\ MaxSize \in Nat
  /\ Left \subseteq File
  /\ None \notin Proc \cup Host \cup Pin \cup Results

\* find_pin_in_fd: the first line of the host decides.
Finds(file, h, d) ==
  \E i \in DOMAIN file.lines :
    /\ file.lines[i] = [host |-> h, pin |-> d]
    /\ \A j \in 1..(i - 1) : file.lines[j].host # h

Lists(file, h) == \E i \in DOMAIN file.lines : file.lines[i].host = h

\* atomic_add_pin without its test for a last newline: the entry continues the
\* last line, which then is no entry of anyone.
Added_Joined(file, h, d) ==
  [lines |-> IF file.end = "text" /\ file.lines # <<>>
             THEN [file.lines EXCEPT ![Len(file.lines)] = Junk]
             ELSE Append(file.lines, [host |-> h, pin |-> d]),
   end |-> "newline", at |-> "memory"]

\* The copy atomic_add_pin makes: the lines of the source, a newline when the
\* last one has none, and the new entry.
Added(file, h, d) ==
  [lines |-> Append(file.lines, [host |-> h, pin |-> d]),
   end |-> "newline", at |-> "memory"]

Call(at, h, d, r) == [pc |-> at, host |-> h, pin |-> d, fd |-> None, temp |-> None, result |-> r]
Rest == Call("idle", None, None, None)

Done(p, r) == proc' = [proc EXCEPT ![p] = Call("idle", proc[p].host, proc[p].pin, r)]

-----------------------------------------------------------------------------
\* A handshake has the leaf certificate of its host and calls the function.
secure_tofu_verify_or_store(p) ==
  /\ proc[p].pc = "idle"
  /\ \E h \in Host, d \in Pin :
       proc' = [proc EXCEPT ![p] = Call("lock", h, d, None)]
  /\ UNCHANGED <<lock, pins, disk>>

\* The flock is taken whatever the state of the lock.
tofu_lock_Shared(p) ==
  /\ proc[p].pc = "lock"
  /\ lock' = p
  /\ proc' = [proc EXCEPT ![p].pc = "find"]
  /\ UNCHANGED <<pins, disk>>

\* tofu_lock polls the lock every 10 ms until it has it.
tofu_lock(p) ==
  /\ proc[p].pc = "lock"
  /\ lock = None
  /\ lock' = p
  /\ proc' = [proc EXCEPT ![p].pc = "find"]
  /\ UNCHANGED <<pins, disk>>

\* Giving up before the lock is held: the deadline, a path or a lock file that
\* is not private, flock failing.
Abandon(p) ==
  /\ proc[p].pc = "lock"
  /\ Done(p, "refused")
  /\ UNCHANGED <<lock, pins, disk>>

Unlocked(p) == lock' = IF lock = p THEN None ELSE lock

\* Under the lock: the pin file is opened, refused when it is too large, and
\* searched.  Every outcome but an unknown host releases the lock.
Compare(p) ==
  LET h == proc[p].host
  IN  /\ proc[p].pc = "find"
      /\ Len(pins.lines) <= MaxSize
      /\ \/ /\ Lists(pins, h)
            /\ Done(p, IF Finds(pins, h, proc[p].pin) THEN "verified" ELSE "mismatch")
            /\ Unlocked(p)
         \/ /\ ~ Lists(pins, h)
            /\ proc' = [proc EXCEPT ![p].pc = "copy", ![p].fd = pins]
            /\ UNCHANGED lock
      /\ UNCHANGED <<pins, disk>>

\* A file that is too large, cannot be opened or read, a deadline that expired
\* before the rename, a full disk: the temporary file is unlinked and the
\* lock is released.
TofuFails(p) ==
  /\ proc[p].pc \in {"find", "copy", "sync", "rename"}
  /\ Done(p, "refused")
  /\ Unlocked(p)
  /\ UNCHANGED <<pins, disk>>

\* atomic_add_pin: the copy is written to a temporary file ...
Copy(p) ==
  /\ proc[p].pc = "copy"
  /\ proc' = [proc EXCEPT ![p].pc = "sync",
              ![p].temp = Added(proc[p].fd, proc[p].host, proc[p].pin)]
  /\ UNCHANGED <<lock, pins, disk>>

Synced(file) == [lines |-> file.lines, end |-> file.end, at |-> "disk"]

\* ... reaches the disk (fsync) ...
Fsync(p) ==
  /\ proc[p].pc = "sync"
  /\ proc' = [proc EXCEPT ![p].pc = "rename", ![p].temp = Synced(proc[p].temp)]
  /\ UNCHANGED <<lock, pins, disk>>

\* ... and takes the name of the pin file.
Rename(p) ==
  /\ proc[p].pc = "rename"
  /\ pins' = proc[p].temp
  /\ proc' = [proc EXCEPT ![p].pc = "dir", ![p].temp = None]
  /\ UNCHANGED <<lock, disk>>

\* The directory is synchronised if it can be opened; the call succeeds either
\* way, and the lock is released last.
FsyncParent(p) ==
  /\ proc[p].pc = "dir"
  /\ disk' \in {disk, pins}
  /\ Done(p, "learned")
  /\ Unlocked(p)
  /\ UNCHANGED pins

\* A process is killed: the kernel drops its flock, its temporary file stays
\* under a name nobody opens.
Killed(p) ==
  /\ proc[p].pc # "idle"
  /\ proc' = [proc EXCEPT ![p] = Rest]
  /\ Unlocked(p)
  /\ UNCHANGED <<pins, disk>>

\* The file system writes the directory back when it likes.
WriteBack ==
  /\ disk' = pins
  /\ UNCHANGED <<lock, pins, proc>>

\* A file whose content never reached the disk may be empty after a crash.
Survives(file) == {file} \cup {[file EXCEPT !.lines = <<>>] : x \in {file.at} \ {"disk"}}

\* The machine stops.  What the name then shows is the file last written back,
\* and only the part of it that reached the disk.
PowerLoss ==
  /\ pins' \in Survives(disk)
  /\ disk' = pins'
  /\ lock' = None
  /\ proc' = [p \in Proc |-> Rest]

-----------------------------------------------------------------------------
TofuInit ==
  /\ lock = None
  /\ pins \in Left
  /\ pins.at = "disk"
  /\ disk = pins
  /\ proc = [p \in Proc |-> Rest]

TofuStep(p) ==
  \/ secure_tofu_verify_or_store(p) \/ tofu_lock(p) \/ Abandon(p) \/ Compare(p)
  \/ TofuFails(p) \/ Copy(p) \/ Fsync(p) \/ Rename(p) \/ FsyncParent(p) \/ Killed(p)

TofuNext == WriteBack \/ PowerLoss \/ \E p \in Proc : TofuStep(p)

TofuSpec == TofuInit /\ [][TofuNext]_tofuVars

-----------------------------------------------------------------------------
\* Whoever secure_tofu_verify_or_store accepted has its pin in the file: the
\* lookup and the append are one critical section, and no later append hides
\* or drops an entry.  So two sessions with one host that were both accepted
\* saw the same certificate, whatever their order.
AcceptedIsPinned ==
  \A p \in Proc : proc[p].result \in {"verified", "learned"} =>
                  Finds(pins, proc[p].host, proc[p].pin)

\* A pin is never replaced by another one, and no step of the code, nor its
\* death between two of them, removes one.  A loss of power may show the file
\* as it was last written back (the directory's fsync may fail), but a whole
\* file: it is synchronised before the rename.
PinsKept ==
  [][\A h \in Host, d \in Pin :
       Finds(pins, h, d) => Finds(pins', h, d) \/ pins' = disk]_tofuVars
=============================================================================
