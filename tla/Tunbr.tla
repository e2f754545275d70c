------------------------------- MODULE Tunbr -------------------------------
(***************************************************************************)
(* tunbr, the setuid wrapper that gives a test a tap device and a DHCP     *)
(* lease while one command runs (src/cbtb/tunbr/tunbr.c).  Every element   *)
(* of Procs is one invocation, run once.  Invocations share the lease file *)
(* (LEASES), which is changed by writing NEWLEASES, opened O_EXCL, and     *)
(* renaming it, and they share the dnsmasq server, stopped and started     *)
(* around each change.  A lease is a pair <<MAC, last byte of the IP>>.    *)
(***************************************************************************)
EXTENDS Naturals

CONSTANTS Procs,
          Macs, MacsOf,   \* MacsOf[p]: what /dev/urandom may give to p
          NoMac,
          Low, High,      \* IP3LOW and IP3HIGH
          Overlap,        \* FALSE: updates of the lease file never overlap
          Faults          \* subset of {"crash", "errors", "lossy", "signal"}

ASSUME TunbrAssumption ==
  /\ MacsOf \in [Procs -> SUBSET Macs]
  /\ NoMac \notin Macs
  /\ Low \in Nat \ {0}
  /\ High \in Nat
  /\ Low <= High
  /\ Overlap \in BOOLEAN
  /\ Faults \subseteq {"crash", "errors", "lossy", "signal"}

VARIABLES leases,      \* lines of LEASES
          pending,     \* whether NEWLEASES exists
          draft,       \* its lines
          dnsmasq,     \* whether the server runs
          served,      \* the leases it read when it was started
          pc, task,    \* where each invocation is; task: "add", "del" or "kept"
          mac, ip,     \* its arguments of add_to_leases and del_from_leases
          taps,        \* invocations whose tap device exists
          macfiles,    \* invocations whose PXE configuration file exists
          signalled    \* invocations whose process group got a signal

file == <<leases, pending, draft>>
server == <<dnsmasq, served>>
devices == <<taps, macfiles>>
vars == <<file, server, pc, task, mac, ip, devices, signalled>>

Line(p) == <<mac[p], ip[p]>>
Go(p, to) == pc' = [pc EXCEPT ![p] = to]
Release(p) == Go(p, "stop") /\ task' = [task EXCEPT ![p] = "del"]

\* p is between "dnsmasq stop" and the end of its update of the lease file.
Updating(p) == pc[p] \in {"create", "fill", "rename", "start"}
\* p opened NEWLEASES and has not renamed it.
Holding(p) == pc[p] \in {"fill", "rename"}

Init ==
  /\ leases = {} /\ pending = FALSE /\ draft = {}
  /\ dnsmasq = TRUE /\ served = {}
  /\ pc = [p \in Procs |-> "ready"]
  /\ task = [p \in Procs |-> "add"]
  /\ mac = [p \in Procs |-> NoMac]
  /\ ip = [p \in Procs |-> 0]
  /\ taps = {} /\ macfiles = {} /\ signalled = {}

\* main ignores its signals and add_to_leases draws a MAC address.
Begin(p) ==
  /\ pc[p] = "ready"
  /\ \E m \in MacsOf[p] : mac' = [mac EXCEPT ![p] = m]
  /\ Go(p, "stop")
  /\ UNCHANGED <<file, server, task, ip, devices, signalled>>

-----------------------------------------------------------------------------
(* add_to_leases and del_from_leases                                       *)

\* Mutant of StopDnsmasq: the server is not stopped.
StopDnsmasqNot(p) ==
  /\ pc[p] = "stop"
  /\ Overlap \/ \A q \in Procs : ~ Updating(q)
  /\ Go(p, "create")
  /\ UNCHANGED <<file, server, task, mac, ip, devices, signalled>>

StopDnsmasq(p) ==
  /\ pc[p] = "stop"
  /\ Overlap \/ \A q \in Procs : ~ Updating(q)
  /\ dnsmasq' = FALSE
  /\ Go(p, "create")
  /\ UNCHANGED <<file, served, task, mac, ip, devices, signalled>>

\* Mutant of CreateNew: NEWLEASES is opened without O_EXCL.
CreateNewShared(p) ==
  /\ pc[p] = "create"
  /\ pending' = TRUE /\ draft' = {}
  /\ Go(p, "fill")
  /\ UNCHANGED <<leases, server, task, mac, ip, devices, signalled>>

CreateNew(p) ==
  /\ pc[p] = "create"
  /\ ~ pending
  /\ pending' = TRUE /\ draft' = {}
  /\ Go(p, "fill")
  /\ UNCHANGED <<leases, server, task, mac, ip, devices, signalled>>

\* NEWLEASES exists: adding exits and can be rerun ("refused"), deleting returns
\* and leaves the lease.
NewExists(p) ==
  /\ pc[p] = "create"
  /\ pending
  /\ Go(p, IF task[p] = "add" THEN "refused" ELSE "unlink")
  /\ UNCHANGED <<file, server, task, mac, ip, devices, signalled>>

\* Mutant of Used: addresses are looked up in the file that is being written.
UsedInDraft(a) == \E l \in draft : l[2] = a

Used(a) == \E l \in leases : l[2] = a

\* The first free address, or the one after the last when none is free.
FreeAddress ==
  CHOOSE a \in Low .. High + 1 :
    /\ a <= High => ~ Used(a)
    /\ \A b \in Low .. High : b < a => Used(b)

\* Mutant of MacConflict: MAC addresses are not compared.
MacConflictNever(p) == FALSE

MacConflict(p) == \E l \in leases : l[1] = mac[p]

\* Mutant of AddLine: the lines of the others are read and not copied.
AddLineAlone(p) ==
  /\ pc[p] = "fill" /\ task[p] = "add"
  /\ ~ MacConflict(p)
  /\ ip' = [ip EXCEPT ![p] = FreeAddress]
  /\ draft' = {<<mac[p], FreeAddress>>}
  /\ Go(p, "rename")
  /\ UNCHANGED <<leases, pending, server, task, mac, devices, signalled>>

AddLine(p) ==
  /\ pc[p] = "fill" /\ task[p] = "add"
  /\ ~ MacConflict(p)
  /\ ip' = [ip EXCEPT ![p] = FreeAddress]
  /\ draft' = leases \cup {<<mac[p], FreeAddress>>}
  /\ Go(p, "rename")
  /\ UNCHANGED <<leases, pending, server, task, mac, devices, signalled>>

\* "Rerun prior command": the exit leaves NEWLEASES behind.
ExitOnConflict(p) ==
  /\ pc[p] = "fill" /\ task[p] = "add"
  /\ MacConflict(p)
  /\ Go(p, "exit")
  /\ UNCHANGED <<file, server, task, mac, ip, devices, signalled>>

DeleteLine(p) ==
  /\ pc[p] = "fill" /\ task[p] = "del"
  /\ draft' = leases \ {Line(p)}
  /\ Go(p, "rename")
  /\ UNCHANGED <<leases, pending, server, task, mac, ip, devices, signalled>>

\* del_from_leases reports a short write and goes on.
LoseLines(p) ==
  /\ "lossy" \in Faults
  /\ pc[p] = "fill" /\ task[p] = "del"
  /\ draft' \in SUBSET (leases \ {Line(p)})
  /\ Go(p, "rename")
  /\ UNCHANGED <<leases, pending, server, task, mac, ip, devices, signalled>>

\* LEASES cannot be opened: nothing is copied, nothing counts as used.
SkipLeases(p) ==
  /\ "lossy" \in Faults
  /\ pc[p] = "fill"
  /\ \/ task[p] = "del" /\ draft' = {} /\ UNCHANGED ip
     \/ /\ task[p] = "add"
        /\ draft' = {<<mac[p], Low>>}
        /\ ip' = [ip EXCEPT ![p] = Low]
  /\ Go(p, "rename")
  /\ UNCHANGED <<leases, pending, server, task, mac, devices, signalled>>

\* An I/O error in add_to_leases exits, also leaving NEWLEASES behind.
ExitOnError(p) ==
  /\ "errors" \in Faults
  /\ Holding(p) /\ task[p] = "add"
  /\ Go(p, "exit")
  /\ UNCHANGED <<file, server, task, mac, ip, devices, signalled>>

Rename(p) ==
  /\ pc[p] = "rename"
  /\ leases' = draft /\ pending' = FALSE
  /\ Go(p, "start")
  /\ UNCHANGED <<draft, server, task, mac, ip, devices, signalled>>

\* del_from_leases goes on after a rename that failed: the lease is "kept", and
\* NEWLEASES left behind.
RenameError(p) ==
  /\ "errors" \in Faults
  /\ pc[p] = "rename" /\ task[p] = "del"
  /\ Go(p, "start")
  /\ task' = [task EXCEPT ![p] = "kept"]
  /\ UNCHANGED <<file, server, mac, ip, devices, signalled>>

\* Mutant of StartDnsmasq: del_from_leases does not start the server.
StartDnsmasqAdding(p) ==
  /\ pc[p] = "start"
  /\ dnsmasq' = (dnsmasq \/ task[p] = "add")
  /\ served' = IF dnsmasq THEN served ELSE leases
  /\ Go(p, IF task[p] = "add" THEN "macfile" ELSE "unlink")
  /\ UNCHANGED <<file, task, mac, ip, devices, signalled>>

\* The init script leaves a server that runs alone.
StartDnsmasq(p) ==
  /\ pc[p] = "start"
  /\ dnsmasq' = TRUE
  /\ served' = IF dnsmasq THEN served ELSE leases
  /\ Go(p, IF task[p] = "add" THEN "macfile" ELSE "unlink")
  /\ UNCHANGED <<file, task, mac, ip, devices, signalled>>

-----------------------------------------------------------------------------
(* main                                                                    *)

CreateMacfile(p) ==
  /\ pc[p] = "macfile"
  /\ macfiles' = macfiles \cup {p}
  /\ Go(p, "tunctl")
  /\ UNCHANGED <<file, server, task, mac, ip, taps, signalled>>

\* creat, close, chown or setenv fails.
MacfileError(p) ==
  /\ pc[p] = "macfile"
  /\ macfiles' \in {macfiles, macfiles \cup {p}}
  /\ Release(p)
  /\ UNCHANGED <<file, server, mac, ip, taps, signalled>>

\* A chmod that fails returns from main with nothing released.
ChmodError(p) ==
  /\ "errors" \in Faults
  /\ pc[p] = "macfile"
  /\ macfiles' = macfiles \cup {p}
  /\ Go(p, "exit")
  /\ UNCHANGED <<file, server, task, mac, ip, taps, signalled>>

Tunctl(p) ==
  /\ pc[p] = "tunctl"
  /\ taps' = taps \cup {p}
  /\ Go(p, "bridge")
  /\ UNCHANGED <<file, server, task, mac, ip, macfiles, signalled>>

TunctlError(p) ==
  /\ pc[p] = "tunctl"
  /\ Release(p)
  /\ UNCHANGED <<file, server, mac, ip, devices, signalled>>

\* brctl, ifconfig and setenv succeed, and the command is started; or one of
\* them or fork fails.
Bridge(p) ==
  /\ pc[p] = "bridge"
  /\ \E to \in {"child", "untap"} : Go(p, to)
  /\ UNCHANGED <<file, server, task, mac, ip, devices, signalled>>

\* The command has inherited SIG_IGN: the signal changes neither process.
Signal(p) ==
  /\ "signal" \in Faults
  /\ pc[p] = "child"
  /\ p \notin signalled
  /\ signalled' = signalled \cup {p}
  /\ UNCHANGED <<file, server, pc, task, mac, ip, devices>>

ChildEnds(p) ==
  /\ pc[p] = "child"
  /\ Go(p, "untap")
  /\ UNCHANGED <<file, server, task, mac, ip, devices, signalled>>

\* Mutant of Untap: the lease is not released.
UntapOnly(p) ==
  /\ pc[p] = "untap"
  /\ taps' = taps \ {p}
  /\ Go(p, "unlink")
  /\ UNCHANGED <<file, server, task, mac, ip, macfiles, signalled>>

Untap(p) ==
  /\ pc[p] = "untap"
  /\ taps' = taps \ {p}
  /\ Release(p)
  /\ UNCHANGED <<file, server, mac, ip, macfiles, signalled>>

\* The "brctl delif" or the "tunctl -d" cannot be run.
UntapError(p) ==
  /\ "errors" \in Faults
  /\ pc[p] = "untap"
  /\ Release(p)
  /\ UNCHANGED <<file, server, mac, ip, devices, signalled>>

Unlink(p) ==
  /\ pc[p] = "unlink"
  /\ macfiles' = macfiles \ {p}
  /\ Go(p, "done")
  /\ UNCHANGED <<file, server, task, mac, ip, taps, signalled>>

Crash(p) ==
  /\ "crash" \in Faults
  /\ pc[p] \notin {"ready", "refused", "exit", "done"}
  /\ Go(p, "exit")
  /\ UNCHANGED <<file, server, task, mac, ip, devices, signalled>>

\* "the file was abandoned ... and should be deleted": the administrator.
Cleanup ==
  /\ pending
  /\ \A p \in Procs : ~ Holding(p)
  /\ pending' = FALSE
  /\ UNCHANGED <<leases, draft, server, pc, task, mac, ip, devices, signalled>>

-----------------------------------------------------------------------------
Step(p) ==
  \/ StopDnsmasq(p) \/ CreateNew(p) \/ NewExists(p) \/ AddLine(p)
  \/ ExitOnConflict(p) \/ DeleteLine(p) \/ LoseLines(p) \/ SkipLeases(p)
  \/ ExitOnError(p) \/ Rename(p) \/ RenameError(p) \/ StartDnsmasq(p)
  \/ CreateMacfile(p) \/ MacfileError(p) \/ ChmodError(p)
  \/ Tunctl(p) \/ TunctlError(p) \/ Bridge(p)
  \/ Untap(p) \/ UntapError(p) \/ Unlink(p)

\* What the environment does: start, signal, end, kill, clean up.
Environment ==
  \/ Cleanup
  \/ \E p \in Procs : Begin(p) \/ Signal(p) \/ ChildEnds(p) \/ Crash(p)

Next == Environment \/ \E p \in Procs : Step(p)

Spec == Init /\ [][Next]_vars
=============================================================================
