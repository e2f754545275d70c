----------------------------- MODULE TunbrProps -----------------------------
(* Properties of tunbr's leases, and mutations of its operations.          *)
EXTENDS Tunbr

States == {"ready", "stop", "create", "fill", "rename", "start", "macfile",
           "tunctl", "bridge", "child", "untap", "unlink", "refused", "exit",
           "done"}
Addresses == Low .. High + 1

\* Every variable has its type.
TypeOK ==
  /\ leases \in SUBSET (Macs \X Addresses)
  /\ draft \in SUBSET (Macs \X Addresses)
  /\ served \in SUBSET (Macs \X Addresses)
  /\ pending \in BOOLEAN /\ dnsmasq \in BOOLEAN
  /\ pc \in [Procs -> States]
  /\ task \in [Procs -> {"add", "del", "kept"}]
  /\ mac \in [Procs -> Macs \cup {NoMac}]
  /\ ip \in [Procs -> Addresses \cup {0}]
  /\ taps \in SUBSET Procs
  /\ macfiles \in SUBSET Procs
  /\ signalled \in SUBSET Procs

\* p has renamed its line into place and has not renamed it away.
Registered(p) ==
  \/ pc[p] \in {"macfile", "tunctl", "bridge", "child", "untap"}
  \/ pc[p] = "start" /\ task[p] = "add"
  \/ pc[p] \in {"stop", "create", "fill", "rename"} /\ task[p] = "del"

\* From the rename of add_to_leases to that of del_from_leases the lease of an
\* invocation is in the file, whatever others add, delete, or die of.
LeaseHeld == \A p \in Procs : Registered(p) => Line(p) \in leases

\* No two lines of a lease file have the same MAC address, and two have the same
\* IP address only when it is the one handed out when the range is used up.
Distinct(lines) ==
  \A k, l \in lines :
    k # l => k[1] # l[1] /\ (k[2] = l[2] => k[2] > High)
ConflictFree == Distinct(leases)

\* Two registered invocations never share a MAC address, nor an IP address of
\* the range.
PrivateLeases ==
  \A p, q \in Procs :
    p # q /\ Registered(p) /\ Registered(q) =>
      mac[p] # mac[q] /\ (ip[p] = ip[q] => ip[p] > High)

\* The one line that can leave the lease file is that of the invocation that
\* renames it there to delete it ("all other lines are passed through").
NothingLost ==
  [][\A l \in leases \ leases' :
       \E p \in Procs : l = Line(p) /\ task[p] = "del"
                        /\ pc[p] = "rename" /\ pc'[p] = "start"]_vars

\* As long as no invocation has been stopped in the middle of an update, dnsmasq
\* runs whenever no update is under way, however they overlap and refuse each
\* other.
DnsmasqBack ==
  (\A p \in Procs : ~ Updating(p) /\ pc[p] # "exit" /\ task[p] # "kept") => dnsmasq

\* One update at a time: a server that runs has read the present lease file.
ServedIsCurrent == dnsmasq => served = leases

\* One update at a time: what ends leaves neither lease, file nor device.
NothingLeft ==
  (\A p \in Procs : pc[p] = "done") =>
    leases = {} /\ ~ pending /\ taps = {} /\ macfiles = {}

=============================================================================
