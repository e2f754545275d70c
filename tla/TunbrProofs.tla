---------------------------- MODULE TunbrProofs ----------------------------
(***************************************************************************)
(* However many invocations of tunbr overlap, fail or are killed, each has *)
(* a lease of its own while it needs it, unless lines are lost in writing. *)
(***************************************************************************)
EXTENDS TunbrProps, NumberLemmas, TLAPS

(***************************************************************************)
(* The address add_to_leases chooses.                                      *)
(***************************************************************************)

\* It is one of the range or the one after it, and free if it is of the range.
LEMMA FreeAddressIsFree ==
  /\ FreeAddress \in Addresses
  /\ FreeAddress <= High => ~ Used(FreeAddress)
<1> DEFINE N == High + 1
           F == {a \in Low .. N : a <= High => ~ Used(a)}
<1>1. N \in Nat /\ F \in SUBSET (0 .. N) /\ N \in F
  BY TunbrAssumption
<1> HIDE DEF F
<1>2. PICK m \in F : \A a \in F : m <= a
  BY <1>1, BoundedSetHasMinimum
<1>3. /\ m \in Low .. High + 1
      /\ m <= High => ~ Used(m)
  BY DEF F
<1>4. \A b \in Low .. High : b < m => Used(b)
  <2>1. SUFFICES ASSUME NEW b \in Low .. High, b < m, ~ Used(b)
                 PROVE  FALSE
    OBVIOUS
  <2>2. b \in F
    BY <2>1, TunbrAssumption DEF F
  <2>3. QED BY <1>2, <1>3, <2>1, <2>2, TunbrAssumption
<1>5. QED BY <1>3, <1>4 DEF FreeAddress, Addresses

(***************************************************************************)
(* Types.                                                                  *)
(***************************************************************************)

\* An invocation that knows its MAC address has drawn it.
HasMac == \A p \in Procs : pc[p] # "ready" /\ pc[p] # "exit" => mac[p] \in Macs
\* An invocation that writes its line or deletes it knows its IP address.
TypeInv == TypeOK /\ HasMac

\* A step of an invocation keeps the types.
LEMMA StepKeepsTypes ==
  ASSUME TypeInv, NEW p \in Procs, Step(p)
  PROVE  TypeInv'
<1> USE DEF TypeInv, TypeOK, HasMac, States, Go, Release
<1>1. CASE StopDnsmasq(p) \/ CreateNew(p) \/ NewExists(p)
  BY <1>1 DEF StopDnsmasq, CreateNew, NewExists, file, server, devices
<1>2. CASE AddLine(p)
  <2>1. <<mac[p], FreeAddress>> \in Macs \X Addresses
    BY <1>2, FreeAddressIsFree DEF AddLine
  <2>2. draft' \in SUBSET (Macs \X Addresses)
    BY <1>2, <2>1 DEF AddLine
  <2>3. ip' \in [Procs -> Addresses \cup {0}]
    BY <1>2, FreeAddressIsFree DEF AddLine
  <2>4. QED BY <1>2, <2>2, <2>3 DEF AddLine, server, devices
<1>3. CASE ExitOnConflict(p) \/ ExitOnError(p) \/ DeleteLine(p) \/ LoseLines(p)
  BY <1>3 DEF ExitOnConflict, ExitOnError, DeleteLine, LoseLines, file, server, devices
<1>4. CASE SkipLeases(p)
  <2>1. Low \in Addresses
    BY TunbrAssumption DEF Addresses
  <2>2. draft' \in SUBSET (Macs \X Addresses)
    BY <1>4, <2>1 DEF SkipLeases
  <2>3. ip' \in [Procs -> Addresses \cup {0}]
    BY <1>4, <2>1 DEF SkipLeases
  <2>4. QED BY <1>4, <2>2, <2>3 DEF SkipLeases, server, devices
<1>5. CASE Rename(p) \/ RenameError(p) \/ StartDnsmasq(p)
  BY <1>5 DEF Rename, RenameError, StartDnsmasq, file, server, devices
<1>6. CASE CreateMacfile(p) \/ MacfileError(p) \/ ChmodError(p)
  BY <1>6 DEF CreateMacfile, MacfileError, ChmodError, file, server
<1>7. CASE Tunctl(p) \/ TunctlError(p) \/ Bridge(p)
  BY <1>7 DEF Tunctl, TunctlError, Bridge, file, server, devices
<1>8. CASE Untap(p) \/ UntapError(p) \/ Unlink(p)
  BY <1>8 DEF Untap, UntapError, Unlink, file, server, devices
<1>9. QED BY <1>1, <1>2, <1>3, <1>4, <1>5, <1>6, <1>7, <1>8 DEF Step

\* Every step keeps the types.
LEMMA NextKeepsTypes == TypeInv /\ [Next]_vars => TypeInv'
<1> SUFFICES ASSUME TypeInv, [Next]_vars PROVE TypeInv'
  OBVIOUS
<1> USE DEF TypeInv, TypeOK, HasMac
<1>1. CASE Cleanup
  BY <1>1 DEF Cleanup, server, devices
<1>2. ASSUME NEW p \in Procs, Begin(p)
      PROVE  TypeInv'
  <2>1. PICK m \in MacsOf[p] : mac' = [mac EXCEPT ![p] = m]
    BY <1>2 DEF Begin
  <2>2. m \in Macs
    BY TunbrAssumption
  <2>3. QED BY <1>2, <2>1, <2>2 DEF Begin, Go, States, file, server, devices
<1>3. ASSUME NEW p \in Procs, Signal(p) \/ ChildEnds(p) \/ Crash(p)
      PROVE  TypeInv'
  BY <1>3 DEF Signal, ChildEnds, Crash, Go, States, file, server, devices
<1>4. ASSUME NEW p \in Procs, Step(p)
      PROVE  TypeInv'
  BY <1>4, StepKeepsTypes
<1>5. CASE UNCHANGED vars
  BY <1>5 DEF vars, file, server, devices
<1>6. QED BY <1>1, <1>2, <1>3, <1>4, <1>5 DEF Next, Environment

\* Every variable of tunbr has its type (the invariant TypeOK).
THEOREM TypeCorrect == Spec => []TypeOK
<1>1. Init => TypeInv
  BY DEF Init, TypeInv, TypeOK, HasMac, States
<1>2. TypeInv => TypeOK
  BY DEF TypeInv
<1>3. QED BY <1>1, <1>2, NextKeepsTypes, PTL DEF Spec

(***************************************************************************)
(* Leases.  Only the one holder of NEWLEASES changes the lease file, so    *)
(* what it has written still agrees with the file when it is renamed.      *)
(***************************************************************************)

OneHolder == \A p, q \in Procs : Holding(p) /\ Holding(q) => p = q
HolderPending == \A p \in Procs : Holding(p) => pending
ReadyAdds == \A p \in Procs : pc[p] = "ready" => task[p] = "add"

\* Line l can be added to the lines.
Fits(l, lines) ==
  \A k \in lines : k[1] # l[1] /\ (k[2] = l[2] => l[2] > High)

DraftCurrent ==
  \A p \in Procs : pc[p] = "rename" =>
    \/ task[p] = "add" /\ draft = leases \cup {Line(p)} /\ Fits(Line(p), leases)
    \/ task[p] = "del" /\ draft = leases \ {Line(p)}

LeaseInv ==
  /\ TypeInv
  /\ OneHolder /\ HolderPending /\ ReadyAdds
  /\ DraftCurrent
  /\ LeaseHeld /\ ConflictFree /\ PrivateLeases

\* Steps that leave the lease file and the lines alone, and after which those
\* who hold NEWLEASES or are registered did so before.
LEMMA Undisturbed ==
  ASSUME LeaseInv, TypeInv', ReadyAdds', leases' = leases, ip' = ip,
         \A q \in Procs : pc[q] # "ready" => mac'[q] = mac[q],
         NEW p \in Procs, \A q \in Procs \ {p} : pc'[q] = pc[q] /\ task'[q] = task[q],
         Registered(p)' => Registered(p),
         Holding(p)' => Holding(p) /\ pc'[p] = pc[p] /\ task'[p] = task[p],
         \A q \in Procs : Holding(q)' => pending' = pending /\ draft' = draft
  PROVE  LeaseInv'
<1>1. \A q \in Procs :
        /\ Registered(q)' => Registered(q) /\ mac'[q] = mac[q] /\ Line(q)' = Line(q)
        /\ Holding(q)' => Holding(q)
        /\ pc'[q] = "rename" => /\ pc[q] = "rename" /\ task'[q] = task[q]
                               /\ draft' = draft /\ Line(q)' = Line(q)
  BY DEF Line, Registered, Holding
<1>2. OneHolder' /\ HolderPending'
  BY <1>1 DEF LeaseInv, OneHolder, HolderPending
<1>3. DraftCurrent'
  BY <1>1 DEF LeaseInv, DraftCurrent
<1>4. LeaseHeld' /\ ConflictFree' /\ PrivateLeases'
  BY <1>1 DEF LeaseInv, LeaseHeld, ConflictFree, PrivateLeases
<1>5. QED BY <1>2, <1>3, <1>4 DEF LeaseInv

\* Who creates the new lease file is its only holder and has all lines.
LEMMA CreateNewKeepsLeases ==
  ASSUME LeaseInv, TypeInv', NEW p \in Procs, CreateNew(p)
  PROVE  LeaseInv'
<1>1. \A q \in Procs : ~ Holding(q)
  BY DEF LeaseInv, HolderPending, CreateNew
<1>2. \A q \in Procs : /\ Holding(q)' <=> q = p
                       /\ pc'[q] # "rename"
                       /\ Registered(q)' => Registered(q)
                       /\ Line(q)' = Line(q)
                       /\ pc'[q] = "ready" => pc[q] = "ready"
  BY <1>1 DEF LeaseInv, TypeInv, TypeOK, CreateNew, Go, Holding, Registered, Line
<1>3. OneHolder' /\ HolderPending' /\ ReadyAdds' /\ DraftCurrent'
  BY <1>2 DEF LeaseInv, CreateNew, OneHolder, HolderPending, ReadyAdds, DraftCurrent
<1>4. LeaseHeld' /\ ConflictFree' /\ PrivateLeases'
  BY <1>2 DEF LeaseInv, LeaseHeld, ConflictFree, PrivateLeases, CreateNew
<1>5. QED BY <1>3, <1>4 DEF LeaseInv

\* The line that is added conflicts with no lease.
LEMMA AddLineKeepsLeases ==
  ASSUME LeaseInv, TypeInv', NEW p \in Procs, AddLine(p)
  PROVE  LeaseInv'
<1>1. Holding(p) /\ \A q \in Procs \ {p} : ~ Holding(q)
  BY DEF LeaseInv, OneHolder, AddLine, Holding
<1>2. ~ Registered(p) /\ ~ Registered(p)'
  BY DEF LeaseInv, TypeInv, TypeOK, AddLine, Go, Registered
<1>3. \A q \in Procs : /\ Holding(q)' => q = p
                       /\ pc'[q] = "rename" => q = p
                       /\ pc'[q] = "ready" => pc[q] = "ready"
                       /\ q # p => Line(q)' = Line(q) /\ ip'[q] = ip[q]
                                   /\ (Registered(q)' <=> Registered(q))
  BY <1>1 DEF LeaseInv, TypeInv, TypeOK, AddLine, Go, Holding, Registered, Line
<1>4. pending' /\ leases' = leases /\ mac' = mac /\ task' = task
  BY <1>1 DEF LeaseInv, HolderPending, AddLine
<1>5. Line(p)' = <<mac[p], FreeAddress>> /\ draft' = leases \cup {Line(p)'}
  BY DEF LeaseInv, TypeInv, TypeOK, AddLine, Line
<1>6. Fits(Line(p), leases)'
  <2>1. FreeAddress > High \/ ~ Used(FreeAddress)
    BY FreeAddressIsFree, TunbrAssumption DEF Addresses
  <2>2. ASSUME NEW k \in leases
        PROVE  k[1] # mac[p] /\ (k[2] = FreeAddress => FreeAddress > High)
    BY <2>1 DEF AddLine, MacConflict, Used
  <2>3. QED BY <1>4, <1>5, <2>2 DEF Fits
<1>7. OneHolder' /\ HolderPending' /\ ReadyAdds'
  BY <1>3, <1>4 DEF LeaseInv, OneHolder, HolderPending, ReadyAdds
<1>8. DraftCurrent'
  BY <1>3, <1>4, <1>5, <1>6 DEF DraftCurrent, AddLine
<1>9. LeaseHeld' /\ ConflictFree' /\ PrivateLeases'
  BY <1>2, <1>3, <1>4 DEF LeaseInv, LeaseHeld, ConflictFree, PrivateLeases
<1>10. QED BY <1>7, <1>8, <1>9 DEF LeaseInv

\* Only the holder's own line is left out.
LEMMA DeleteLineKeepsLeases ==
  ASSUME LeaseInv, TypeInv', NEW p \in Procs, DeleteLine(p)
  PROVE  LeaseInv'
<1>1. \A q \in Procs : q # p => ~ Holding(q)
  BY DEF LeaseInv, OneHolder, DeleteLine, Holding
<1>2. \A q \in Procs : /\ Holding(q)' <=> Holding(q)
                       /\ pc'[q] = "rename" => q = p
                       /\ pc'[q] = "ready" => pc[q] = "ready"
                       /\ Line(q)' = Line(q)
                       /\ Registered(q)' <=> Registered(q)
  BY <1>1 DEF LeaseInv, TypeInv, TypeOK, DeleteLine, Go, Holding, Registered, Line
<1>3. OneHolder' /\ HolderPending' /\ ReadyAdds' /\ DraftCurrent'
  BY <1>2 DEF LeaseInv, DeleteLine, OneHolder, HolderPending, ReadyAdds, DraftCurrent
<1>4. LeaseHeld' /\ ConflictFree' /\ PrivateLeases'
  BY <1>2 DEF LeaseInv, DeleteLine, LeaseHeld, ConflictFree, PrivateLeases
<1>5. QED BY <1>3, <1>4 DEF LeaseInv

\* The new lease file has all leases that are still held.
LEMMA RenameKeepsLeases ==
  ASSUME LeaseInv, TypeInv', NEW p \in Procs, Rename(p)
  PROVE  LeaseInv'
<1>1. \A q \in Procs : ~ Holding(q)'
  BY DEF LeaseInv, TypeInv, TypeOK, OneHolder, Rename, Go, Holding
<1>2. \A q \in Procs : /\ Line(q)' = Line(q)
                       /\ pc'[q] = "ready" => pc[q] = "ready"
                       /\ q # p => (Registered(q)' <=> Registered(q))
  BY DEF LeaseInv, TypeInv, TypeOK, Rename, Go, Registered, Line
<1>3. OneHolder' /\ HolderPending' /\ ReadyAdds' /\ DraftCurrent'
  BY <1>1, <1>2 DEF LeaseInv, Rename, OneHolder, HolderPending, ReadyAdds,
                    DraftCurrent, Holding
<1>4. CASE task[p] = "add"
  <2>1. leases' = leases \cup {Line(p)} /\ Fits(Line(p), leases)
    BY <1>4 DEF LeaseInv, DraftCurrent, Rename
  <2>2. ConflictFree'
    BY <2>1 DEF LeaseInv, ConflictFree, Distinct, Fits
  <2>3. LeaseHeld'
    BY <1>2, <2>1 DEF LeaseInv, LeaseHeld
  <2>4. ASSUME NEW q \in Procs, q # p, Registered(q)
        PROVE  mac[q] # mac[p] /\ (ip[q] = ip[p] => ip[p] > High)
    BY <2>1, <2>4 DEF LeaseInv, LeaseHeld, Fits, Line
  <2>5. PrivateLeases'
    BY <1>2, <2>4 DEF LeaseInv, PrivateLeases, Rename
  <2>6. QED BY <1>3, <2>2, <2>3, <2>5 DEF LeaseInv
<1>5. CASE task[p] = "del"
  <2>1. leases' = leases \ {Line(p)}
    BY <1>5 DEF LeaseInv, DraftCurrent, Rename
  <2>2. Registered(p) /\ ~ Registered(p)'
    BY <1>5 DEF LeaseInv, TypeInv, TypeOK, Rename, Go, Registered
  <2>3. ConflictFree'
    BY <2>1 DEF LeaseInv, ConflictFree, Distinct
  <2>4. ASSUME NEW q \in Procs, q # p, Registered(q)
        PROVE  Line(q) # Line(p)
    BY <2>2, <2>4 DEF LeaseInv, PrivateLeases, Line
  <2>5. LeaseHeld'
    BY <1>2, <2>1, <2>2, <2>4 DEF LeaseInv, LeaseHeld
  <2>6. PrivateLeases'
    BY <1>2, <2>2 DEF LeaseInv, PrivateLeases, Rename
  <2>7. QED BY <1>3, <2>3, <2>5, <2>6 DEF LeaseInv
<1>6. QED BY <1>4, <1>5 DEF LeaseInv, DraftCurrent, Rename

\* The administrator removes NEWLEASES only when nobody is writing it.
LEMMA CleanupKeepsLeases ==
  ASSUME LeaseInv, TypeInv', Cleanup
  PROVE  LeaseInv'
BY DEF LeaseInv, Cleanup, OneHolder, HolderPending, ReadyAdds, DraftCurrent, LeaseHeld,
       ConflictFree, PrivateLeases, Holding, Registered, Line

\* All other steps are of the kind of lemma Undisturbed.
LEMMA OtherStepsKeepLeases ==
  ASSUME LeaseInv, TypeInv', NEW p \in Procs,
         \/ Begin(p) \/ Signal(p) \/ ChildEnds(p) \/ Crash(p)
         \/ StopDnsmasq(p) \/ NewExists(p) \/ ExitOnConflict(p) \/ ExitOnError(p)
         \/ RenameError(p) \/ StartDnsmasq(p) \/ CreateMacfile(p) \/ MacfileError(p)
         \/ ChmodError(p) \/ Tunctl(p) \/ TunctlError(p) \/ Bridge(p)
         \/ Untap(p) \/ UntapError(p) \/ Unlink(p)
  PROVE  LeaseInv'
<1> DEFINE Quiet ==
      /\ ReadyAdds'
      /\ leases' = leases /\ pending' = pending /\ draft' = draft /\ ip' = ip
      /\ \A q \in Procs : pc[q] # "ready" => mac'[q] = mac[q]
      /\ \A q \in Procs \ {p} : pc'[q] = pc[q] /\ task'[q] = task[q]
      /\ Registered(p)' => Registered(p)
      /\ Holding(p)' => Holding(p) /\ pc'[p] = pc[p] /\ task'[p] = task[p]
<1> USE DEF LeaseInv, TypeInv, TypeOK, ReadyAdds, Registered, Holding, Go, Release, file
<1>1. CASE Begin(p) \/ Signal(p) \/ ChildEnds(p) \/ Crash(p)
  <2>1. Quiet
    BY <1>1 DEF Begin, Signal, ChildEnds, Crash
  <2>2. QED BY <2>1, Undisturbed
<1>2. CASE \/ StopDnsmasq(p) \/ NewExists(p) \/ ExitOnConflict(p) \/ ExitOnError(p)
           \/ RenameError(p) \/ StartDnsmasq(p)
  <2>1. Quiet
    BY <1>2 DEF StopDnsmasq, NewExists, ExitOnConflict, ExitOnError, RenameError,
                StartDnsmasq
  <2>2. QED BY <2>1, Undisturbed
<1>3. CASE \/ CreateMacfile(p) \/ MacfileError(p) \/ ChmodError(p) \/ Tunctl(p)
           \/ TunctlError(p) \/ Bridge(p) \/ Untap(p) \/ UntapError(p) \/ Unlink(p)
  <2>1. Quiet
    BY <1>3 DEF CreateMacfile, MacfileError, ChmodError, Tunctl, TunctlError, Bridge,
                Untap, UntapError, Unlink
  <2>2. QED BY <2>1, Undisturbed
<1>4. QED BY <1>1, <1>2, <1>3

\* Every step keeps the invariant of the leases.
LEMMA NextKeepsLeases ==
  ASSUME "lossy" \notin Faults, LeaseInv, [Next]_vars
  PROVE  LeaseInv'
<1>1. TypeInv'
  BY NextKeepsTypes DEF LeaseInv
<1>2. CASE Cleanup
  BY <1>1, <1>2, CleanupKeepsLeases
<1>3. ASSUME NEW p \in Procs, Begin(p) \/ Signal(p) \/ ChildEnds(p) \/ Crash(p)
      PROVE  LeaseInv'
  BY <1>1, <1>3, OtherStepsKeepLeases
<1>4. ASSUME NEW p \in Procs, Step(p)
      PROVE  LeaseInv'
  <2>1. ~ LoseLines(p) /\ ~ SkipLeases(p)
    BY DEF LoseLines, SkipLeases
  <2>2. QED
    BY <1>1, <1>4, <2>1, CreateNewKeepsLeases, AddLineKeepsLeases,
       DeleteLineKeepsLeases, RenameKeepsLeases, OtherStepsKeepLeases DEF Step
<1>5. CASE UNCHANGED vars
  BY <1>1, <1>5 DEF vars, file, server, devices, LeaseInv, OneHolder, HolderPending,
     ReadyAdds, DraftCurrent, LeaseHeld, ConflictFree, PrivateLeases, Holding,
     Registered, Line
<1>6. QED BY <1>2, <1>3, <1>4, <1>5 DEF Next, Environment

\* There are no leases at first.
LEMMA InitialLeases == Init => LeaseInv
BY DEF Init, LeaseInv, TypeInv, TypeOK, HasMac, States, OneHolder, HolderPending,
       ReadyAdds, DraftCurrent, LeaseHeld, ConflictFree, Distinct, PrivateLeases,
       Holding, Registered

\* If no line is lost in writing, the leases of registered invocations stay in
\* the file and are private to them, through overlaps, errors and crashes (the
\* invariants LeaseHeld, ConflictFree and PrivateLeases).
THEOREM LeasesCorrect ==
  ASSUME "lossy" \notin Faults
  PROVE  Spec => [](LeaseHeld /\ ConflictFree /\ PrivateLeases)
<1>1. LeaseInv /\ [Next]_vars => LeaseInv'
  BY NextKeepsLeases
<1>2. LeaseInv => LeaseHeld /\ ConflictFree /\ PrivateLeases
  BY DEF LeaseInv
<1>3. QED BY <1>1, <1>2, InitialLeases, PTL DEF Spec

\* Whatever others add, delete or die of, a lease stays in the file until its
\* invocation deletes it (the invariant LeaseHeld).
THEOREM LeasesStay ==
  ASSUME "lossy" \notin Faults
  PROVE  Spec => []LeaseHeld
BY LeasesCorrect, PTL

\* No MAC address is in the file twice, and no address of the range (the
\* invariant ConflictFree).
THEOREM NoConflicts ==
  ASSUME "lossy" \notin Faults
  PROVE  Spec => []ConflictFree
BY LeasesCorrect, PTL

\* A step that changes the lease file is the rename of one invocation.
LEMMA OnlyRenames ==
  ASSUME LeaseInv, [Next]_vars, leases' # leases
  PROVE  \E p \in Procs : Rename(p)
BY DEF Next, Environment, Step, vars, file, Cleanup, Begin, Signal, ChildEnds, Crash,
   StopDnsmasq, CreateNew, NewExists, AddLine, ExitOnConflict, DeleteLine, LoseLines,
   SkipLeases, ExitOnError, RenameError, StartDnsmasq, CreateMacfile, MacfileError,
   ChmodError, Tunctl, TunctlError, Bridge, Untap, UntapError, Unlink

\* And the one line it can remove is the line of that invocation, deleted
\* on purpose (the action property NothingLost).
THEOREM OnlyOwnLineLost ==
  ASSUME "lossy" \notin Faults
  PROVE  Spec => NothingLost
<1> DEFINE Kept == \A l \in leases \ leases' :
                     \E p \in Procs : l = Line(p) /\ task[p] = "del"
                                      /\ pc[p] = "rename" /\ pc'[p] = "start"
<1>1. LeaseInv /\ [Next]_vars => [Kept]_vars
  <2>1. SUFFICES ASSUME LeaseInv, [Next]_vars, NEW l \in leases \ leases'
                 PROVE  \E p \in Procs : l = Line(p) /\ task[p] = "del"
                                         /\ pc[p] = "rename" /\ pc'[p] = "start"
    OBVIOUS
  <2>2. PICK p \in Procs : Rename(p)
    BY <2>1, OnlyRenames
  <2>3. pc[p] = "rename" /\ pc'[p] = "start" /\ leases' = draft
    BY <2>1, <2>2 DEF Rename, Go, LeaseInv, TypeInv, TypeOK
  <2>4. task[p] = "del" /\ draft = leases \ {Line(p)}
    BY <2>1, <2>3 DEF LeaseInv, DraftCurrent
  <2>5. QED BY <2>1, <2>3, <2>4
<1>2. LeaseInv /\ [Next]_vars => LeaseInv'
  BY NextKeepsLeases
<1>3. QED BY <1>1, <1>2, InitialLeases, PTL DEF Spec, NothingLost

(***************************************************************************)
(* The server.  When updates do not overlap it is down during each.        *)
(***************************************************************************)

OneUpdating == \A p, q \in Procs : Updating(p) /\ Updating(q) => p = q
DownWhileUpdating == \A p \in Procs : Updating(p) => ~ dnsmasq
ServerInv == TypeInv /\ OneUpdating /\ DownWhileUpdating /\ ServedIsCurrent

\* A step of an invocation keeps what is known of dnsmasq.
LEMMA StepKeepsServer ==
  ASSUME Overlap = FALSE, ServerInv, TypeInv', NEW p \in Procs, Step(p)
  PROVE  ServerInv'
<1> USE DEF ServerInv, TypeInv, TypeOK, OneUpdating, DownWhileUpdating, ServedIsCurrent,
            Updating, Go, Release
<1>1. CASE StopDnsmasq(p)
  BY <1>1 DEF StopDnsmasq
<1>2. CASE \/ CreateNew(p) \/ NewExists(p) \/ AddLine(p) \/ ExitOnConflict(p)
           \/ DeleteLine(p) \/ LoseLines(p) \/ SkipLeases(p) \/ ExitOnError(p)
           \/ Rename(p) \/ RenameError(p)
  <2>1. /\ ~ dnsmasq /\ server' = server
        /\ Updating(p) /\ \A q \in Procs \ {p} : pc'[q] = pc[q]
    BY <1>2 DEF CreateNew, NewExists, AddLine, ExitOnConflict, DeleteLine, LoseLines,
                SkipLeases, ExitOnError, Holding, Rename, RenameError
  <2>2. QED BY <2>1 DEF server
<1>3. CASE StartDnsmasq(p)
  BY <1>3 DEF StartDnsmasq, file
<1>4. CASE \/ CreateMacfile(p) \/ MacfileError(p) \/ ChmodError(p) \/ Tunctl(p)
           \/ TunctlError(p) \/ Bridge(p) \/ Untap(p) \/ UntapError(p) \/ Unlink(p)
  <2>1. /\ leases' = leases /\ server' = server
        /\ \A q \in Procs : Updating(q)' => Updating(q)
    BY <1>4 DEF CreateMacfile, MacfileError, ChmodError, Tunctl, TunctlError, Bridge,
                Untap, UntapError, Unlink, file
  <2>2. QED BY <2>1 DEF server
<1>5. QED BY <1>1, <1>2, <1>3, <1>4 DEF Step

\* So does every step.
LEMMA NextKeepsServer ==
  ASSUME Overlap = FALSE
  PROVE  ServerInv /\ [Next]_vars => ServerInv'
<1> SUFFICES ASSUME ServerInv, [Next]_vars PROVE ServerInv'
  OBVIOUS
<1>1. TypeInv'
  BY NextKeepsTypes DEF ServerInv
<1>2. ASSUME NEW p \in Procs, Step(p)
      PROVE  ServerInv'
  BY <1>1, <1>2, StepKeepsServer
<1>3. CASE ~ \E p \in Procs : Step(p)
  <2>1. /\ leases' = leases /\ server' = server
        /\ \A q \in Procs : Updating(q)' => Updating(q)
    BY <1>3 DEF ServerInv, TypeInv, TypeOK, Next, Environment, Cleanup, Begin, Signal,
                ChildEnds, Crash, Go, vars, file, Updating
  <2>2. QED
    BY <1>1, <2>1 DEF server, ServerInv, OneUpdating, DownWhileUpdating, ServedIsCurrent
<1>4. QED BY <1>2, <1>3

\* Updates that do not overlap leave no running server with old leases (the
\* invariant ServedIsCurrent).
THEOREM ServerCorrect ==
  ASSUME Overlap = FALSE
  PROVE  Spec => []ServedIsCurrent
<1>1. Init => ServerInv
  BY DEF Init, ServerInv, TypeInv, TypeOK, HasMac, States, OneUpdating,
         DownWhileUpdating, ServedIsCurrent, Updating
<1>2. ServerInv /\ [Next]_vars => ServerInv'
  BY NextKeepsServer
<1>3. ServerInv => ServedIsCurrent
  BY DEF ServerInv
<1>4. QED BY <1>1, <1>2, <1>3, PTL DEF Spec

(***************************************************************************)
(* Overlapping updates.  A server that is down, and a new lease file that  *)
(* exists, have somebody in the middle of an update, or stopped there.     *)
(***************************************************************************)

Stopped(p) == pc[p] = "exit" \/ task[p] = "kept"
KeptIsLate == \A p \in Procs : task[p] = "kept" => pc[p] \in {"start", "unlink", "done", "exit"}
PendingHasReason == pending => \E p \in Procs : Holding(p) \/ Stopped(p)
DownHasReason == ~ dnsmasq => \E p \in Procs : Updating(p) \/ Stopped(p)
BackInv == TypeInv /\ KeptIsLate /\ PendingHasReason /\ DownHasReason

\* Nobody stops being stopped.
LEMMA StaysStopped ==
  ASSUME BackInv, [Next]_vars, NEW p \in Procs, Stopped(p)
  PROVE  Stopped(p)'
<1> USE DEF BackInv, TypeInv, TypeOK, KeptIsLate, Stopped, Go, Release
<1>1. ASSUME NEW q \in Procs, Begin(q) \/ Signal(q) \/ ChildEnds(q) \/ Crash(q)
      PROVE  Stopped(p)'
  BY <1>1 DEF Begin, Signal, ChildEnds, Crash
<1>2. ASSUME NEW q \in Procs, Step(q)
      PROVE  Stopped(p)'
  BY <1>2 DEF Step, StopDnsmasq, CreateNew, NewExists, AddLine, ExitOnConflict, DeleteLine,
     LoseLines, SkipLeases, ExitOnError, Rename, RenameError, StartDnsmasq, CreateMacfile,
     MacfileError, ChmodError, Tunctl, TunctlError, Bridge, Untap, UntapError, Unlink, Holding
<1>3. CASE Cleanup
  BY <1>3 DEF Cleanup
<1>4. CASE UNCHANGED vars
  BY <1>4 DEF vars
<1>5. QED BY <1>1, <1>2, <1>3, <1>4 DEF Next, Environment

\* Steps of p that leave the server and the new lease file alone and do not end
\* an update, unless it stops there.
LEMMA QuietStep ==
  ASSUME BackInv, TypeInv', KeptIsLate', [Next]_vars, NEW p \in Procs,
         dnsmasq' = dnsmasq, pending' = pending,
         \A q \in Procs \ {p} : pc'[q] = pc[q],
         Holding(p) => Holding(p)' \/ Stopped(p)',
         Updating(p) => Updating(p)' \/ Stopped(p)'
  PROVE  BackInv'
<1>1. \A q \in Procs : /\ Holding(q) => Holding(q)' \/ Stopped(q)'
                       /\ Updating(q) => Updating(q)' \/ Stopped(q)'
  BY DEF Holding, Updating
<1>2. \A q \in Procs : Stopped(q) => Stopped(q)'
  BY StaysStopped
<1>3. QED BY <1>1, <1>2 DEF BackInv, PendingHasReason, DownHasReason

\* A step of an invocation leaves a reason for whatever is down.
LEMMA StepKeepsBack ==
  ASSUME BackInv, TypeInv', KeptIsLate', [Next]_vars, NEW p \in Procs, Step(p)
  PROVE  BackInv'
<1>1. CASE StopDnsmasq(p)
  <2>1. /\ pending' = pending /\ Updating(p)' /\ ~ Holding(p)
        /\ \A q \in Procs \ {p} : pc'[q] = pc[q]
    BY <1>1 DEF BackInv, TypeInv, TypeOK, StopDnsmasq, Go, Updating, Holding, file
  <2>2. \A q \in Procs : Holding(q) \/ Stopped(q) => Holding(q)' \/ Stopped(q)'
    BY <2>1, StaysStopped DEF Holding
  <2>3. QED BY <2>1, <2>2 DEF BackInv, PendingHasReason, DownHasReason
<1>2. CASE CreateNew(p)
  <2>1. Holding(p)' /\ Updating(p)'
    BY <1>2 DEF BackInv, TypeInv, TypeOK, CreateNew, Go, Updating, Holding
  <2>2. QED BY <2>1 DEF BackInv, PendingHasReason, DownHasReason
<1>3. CASE NewExists(p)
  <2>1. /\ pending /\ pending' = pending /\ ~ Holding(p)
        /\ \A q \in Procs \ {p} : pc'[q] = pc[q]
    BY <1>3 DEF NewExists, Go, Holding, file, BackInv, TypeInv, TypeOK
  <2>2. PICK q \in Procs : Holding(q)' \/ Stopped(q)'
    BY <2>1, StaysStopped DEF BackInv, PendingHasReason, Holding
  <2>3. Updating(q)' \/ Stopped(q)'
    BY <2>2 DEF Holding, Updating
  <2>4. QED BY <2>2, <2>3 DEF BackInv, PendingHasReason, DownHasReason
<1>4. CASE Rename(p)
  <2>1. Updating(p)' /\ ~ pending'
    BY <1>4 DEF BackInv, TypeInv, TypeOK, Rename, Go, Updating
  <2>2. QED BY <2>1 DEF BackInv, PendingHasReason, DownHasReason
<1>5. CASE StartDnsmasq(p)
  <2>1. /\ dnsmasq' /\ pending' = pending /\ ~ Holding(p)
        /\ \A q \in Procs \ {p} : pc'[q] = pc[q]
    BY <1>5 DEF StartDnsmasq, Holding, file, Go, BackInv, TypeInv, TypeOK
  <2>2. \A q \in Procs : Holding(q) \/ Stopped(q) => Holding(q)' \/ Stopped(q)'
    BY <2>1, StaysStopped DEF Holding
  <2>3. QED BY <2>1, <2>2 DEF BackInv, PendingHasReason, DownHasReason
<1>6. CASE \/ AddLine(p) \/ ExitOnConflict(p) \/ DeleteLine(p) \/ LoseLines(p) \/ SkipLeases(p)
           \/ ExitOnError(p) \/ RenameError(p)
  <2>1. /\ dnsmasq' = dnsmasq /\ pending' = pending
        /\ \A q \in Procs \ {p} : pc'[q] = pc[q]
        /\ Holding(p)' \/ Stopped(p)'
    BY <1>6 DEF BackInv, TypeInv, TypeOK, AddLine, ExitOnConflict, DeleteLine, LoseLines, SkipLeases,
       ExitOnError, RenameError, Go, Holding, Stopped, server, file
  <2>2. QED BY <2>1, QuietStep DEF Holding, Updating
<1>7. CASE \/ CreateMacfile(p) \/ MacfileError(p) \/ ChmodError(p) \/ Tunctl(p)
           \/ TunctlError(p) \/ Bridge(p) \/ Untap(p) \/ UntapError(p) \/ Unlink(p)
  <2>1. /\ dnsmasq' = dnsmasq /\ pending' = pending
        /\ \A q \in Procs \ {p} : pc'[q] = pc[q]
        /\ ~ Holding(p) /\ ~ Updating(p)
    BY <1>7 DEF BackInv, TypeInv, TypeOK, CreateMacfile, MacfileError, ChmodError, Tunctl, TunctlError,
       Bridge, Untap, UntapError, Unlink, Go, Release, Holding, Updating, server, file
  <2>2. QED BY <2>1, QuietStep
<1>8. QED BY <1>1, <1>2, <1>3, <1>4, <1>5, <1>6, <1>7 DEF Step

\* A lease is kept only by an invocation that goes on behind the rename that failed.
LEMMA NextKeepsKept == BackInv /\ [Next]_vars => KeptIsLate'
<1> SUFFICES ASSUME BackInv, [Next]_vars, NEW p \in Procs, task'[p] = "kept"
             PROVE  pc'[p] \in {"start", "unlink", "done", "exit"}
  BY DEF KeptIsLate
<1> USE DEF BackInv, TypeInv, TypeOK, KeptIsLate, Go, Release
<1>1. ASSUME NEW q \in Procs, Begin(q) \/ Signal(q) \/ ChildEnds(q) \/ Crash(q)
      PROVE  pc'[p] \in {"start", "unlink", "done", "exit"}
  BY <1>1 DEF Begin, Signal, ChildEnds, Crash
<1>2. ASSUME NEW q \in Procs, Step(q)
      PROVE  pc'[p] \in {"start", "unlink", "done", "exit"}
  BY <1>2 DEF Step, StopDnsmasq, CreateNew, NewExists, AddLine, ExitOnConflict, DeleteLine,
     LoseLines, SkipLeases, ExitOnError, Rename, RenameError, StartDnsmasq, CreateMacfile,
     MacfileError, ChmodError, Tunctl, TunctlError, Bridge, Untap, UntapError, Unlink, Holding
<1>3. CASE Cleanup
  BY <1>3 DEF Cleanup
<1>4. CASE UNCHANGED vars
  BY <1>4 DEF vars
<1>5. QED BY <1>1, <1>2, <1>3, <1>4 DEF Next, Environment

\* Every step leaves a reason for whatever is down.
LEMMA NextKeepsBack == BackInv /\ [Next]_vars => BackInv'
<1> SUFFICES ASSUME BackInv, [Next]_vars PROVE BackInv'
  OBVIOUS
<1>1. TypeInv' /\ KeptIsLate'
  BY NextKeepsTypes, NextKeepsKept DEF BackInv
<1>2. ASSUME NEW p \in Procs, Step(p)
      PROVE  BackInv'
  BY <1>1, <1>2, StepKeepsBack
<1>3. ASSUME NEW p \in Procs, Begin(p) \/ Signal(p) \/ ChildEnds(p) \/ Crash(p)
      PROVE  BackInv'
  <2>1. /\ dnsmasq' = dnsmasq /\ pending' = pending
        /\ \A q \in Procs \ {p} : pc'[q] = pc[q]
        /\ Holding(p) \/ Updating(p) => Stopped(p)'
    BY <1>3 DEF BackInv, TypeInv, TypeOK, Begin, Signal, ChildEnds, Crash, Go, Holding, Updating,
       Stopped, server, file
  <2>2. QED BY <1>1, <2>1, QuietStep
<1>4. CASE Cleanup
  <2>1. \A q \in Procs : Updating(q) \/ Stopped(q) => Updating(q)' \/ Stopped(q)'
    BY <1>4 DEF Cleanup, Updating, Stopped
  <2>2. ~ pending' /\ dnsmasq' = dnsmasq
    BY <1>4 DEF Cleanup, server
  <2>3. QED BY <1>1, <2>1, <2>2 DEF BackInv, PendingHasReason, DownHasReason
<1>5. CASE UNCHANGED vars
  BY <1>5 DEF vars, file, server, devices, BackInv, TypeInv, TypeOK, HasMac, KeptIsLate,
     PendingHasReason, DownHasReason, Holding, Updating, Stopped
<1>6. QED BY <1>2, <1>3, <1>4, <1>5 DEF Next, Environment

\* However many updates overlap, fail and refuse each other, dnsmasq is down only
\* while one is under way or after one has been stopped (the invariant DnsmasqBack).
THEOREM ServerComesBack == Spec => []DnsmasqBack
<1>1. Init => BackInv
  BY DEF Init, BackInv, TypeInv, TypeOK, HasMac, States, KeptIsLate, PendingHasReason, DownHasReason
<1>2. BackInv /\ [Next]_vars => BackInv'
  BY NextKeepsBack
<1>3. BackInv => DnsmasqBack
  BY DEF BackInv, DownHasReason, DnsmasqBack, Stopped
<1>4. QED BY <1>1, <1>2, <1>3, PTL DEF Spec

(***************************************************************************)
(* What is left behind, when updates do not overlap and nothing fails that *)
(* tunbr gives up at.                                                      *)
(***************************************************************************)

NoneStopped == \A p \in Procs : ~ Stopped(p)

LeasesOwned == \A l \in leases : \E p \in Procs : Registered(p) /\ l = Line(p)
DraftOwned ==
  \A p \in Procs : pc[p] = "rename" =>
    draft \subseteq IF task[p] = "add" THEN leases \cup {Line(p)} ELSE leases \ {Line(p)}
TapsOwned == \A p \in taps : pc[p] \in {"bridge", "child", "untap"}
MacfilesOwned ==
  \A p \in macfiles :
    \/ pc[p] \in {"tunctl", "bridge", "child", "untap", "unlink"}
    \/ pc[p] \in {"stop", "create", "fill", "rename", "start"} /\ task[p] = "del"

Owned == LeasesOwned /\ DraftOwned /\ TapsOwned /\ MacfilesOwned
NotKept == \A p \in Procs : task[p] # "kept"

\* Without errors no rename fails and no lease is kept.
LEMMA NextKeepsNotKept ==
  ASSUME "errors" \notin Faults, TypeInv, NotKept, [Next]_vars
  PROVE  NotKept'
<1> USE DEF TypeInv, TypeOK, NotKept, Release
<1>1. ASSUME NEW q \in Procs, Begin(q) \/ Signal(q) \/ ChildEnds(q) \/ Crash(q)
      PROVE  NotKept'
  BY <1>1 DEF Begin, Signal, ChildEnds, Crash
<1>2. ASSUME NEW q \in Procs, Step(q)
      PROVE  NotKept'
  BY <1>2 DEF Step, StopDnsmasq, CreateNew, NewExists, AddLine, ExitOnConflict, DeleteLine,
     LoseLines, SkipLeases, ExitOnError, Rename, RenameError, StartDnsmasq, CreateMacfile,
     MacfileError, ChmodError, Tunctl, TunctlError, Bridge, Untap, UntapError, Unlink
<1>3. CASE Cleanup
  BY <1>3 DEF Cleanup
<1>4. CASE UNCHANGED vars
  BY <1>4 DEF vars
<1>5. QED BY <1>1, <1>2, <1>3, <1>4 DEF Next, Environment

\* A step of p that is no update of the lease file, and that changes of leases,
\* arguments and devices at most its own devices.
LEMMA DeviceStep ==
  ASSUME TypeInv, Owned, NEW p \in Procs, UNCHANGED <<leases, draft, mac, ip>>,
         \A q \in Procs \ {p} : pc'[q] = pc[q] /\ task'[q] = task[q],
         Registered(p) => Registered(p)', pc'[p] # "rename",
         taps' \in SUBSET Procs, macfiles' \in SUBSET Procs,
         \A q \in Procs \ {p} : /\ q \in taps' => q \in taps
                                /\ q \in macfiles' => q \in macfiles,
         p \in taps' => pc'[p] \in {"bridge", "child", "untap"},
         p \in macfiles' =>
           \/ pc'[p] \in {"tunctl", "bridge", "child", "untap", "unlink"}
           \/ pc'[p] \in {"stop", "create", "fill", "rename", "start"} /\ task'[p] = "del"
  PROVE  Owned'
<1>1. \A q \in Procs : /\ Registered(q) => Registered(q)'
                       /\ Line(q)' = Line(q)
  BY DEF Registered, Line
<1>2. LeasesOwned'
  BY <1>1 DEF Owned, LeasesOwned
<1>3. DraftOwned'
  BY <1>1 DEF Owned, DraftOwned
<1>4. TapsOwned' /\ MacfilesOwned'
  BY DEF Owned, TapsOwned, MacfilesOwned
<1>5. QED BY <1>2, <1>3, <1>4 DEF Owned

\* A step of an invocation keeps an owner for everything it leaves.
LEMMA StepKeepsOwned ==
  ASSUME {"crash", "errors"} \cap Faults = {}, BackInv, OneUpdating, NoneStopped, NoneStopped',
         Owned, NEW p \in Procs, Step(p)
  PROVE  Owned'
<1> USE DEF BackInv, TypeInv, TypeOK, Go
<1>1. /\ ~ ExitOnConflict(p) /\ ~ ExitOnError(p) /\ ~ RenameError(p) /\ ~ ChmodError(p)
      /\ ~ UntapError(p)
  BY DEF ExitOnConflict, ExitOnError, RenameError, ChmodError, UntapError, NoneStopped, Stopped
<1>2. ~ NewExists(p)
  <2>1. SUFFICES ASSUME NewExists(p) PROVE FALSE
    OBVIOUS
  <2>2. PICK q \in Procs : Holding(q)
    BY <2>1 DEF NewExists, PendingHasReason, NoneStopped
  <2>3. Updating(p) /\ Updating(q)
    BY <2>1, <2>2 DEF NewExists, Holding, Updating
  <2>4. QED BY <2>1, <2>2, <2>3 DEF OneUpdating, NewExists, Holding
<1>3. CASE StopDnsmasq(p) \/ StartDnsmasq(p)
  <2>1. /\ UNCHANGED <<leases, draft, mac, ip, task, taps, macfiles>>
        /\ pc[p] \in {"stop", "start"}
        /\ pc'[p] = IF pc[p] = "stop" THEN "create" ELSE IF task[p] = "add" THEN "macfile" ELSE "unlink"
        /\ \A q \in Procs \ {p} : pc'[q] = pc[q]
    BY <1>3 DEF StopDnsmasq, StartDnsmasq, file, devices
  <2>2. Registered(p) => Registered(p)'
    BY <2>1 DEF Registered
  <2>3. p \notin taps
    BY <2>1 DEF Owned, TapsOwned
  <2>4. p \in macfiles => task[p] = "del"
    BY <2>1 DEF Owned, MacfilesOwned
  <2>5. QED BY <2>1, <2>2, <2>3, <2>4, DeviceStep
<1>4. CASE \/ CreateMacfile(p) \/ MacfileError(p) \/ Tunctl(p) \/ TunctlError(p) \/ Bridge(p)
           \/ Untap(p) \/ Unlink(p)
  <2> USE DEF Release
  <2>1. /\ UNCHANGED <<leases, draft, mac, ip>>
        /\ \A q \in Procs \ {p} : pc'[q] = pc[q] /\ task'[q] = task[q]
        /\ taps' \in SUBSET Procs /\ macfiles' \in SUBSET Procs
        /\ \A q \in Procs \ {p} : /\ q \in taps' => q \in taps
                                  /\ q \in macfiles' => q \in macfiles
    BY <1>4 DEF CreateMacfile, MacfileError, Tunctl, TunctlError, Bridge, Untap, Unlink, file,
                devices
  <2>2. (Registered(p) => Registered(p)') /\ pc'[p] # "rename"
    BY <1>4 DEF CreateMacfile, MacfileError, Tunctl, TunctlError, Bridge, Untap, Unlink, Registered
  <2>3. p \in taps' => pc'[p] \in {"bridge", "child", "untap"}
    BY <1>4 DEF Owned, TapsOwned, CreateMacfile, MacfileError, Tunctl, TunctlError, Bridge, Untap,
                Unlink, devices
  <2>4. p \in macfiles' =>
          \/ pc'[p] \in {"tunctl", "bridge", "child", "untap", "unlink"}
          \/ pc'[p] \in {"stop", "create", "fill", "rename", "start"} /\ task'[p] = "del"
    BY <1>4 DEF Owned, MacfilesOwned, CreateMacfile, MacfileError, Tunctl, TunctlError, Bridge,
                Untap, Unlink, devices
  <2>5. QED BY <2>1, <2>2, <2>3, <2>4, DeviceStep
<1>5. CASE CreateNew(p) \/ AddLine(p) \/ DeleteLine(p) \/ LoseLines(p) \/ SkipLeases(p)
  <2>1. /\ UNCHANGED <<leases, mac, task, taps, macfiles>>
        /\ \A q \in Procs \ {p} : pc'[q] = pc[q] /\ ip'[q] = ip[q]
        /\ pc[p] \in {"create", "fill"} /\ pc'[p] = IF pc[p] = "create" THEN "fill" ELSE "rename"
        /\ task[p] = "del" => ip'[p] = ip[p]
        /\ task[p] \in {"add", "del"}
    BY <1>5 DEF NoneStopped, Stopped, CreateNew, AddLine, DeleteLine, LoseLines, SkipLeases, devices
  <2>2. \A q \in Procs : q # p => pc'[q] # "rename"
    BY <2>1 DEF OneUpdating, Updating
  <2>3. \A q \in Procs : Registered(q) => Registered(q)' /\ Line(q)' = Line(q)
    BY <2>1 DEF Registered, Line
  <2>4. pc[p] = "fill" => draft' \subseteq IF task[p] = "add" THEN leases \cup {Line(p)'} ELSE leases \ {Line(p)'}
    BY <1>5, <2>1 DEF CreateNew, AddLine, DeleteLine, LoseLines, SkipLeases, Line
  <2>5. LeasesOwned'
    BY <2>1, <2>3 DEF Owned, LeasesOwned
  <2>6. DraftOwned'
    BY <2>1, <2>2, <2>4 DEF DraftOwned
  <2>7. TapsOwned' /\ MacfilesOwned'
    BY <2>1 DEF Owned, TapsOwned, MacfilesOwned
  <2>8. QED BY <2>5, <2>6, <2>7 DEF Owned
<1>6. CASE Rename(p)
  <2>1. /\ UNCHANGED <<mac, ip, task, taps, macfiles>> /\ leases' = draft
        /\ \A q \in Procs \ {p} : pc'[q] = pc[q]
        /\ pc[p] = "rename" /\ pc'[p] = "start" /\ task[p] \in {"add", "del"}
    BY <1>6 DEF NoneStopped, Stopped, Rename, devices
  <2>2. \A q \in Procs : pc'[q] # "rename"
    BY <2>1 DEF OneUpdating, Updating
  <2>3. \A q \in Procs : /\ Line(q)' = Line(q)
                         /\ q # p /\ Registered(q) => Registered(q)'
    BY <2>1 DEF Registered, Line
  <2>4. ASSUME NEW l \in leases'
        PROVE  \E q \in Procs : Registered(q)' /\ l = Line(q)'
    <3>1. draft \subseteq IF task[p] = "add" THEN leases \cup {Line(p)} ELSE leases \ {Line(p)}
      BY <2>1 DEF Owned, DraftOwned
    <3>2. CASE task[p] = "add" /\ l = Line(p)
      BY <2>1, <2>3, <3>2 DEF Registered
    <3>3. CASE l # Line(p)
      <4>1. l \in leases
        BY <2>1, <2>4, <3>1, <3>3
      <4>2. PICK q \in Procs : Registered(q) /\ l = Line(q)
        BY <4>1 DEF Owned, LeasesOwned
      <4>3. QED BY <2>3, <3>3, <4>2
    <3>4. QED BY <2>1, <2>4, <3>1, <3>2, <3>3
  <2>5. LeasesOwned' /\ DraftOwned'
    BY <2>2, <2>4 DEF LeasesOwned, DraftOwned
  <2>6. TapsOwned' /\ MacfilesOwned'
    BY <2>1 DEF Owned, TapsOwned, MacfilesOwned
  <2>7. QED BY <2>5, <2>6 DEF Owned
<1>7. QED BY <1>1, <1>2, <1>3, <1>4, <1>5, <1>6 DEF Step

\* So does every step, as long as no invocation was stopped.
LEMMA NextKeepsOwned ==
  ASSUME {"crash", "errors"} \cap Faults = {}, BackInv, BackInv', OneUpdating, NoneStopped => Owned,
         [Next]_vars, NoneStopped'
  PROVE  Owned'
<1>1. NoneStopped /\ Owned
  BY StaysStopped DEF NoneStopped
<1> USE DEF BackInv, TypeInv, TypeOK, Go
<1>2. ASSUME NEW p \in Procs, Begin(p) \/ Signal(p) \/ ChildEnds(p) \/ Crash(p)
      PROVE  Owned'
  <2>1. ~ Crash(p)
    BY DEF Crash
  <2>2. /\ UNCHANGED <<leases, draft, ip, taps, macfiles, task>>
        /\ \A q \in Procs \ {p} : pc'[q] = pc[q] /\ mac'[q] = mac[q]
        /\ pc'[p] # "rename" /\ (Registered(p) => mac'[p] = mac[p] /\ Registered(p)')
        /\ pc'[p] = pc[p] \/ (pc[p] = "ready" /\ pc'[p] = "stop") \/ (pc[p] = "child" /\ pc'[p] = "untap")
    BY <1>2, <2>1 DEF Begin, Signal, ChildEnds, Registered, file, devices
  <2>3. LeasesOwned'
    BY <1>1, <2>2 DEF Owned, LeasesOwned, Registered, Line
  <2>4. DraftOwned' /\ TapsOwned' /\ MacfilesOwned'
    BY <1>1, <2>2 DEF Owned, DraftOwned, TapsOwned, MacfilesOwned, Line
  <2>5. QED BY <2>3, <2>4 DEF Owned
<1>3. CASE Cleanup
  BY <1>1, <1>3 DEF Cleanup, Owned, LeasesOwned, DraftOwned, TapsOwned, MacfilesOwned, Registered,
                    Line, devices
<1>4. ASSUME NEW p \in Procs, Step(p)
      PROVE  Owned'
  BY <1>1, <1>4, StepKeepsOwned
<1>5. CASE UNCHANGED vars
  BY <1>1, <1>5 DEF vars, file, devices, Owned, LeasesOwned, DraftOwned, TapsOwned, MacfilesOwned,
                    Registered, Line
<1>6. QED BY <1>2, <1>3, <1>4, <1>5 DEF Next, Environment

\* Updates that do not overlap, in a system in which none is stopped, leave
\* neither a lease nor a file nor a device when all invocations have ended, even
\* if lines of the lease file get lost (the invariant NothingLeft).
THEOREM NothingIsLeft ==
  ASSUME Overlap = FALSE, {"crash", "errors"} \cap Faults = {}
  PROVE  Spec => []NothingLeft
<1>1. Init => BackInv /\ ServerInv /\ NotKept /\ (NoneStopped => Owned)
  BY DEF Init, BackInv, TypeInv, TypeOK, HasMac, States, KeptIsLate, PendingHasReason, DownHasReason,
         ServerInv, OneUpdating, DownWhileUpdating, ServedIsCurrent, Updating, Owned, LeasesOwned,
         DraftOwned, TapsOwned, MacfilesOwned, NotKept
<1>2. BackInv /\ [Next]_vars => BackInv'
  BY NextKeepsBack
<1>3. ServerInv /\ [Next]_vars => ServerInv'
  BY NextKeepsServer
<1>4. BackInv /\ BackInv' /\ ServerInv /\ (NoneStopped => Owned) /\ [Next]_vars => (NoneStopped => Owned)'
  BY NextKeepsOwned DEF ServerInv
<1>5. BackInv /\ NotKept /\ [Next]_vars => NotKept'
  BY NextKeepsNotKept DEF BackInv
<1>6. BackInv /\ NotKept /\ (NoneStopped => Owned) => NothingLeft
  <2> SUFFICES ASSUME BackInv, NotKept, NoneStopped => Owned, \A p \in Procs : pc[p] = "done"
               PROVE  leases = {} /\ ~ pending /\ taps = {} /\ macfiles = {}
    BY DEF NothingLeft
  <2>1. NoneStopped
    BY DEF NoneStopped, Stopped, NotKept
  <2>2. ~ pending
    BY <2>1 DEF BackInv, PendingHasReason, Holding, NoneStopped
  <2>3. leases = {}
    BY <2>1 DEF Owned, LeasesOwned, Registered
  <2>4. taps = {} /\ macfiles = {}
    BY <2>1 DEF Owned, TapsOwned, MacfilesOwned, BackInv, TypeInv, TypeOK
  <2>5. QED BY <2>2, <2>3, <2>4
<1>7. QED BY <1>1, <1>2, <1>3, <1>4, <1>5, <1>6, PTL DEF Spec
=============================================================================
