------------------------- MODULE SessionLeaseProofs -------------------------
(***************************************************************************)
(* Theorems about SessionLease, for any number of processes, transcripts   *)
(* and overlapping switches, and any bounds.  The argument: until a guard  *)
(* is broken one process at most is behind it (GuardInv), so what it read  *)
(* there stays true until it acts (SeenInv); hence only the directory of a *)
(* process that is gone is reclaimed and only that of a released lease is  *)
(* removed, and a lease in hand stays on disk (DiskInv).                   *)
(***************************************************************************)
EXTENDS SessionLease, TLAPS

(* Types, in four parts *)

FileTypes ==
    /\ alive \in [Processes -> BOOLEAN] /\ life \in [Processes -> Nat]
    /\ guard \in [Paths -> Processes \cup {Nobody}] /\ expired \in [Paths -> BOOLEAN]
    /\ made \in Seq(Paths) /\ released \subseteq Leased /\ gaveUp \subseteq released
    /\ owner \in [Paths -> Owners]
    /\ faults \in Nat /\ {overtaken, adopted} \subseteq BOOLEAN
CallTypes == call \in [Processes -> Calls \cup {NoCall}]
Runtimes == [state : {"none", "acquiring", "opening", "live", "disposing", "disposed"},
             path : Paths \cup {Nobody}, open : BOOLEAN, lease : {0} \cup Leased]
Switches == [step : {"none", "acquiring", "tearing", "building"}, path : Paths \cup {Nobody},
             lease : {0} \cup Leased]
HandTypes ==
    runtime \in [Processes -> Runtimes] /\ switches \in [Processes -> [Slots -> Switches]]
Types == FileTypes /\ CallTypes /\ HandTypes
PastTypes == begun \in Nat /\ orphans \in [Processes -> SUBSET Paths]

\* The lease a call is about to return, those the runtime and its switches have.
Coming(p) == IF call[p].kind = "acquire" THEN {call[p].token} \ {0} ELSE {}
Kept(p) == ({runtime[p].lease} \cup {switches[p][i].lease : i \in Slots}) \ {0}

\* Every call is at one of its places, and the lease it is about is a lease of its path.
AcquireOK(p) == call[p].kind = "acquire" =>
    /\ call[p].step \in {"guard", "try", "reclaim", "leave"}
    /\ call[p].step # "leave" => call[p].tries \in 0..2 /\ call[p].token = 0
    /\ call[p].token # 0 => /\ call[p].token \notin released
                            /\ made[call[p].token] = call[p].path
    /\ IF call[p].for = Nobody THEN runtime[p].state = "acquiring"
       ELSE switches[p][call[p].for].step = "acquiring"
ReleaseOK(p) == call[p].kind = "release" =>
    /\ call[p].step \in {"guard", "remove", "rmdir", "leave"}
    /\ call[p].token \in released /\ made[call[p].token] = call[p].path
AcquireInv == \A p \in Processes : AcquireOK(p)
ReleaseInv == \A p \in Processes : ReleaseOK(p)

\* A runtime and its switches have the leases of their paths.
HandOK(p) ==
    /\ runtime[p].lease # 0 => made[runtime[p].lease] = runtime[p].path
    /\ (runtime[p].open /\ runtime[p].state # "disposed") \/ runtime[p].state = "opening" =>
          runtime[p].lease # 0
    /\ runtime[p].state \in {"none", "acquiring"} =>
          runtime[p].lease = 0 /\ ~runtime[p].open /\ runtime[p].path = Nobody
    /\ runtime[p].state \in {"none", "acquiring", "opening"} =>
          \A i \in Slots : switches[p][i] = NoSwitch
    /\ \A i \in Slots :
          /\ switches[p][i].lease # 0 => made[switches[p][i].lease] = switches[p][i].path
          /\ switches[p][i].step \in {"tearing", "building"} <=> switches[p][i].lease # 0
HandInv == \A p \in Processes : HandOK(p)

\* A lease is in the hands of one process, and no call returns one that is in use.
ApartInv == \A p, q \in Processes :
    /\ Coming(p) \cap Kept(q) = {}
    /\ p # q => Coming(p) \cap Coming(q) = {} /\ Kept(p) \cap Kept(q) = {}

\* A process in a call is at one of its places, for one of its paths.
LEMMA InACall ==
    ASSUME CallTypes, NEW p \in Processes, call[p].kind # "none"
    PROVE  /\ call[p] \in Calls /\ call[p].path \in Paths
           /\ call[p].for \in Slots \cup {Nobody} /\ call[p].token \in {0} \cup Leased
BY DEF CallTypes, Calls, NoCall

\* What a release does to the objects.
LEMMA Releases ==
    ASSUME FileTypes, NEW p \in Processes, NEW t \in {0} \cup Leased, CallRelease(p, t)
    PROVE  released' \subseteq Leased /\ released \subseteq released' /\ UNCHANGED <<made, gaveUp>>
BY DEF CallRelease, FileTypes, Leased

\* Each part of the types is kept by every step.
LEMMA FileTypesStep == Types /\ ReleaseInv /\ AcquireInv /\ [Next]_vars => FileTypes'
<1> SUFFICES ASSUME Types, ReleaseInv, AcquireInv, [Next]_vars PROVE FileTypes'
  OBVIOUS
<1> USE DEF Types
<1>1. ASSUME NEW p \in Processes, Rename(p) PROVE FileTypes'
  <2> DEFINE f == call[p].path
             o == [token |-> Len(made) + 1, pid |-> p, life |-> life[p]]
  <2>1. f \in Paths
    BY <1>1, InACall DEF Rename, At
  <2>2. made' = Append(made, f) /\ made' \in Seq(Paths) /\ Len(made') = Len(made) + 1
    BY <1>1, <2>1 DEF Rename, FileTypes
  <2>3. o \in Owners' /\ Owners \subseteq Owners' /\ Leased \subseteq Leased'
    BY <2>2 DEF Owners, Leased, FileTypes
  <2>4. owner' = [owner EXCEPT ![f] = o]
    BY <1>1 DEF Rename
  <2>5. owner' \in [Paths -> Owners']
    BY <2>1, <2>3, <2>4 DEF FileTypes
  <2> QED
    BY <1>1, <2>2, <2>3, <2>5 DEF Rename, FileTypes, processVars, runtimeVars
<1>2. ASSUME NEW p \in Processes, AcquireEnters(p) \/ ReleaseEnters(p) PROVE FileTypes'
  BY <1>2, InACall DEF AcquireEnters, ReleaseEnters, EnterGuard, processVars, runtimeVars,
       leaseVars, At, FileTypes, Owners, Leased
<1>3. ASSUME NEW p \in Processes, AcquireGivesUp(p) \/ RenameFails(p) PROVE FileTypes'
  BY <1>3 DEF AcquireGivesUp, RenameFails, processVars, fileVars, leaseVars, runtimeVars,
       FileTypes, Owners, Leased
<1>4. ASSUME NEW p \in Processes, Reclaim(p) \/ RemoveOwner(p) \/ RemoveDirectory(p)
      PROVE  FileTypes'
  <2>1. Free \in Owners /\ Bare \in Owners /\ owner \in [Paths -> Owners]
    BY DEF FileTypes, Owners, Free, Bare
  <2>2. owner' \in [Paths -> Owners]
    BY <1>4, <2>1 DEF Reclaim, RemoveOwner, RemoveDirectory
  <2> QED
    BY <1>4, <2>2 DEF Reclaim, RemoveOwner, RemoveDirectory, processVars, leaseVars,
       runtimeVars, FileTypes, Owners, Leased
<1>5. ASSUME NEW p \in Processes, AcquireReturns(p) \/ ReleaseReturns(p) PROVE FileTypes'
  BY <1>5 DEF AcquireReturns, ReleaseReturns, LeaveGuard, processVars, leaseVars, runtimeVars,
       FileTypes, Owners, Leased
<1>6. ASSUME NEW p \in Processes, ReleaseGivesUp(p) PROVE FileTypes'
  BY <1>6 DEF ReleaseGivesUp, At, ReleaseInv, ReleaseOK, processVars, fileVars, runtimeVars, FileTypes,
       Owners, Leased
<1>7. ASSUME NEW p \in Processes, NEW t \in {0} \cup Leased, CallRelease(p, t),
             adopted' \in BOOLEAN, UNCHANGED <<processVars, fileVars>>
      PROVE  FileTypes'
  BY <1>7, Releases DEF processVars, fileVars, FileTypes, Owners, Leased
<1>8. ASSUME UNCHANGED <<processVars, fileVars, leaseVars>>, adopted' \in BOOLEAN
      PROVE  FileTypes'
  BY <1>8 DEF processVars, fileVars, leaseVars, FileTypes, Owners, Leased
<1>9. ASSUME NEW p \in Processes, Opened(p) \/ OpenFails(p) \/ Dispose(p) \/ Disposed(p)
      PROVE  FileTypes'
  <2>1. runtime[p].lease \in {0} \cup Leased /\ adopted \in BOOLEAN
    BY DEF HandTypes, FileTypes, Runtimes
  <2> QED
    BY <1>7, <1>8, <1>9, <2>1 DEF Opened, OpenFails, Dispose, Disposed
<1>10. ASSUME NEW p \in Processes, NEW f \in Paths, Open(p, f) PROVE FileTypes'
  BY <1>8, <1>10 DEF Open, FileTypes
<1>11. ASSUME NEW p \in Processes, NEW i \in Slots,
              \/ SwitchBack(p, i) \/ TearDown(p, i) \/ SwitchFails(p, i) \/ Build(p, i)
              \/ \E f \in Paths : Switch(p, i, f)
       PROVE  FileTypes'
  <2>1. runtime[p].lease \in {0} \cup Leased /\ switches[p][i].lease \in {0} \cup Leased
    BY DEF HandTypes, Runtimes, Switches
  <2>2. adopted \in BOOLEAN
    BY DEF FileTypes
  <2>3. CASE Build(p, i)
    <3>1. adopted' \in BOOLEAN
      BY <2>2, <2>3 DEF Build
    <3> QED
      BY <1>7, <1>8, <2>1, <2>3, <3>1 DEF Build
  <2>4. CASE SwitchFails(p, i)
    BY <1>7, <1>8, <2>1, <2>2, <2>4 DEF SwitchFails
  <2> QED
    BY <1>8, <1>11, <2>2, <2>3, <2>4 DEF SwitchBack, TearDown, Switch
<1>12. ASSUME NEW p \in Processes, End(p) \/ Start(p) PROVE FileTypes'
  <2>1. alive' \in [Processes -> BOOLEAN] /\ life' \in [Processes -> Nat] /\ faults' \in Nat
    <3>1. /\ alive \in [Processes -> BOOLEAN] /\ life \in [Processes -> Nat] /\ faults \in Nat
          /\ life[p] + 1 \in Nat
      BY DEF FileTypes
    <3>2. CASE End(p)
      BY <3>1, <3>2 DEF End
    <3>3. CASE Start(p)
      BY <3>1, <3>3 DEF Start, fileVars
    <3> QED
      BY <1>12, <3>2, <3>3
  <2> QED
    BY <1>12, <2>1 DEF End, Start, leaseVars, fileVars, runtimeVars, FileTypes, Owners, Leased
<1>13. ASSUME NEW f \in Paths, GuardExpires(f) PROVE FileTypes'
  BY <1>13 DEF GuardExpires, processVars, leaseVars, runtimeVars, FileTypes, Owners, Leased
<1>14. CASE UNCHANGED vars
  BY <1>8, <1>14 DEF vars, runtimeVars, FileTypes
<1>15. ASSUME NEW p \in Processes, Acquiring(p) \/ Releasing(p) PROVE FileTypes'
  BY <1>1, <1>2, <1>3, <1>4, <1>5, <1>6, <1>15 DEF Acquiring, Releasing
<1>16. ASSUME NEW p \in Processes, Runtime(p) \/ Process(p) PROVE FileTypes'
  BY <1>9, <1>10, <1>11, <1>12, <1>16 DEF Runtime, Process
<1> QED
  BY <1>13, <1>14, <1>15, <1>16 DEF Next

\* No object is forgotten: the objects are numbered in the order of their candidates.
LEMMA MadeGrows ==
    ASSUME Types, [Next]_vars
    PROVE  Leased \subseteq Leased' /\ \A t \in Leased : made'[t] = made[t]
<1> USE DEF Types, Leased
<1>1. ASSUME NEW p \in Processes, Rename(p)
      PROVE  Leased \subseteq Leased' /\ \A t \in Leased : made'[t] = made[t]
  <2>1. call[p].path \in Paths
    BY <1>1, InACall DEF Rename, At
  <2> QED
    BY <1>1, <2>1 DEF Rename, FileTypes
<1>2. ASSUME NEW p \in Processes, Acquiring(p) \/ Releasing(p), ~Rename(p) PROVE UNCHANGED made
  BY <1>2 DEF Acquiring, Releasing, AcquireEnters, AcquireGivesUp, RenameFails, Reclaim,
       AcquireReturns, ReleaseEnters, ReleaseGivesUp, RemoveOwner, RemoveDirectory,
       ReleaseReturns, EnterGuard, leaseVars
<1>3. ASSUME NEW p \in Processes, Runtime(p) \/ Process(p) PROVE UNCHANGED made
  BY <1>3 DEF Runtime, Process, Open, Opened, OpenFails, Dispose, Disposed, SwitchBack, TearDown,
       SwitchFails, Build, Switch, End, Start, CallRelease, leaseVars
<1>4. ASSUME NEW f \in Paths, GuardExpires(f) PROVE UNCHANGED made
  BY <1>4 DEF GuardExpires, leaseVars
<1>5. CASE UNCHANGED vars
  BY <1>5 DEF vars, leaseVars
<1> QED
  BY <1>1, <1>2, <1>3, <1>4, <1>5 DEF Next

\* The calls; three attempts at most (AcquireInv).
LEMMA CallTypesStep == Types /\ AcquireInv /\ [Next]_vars => CallTypes'
<1> SUFFICES ASSUME Types, AcquireInv, [Next]_vars PROVE CallTypes'
  OBVIOUS
<1>a. Calls \subseteq Calls'
  BY MadeGrows DEF Calls
<1>b. call \in [Processes -> Calls' \cup {NoCall}]
  BY <1>a DEF Types, CallTypes
<1>c. ASSUME NEW p \in Processes, call' = [call EXCEPT ![p] = NoCall] PROVE CallTypes'
  BY <1>b, <1>c DEF CallTypes
<1>d. ASSUME NEW p \in Processes, call[p].kind # "none",
             NEW step \in {"guard", "try", "reclaim", "remove", "rmdir", "leave"},
             GoTo(p, step)
      PROVE  CallTypes'
  <2>1. call[p] \in Calls
    BY <1>d, InACall DEF Types
  <2>2. [call[p] EXCEPT !.step = step] \in Calls
    BY <2>1 DEF Calls
  <2>3. call' = [call EXCEPT ![p] = [call[p] EXCEPT !.step = step]]
    BY <1>b, <1>d DEF GoTo
  <2> QED
    BY <1>a, <1>b, <2>2, <2>3 DEF CallTypes
<1>e. ASSUME NEW p \in Processes, NEW t \in {0} \cup Leased, CallRelease(p, t) PROVE CallTypes'
  <2>1. t # 0 => made[t] \in Paths
    BY DEF Types, FileTypes, Leased
  <2>2. t # 0 => [kind |-> "release", step |-> "guard", path |-> made[t],
                  for |-> Nobody, tries |-> 0, token |-> t] \in Calls
    BY <2>1 DEF Calls
  <2> QED
    BY <1>a, <1>b, <1>e, <2>2 DEF CallRelease, CallTypes
<1>f. ASSUME NEW p \in Processes, NEW f \in Paths, NEW i \in Slots \cup {Nobody},
             CallAcquire(p, f, i)
      PROVE  CallTypes'
  <2>1. [kind |-> "acquire", step |-> "guard", path |-> f, for |-> i, tries |-> 0,
         token |-> 0] \in Calls
    BY DEF Calls
  <2> QED
    BY <1>a, <1>b, <1>f, <2>1 DEF CallAcquire, CallTypes
<1>g. ASSUME UNCHANGED call PROVE CallTypes'
  BY <1>b, <1>g DEF CallTypes
<1>1. ASSUME NEW p \in Processes,
             \/ AcquireEnters(p) \/ ReleaseEnters(p) \/ RenameFails(p) \/ RemoveOwner(p)
             \/ RemoveDirectory(p)
      PROVE  CallTypes'
  BY <1>1, <1>d DEF AcquireEnters, ReleaseEnters, EnterGuard, RenameFails, RemoveOwner,
       RemoveDirectory, At
<1>2. ASSUME NEW p \in Processes,
             AcquireGivesUp(p) \/ AcquireReturns(p) \/ ReleaseGivesUp(p) \/ ReleaseReturns(p)
      PROVE  CallTypes'
  BY <1>2, <1>c DEF AcquireGivesUp, AcquireReturns, ReleaseGivesUp, ReleaseReturns
<1>3. ASSUME NEW p \in Processes, Rename(p) PROVE CallTypes'
  <2> DEFINE c == [call[p] EXCEPT !.step = "leave", !.token = Len(made) + 1]
  <2>1. call[p] \in Calls
    BY <1>3, InACall DEF Types, Rename, At
  <2>2. Len(made) + 1 \in Leased'
    BY <1>3, InACall DEF Types, FileTypes, Rename, At, Leased
  <2>3. c \in Calls'
    BY <2>1, <2>2 DEF Calls
  <2>4. call' = [call EXCEPT ![p] = c]
    BY <1>3, <1>b DEF Rename
  <2> QED
    BY <1>b, <2>3, <2>4 DEF CallTypes
<1>4. ASSUME NEW p \in Processes, Reclaim(p) PROVE CallTypes'
  <2> DEFINE c == [call[p] EXCEPT !.step = IF call[p].tries < 2 THEN "try" ELSE "leave",
                                  !.tries = call[p].tries + 1]
  <2>0. call[p].kind = "acquire" /\ call[p].step = "reclaim"
    BY <1>4 DEF Reclaim, At
  <2>1. call[p] \in Calls /\ call[p].tries \in 0..2
    BY <2>0, InACall DEF Types, AcquireInv, AcquireOK
  <2>2. c \in Calls
    <3>1. call[p].tries + 1 \in 0..3
      BY <2>1
    <3>2. [call[p] EXCEPT !.tries = call[p].tries + 1] \in Calls
      BY <2>1, <3>1 DEF Calls
    <3> QED
      BY <3>2 DEF Calls
  <2>3. call' = [call EXCEPT ![p] = c]
    BY <1>4, <1>b DEF Reclaim
  <2> QED
    BY <1>a, <1>b, <2>2, <2>3 DEF CallTypes
<1>5. ASSUME NEW p \in Processes, Runtime(p) PROVE CallTypes'
  <2>1. /\ runtime[p].lease \in {0} \cup Leased
        /\ \A i \in Slots : switches[p][i].lease \in {0} \cup Leased
    BY DEF Types, HandTypes, Runtimes, Switches
  <2>2. CASE OpenFails(p) \/ Disposed(p) \/ \E i \in Slots : SwitchFails(p, i) \/ Build(p, i)
    BY <1>e, <1>g, <2>1, <2>2 DEF OpenFails, Disposed, SwitchFails, Build
  <2>3. CASE \E f \in Paths : Open(p, f) \/ \E i \in Slots : Switch(p, i, f)
    BY <1>f, <2>3 DEF Open, Switch
  <2> QED
    BY <1>5, <1>g, <2>2, <2>3 DEF Runtime, Opened, Dispose, SwitchBack, TearDown
<1>6. ASSUME NEW p \in Processes, Process(p) PROVE CallTypes'
  BY <1>6, <1>c, <1>g DEF Process, End, Start
<1>7. ASSUME NEW p \in Processes, Acquiring(p) \/ Releasing(p) PROVE CallTypes'
  BY <1>1, <1>2, <1>3, <1>4, <1>7 DEF Acquiring, Releasing
<1>8. ASSUME NEW f \in Paths, GuardExpires(f) PROVE CallTypes'
  BY <1>8, <1>g DEF GuardExpires
<1> QED
  BY <1>5, <1>6, <1>7, <1>8, <1>g DEF Next, vars

\* The runtimes and their switches.
LEMMA HandTypesStep == Types /\ AcquireInv /\ [Next]_vars => HandTypes'
<1> SUFFICES ASSUME Types, AcquireInv, [Next]_vars PROVE HandTypes'
  OBVIOUS
<1>a. Runtimes \subseteq Runtimes' /\ Switches \subseteq Switches'
  BY MadeGrows DEF Runtimes, Switches
<1>b. runtime \in [Processes -> Runtimes'] /\ switches \in [Processes -> [Slots -> Switches']]
  BY <1>a DEF Types, HandTypes
<1>c. ASSUME NEW p \in Processes, NEW r \in Runtimes, runtime' = [runtime EXCEPT ![p] = r],
             UNCHANGED switches
      PROVE  HandTypes'
  BY <1>a, <1>b, <1>c DEF HandTypes
<1>d. ASSUME NEW p \in Processes, NEW i \in Slots, NEW s \in Switches,
             switches' = [switches EXCEPT ![p][i] = s], UNCHANGED runtime
      PROVE  HandTypes'
  BY <1>a, <1>b, <1>d DEF HandTypes
<1>e. ASSUME UNCHANGED <<runtime, switches>> PROVE HandTypes'
  BY <1>b, <1>e DEF HandTypes
<1>f. NoRuntime \in Runtimes /\ NoSwitch \in Switches
  BY DEF NoRuntime, NoSwitch, Runtimes, Switches
<1>g. ASSUME NEW p \in Processes
      PROVE  /\ runtime[p] \in Runtimes /\ runtime[p].lease \in {0} \cup Leased
             /\ \A i \in Slots : /\ switches[p][i] \in Switches
                                 /\ switches[p][i].lease \in {0} \cup Leased
                                 /\ switches[p][i].path \in Paths \cup {Nobody}
  BY DEF Types, HandTypes, Runtimes, Switches
<1>1. ASSUME NEW p \in Processes, NEW i \in Slots \cup {Nobody}, Refused(p, i) PROVE HandTypes'
  <2>1. CASE i = Nobody
    BY <1>1, <1>c, <1>f, <2>1 DEF Refused
  <2>2. CASE i # Nobody
    BY <1>1, <1>d, <1>f, <2>2 DEF Refused
  <2> QED
    BY <2>1, <2>2
<1>2. ASSUME NEW p \in Processes, NEW i \in Slots \cup {Nobody}, NEW f \in Paths,
             NEW t \in Leased, Granted(p, i, f, t)
      PROVE  HandTypes'
  <2>1. CASE i = Nobody
    <3>1. [state |-> "opening", path |-> f, open |-> FALSE, lease |-> t] \in Runtimes
      BY DEF Runtimes
    <3> QED
      BY <1>2, <1>c, <2>1, <3>1 DEF Granted
  <2>2. CASE i # Nobody
    <3>1. [step |-> "tearing", path |-> f, lease |-> t] \in Switches
      BY DEF Switches
    <3> QED
      BY <1>2, <1>d, <2>2, <3>1 DEF Granted
  <2> QED
    BY <2>1, <2>2
<1>3. ASSUME NEW p \in Processes, AcquireGivesUp(p) \/ AcquireReturns(p) PROVE HandTypes'
  <2>1. /\ call[p].path \in Paths /\ call[p].for \in Slots \cup {Nobody}
        /\ call[p].token \in {0} \cup Leased
    BY <1>3, InACall DEF Types, AcquireGivesUp, AcquireReturns, At
  <2> QED
    BY <1>1, <1>2, <1>3, <2>1 DEF AcquireGivesUp, AcquireReturns
<1>4. ASSUME NEW p \in Processes, Acquiring(p), ~AcquireGivesUp(p), ~AcquireReturns(p)
      PROVE  UNCHANGED <<runtime, switches>>
  BY <1>4 DEF Acquiring, AcquireEnters, EnterGuard, Rename, RenameFails, Reclaim, runtimeVars
<1>5. ASSUME NEW p \in Processes, Releasing(p) PROVE UNCHANGED <<runtime, switches>>
  BY <1>5 DEF Releasing, ReleaseEnters, EnterGuard, ReleaseGivesUp, RemoveOwner,
       RemoveDirectory, ReleaseReturns, runtimeVars
<1>6. ASSUME NEW p \in Processes, \/ Opened(p) \/ OpenFails(p) \/ Dispose(p) \/ Disposed(p)
                                  \/ \E f \in Paths : Open(p, f)
      PROVE  HandTypes'
  <2> DEFINE r == runtime[p]
  <2>1. /\ [r EXCEPT !.state = "acquiring"] \in Runtimes
        /\ [r EXCEPT !.state = "disposing", !.open = FALSE] \in Runtimes
    BY <1>g DEF Runtimes
  <2>2. [r EXCEPT !.state = "live", !.open = TRUE] \in Runtimes
    BY <1>g DEF Runtimes
  <2>3. [r EXCEPT !.state = "disposed", !.lease = 0] \in Runtimes
    BY <1>g DEF Runtimes
  <2>4. UNCHANGED switches
    BY <1>6 DEF Opened, OpenFails, Dispose, Disposed, Open
  <2>5. \E x \in Runtimes : runtime' = [runtime EXCEPT ![p] = x]
    BY <1>6, <1>b, <1>f, <2>1, <2>2, <2>3 DEF Opened, OpenFails, Dispose, Disposed, Open
  <2> QED
    BY <1>c, <2>4, <2>5
<1>7. ASSUME NEW p \in Processes, NEW i \in Slots, SwitchBack(p, i) \/ SwitchFails(p, i)
      PROVE  HandTypes'
  <2>1. runtime[p].lease # 0 => LeasePath(p) \in Paths
    BY <1>g DEF LeasePath, Types, FileTypes, Leased
  <2>2. runtime[p].lease # 0 => [step |-> "tearing", path |-> LeasePath(p),
                                 lease |-> runtime[p].lease] \in Switches
    BY <1>g, <2>1 DEF Switches
  <2> QED
    BY <1>7, <1>d, <1>f, <2>2 DEF SwitchBack, SwitchFails
<1>8. ASSUME NEW p \in Processes, NEW i \in Slots, \E f \in Paths : Switch(p, i, f)
      PROVE  HandTypes'
  <2>1. [switches[p][i] EXCEPT !.step = "acquiring"] \in Switches
    BY <1>g DEF Switches
  <2>2. switches' = [switches EXCEPT ![p][i] = [switches[p][i] EXCEPT !.step = "acquiring"]]
    BY <1>8, <1>b DEF Switch
  <2> QED
    BY <1>8, <1>d, <2>1, <2>2 DEF Switch
<1>9. ASSUME NEW p \in Processes, NEW i \in Slots, TearDown(p, i) \/ Build(p, i)
      PROVE  HandTypes'
  <2>1. [switches[p][i] EXCEPT !.step = "building"] \in Switches
    BY <1>g DEF Switches
  <2>2. \E s \in Switches : switches' = [switches EXCEPT ![p][i] = s]
    BY <1>9, <1>b, <1>f, <2>1 DEF TearDown, Build
  <2>3. [runtime[p] EXCEPT !.open = FALSE] \in Runtimes
    BY <1>g DEF Runtimes
  <2>4. [runtime[p] EXCEPT !.path = switches[p][i].path, !.open = TRUE,
                           !.lease = switches[p][i].lease] \in Runtimes
    BY <1>g DEF Runtimes
  <2>5. \E r \in Runtimes : runtime' = [runtime EXCEPT ![p] = r]
    BY <1>9, <1>b, <2>3, <2>4 DEF TearDown, Build
  <2> QED
    BY <1>a, <1>b, <2>2, <2>5 DEF HandTypes
<1>10. ASSUME NEW p \in Processes, End(p) PROVE HandTypes'
  BY <1>10, <1>a, <1>b, <1>f DEF End, HandTypes
<1>11. ASSUME NEW p \in Processes, Acquiring(p) \/ Releasing(p) PROVE HandTypes'
  BY <1>3, <1>4, <1>5, <1>11, <1>e
<1>12. ASSUME NEW p \in Processes, Runtime(p) \/ Process(p) PROVE HandTypes'
  <2>1. CASE Process(p)
    BY <1>10, <1>e, <2>1 DEF Process, Start, runtimeVars
  <2> QED
    BY <1>6, <1>7, <1>8, <1>9, <1>12, <2>1 DEF Runtime
<1> QED
  BY <1>11, <1>12, <1>e DEF Next, GuardExpires, vars, runtimeVars

\* The switches that began, and the sessions that were replaced while they were open.
LEMMA PastTypesStep == PastTypes /\ [Next]_vars => PastTypes'
<1> SUFFICES ASSUME PastTypes, [Next]_vars PROVE PastTypes'
  OBVIOUS
<1> USE DEF PastTypes
<1>1. ASSUME NEW p \in Processes, Acquiring(p) \/ Releasing(p) PROVE PastTypes'
  BY <1>1 DEF Acquiring, Releasing, AcquireEnters, AcquireGivesUp, Rename, RenameFails, Reclaim,
       AcquireReturns, ReleaseEnters, ReleaseGivesUp, RemoveOwner, RemoveDirectory,
       ReleaseReturns, EnterGuard, runtimeVars
<1>2. ASSUME NEW p \in Processes, NEW i \in Slots, Build(p, i) PROVE PastTypes'
  <2>1. orphans[p] \cup Current(p) \in SUBSET Paths
    BY DEF Current
  <2> QED
    BY <1>2, <2>1 DEF Build
<1>3. ASSUME NEW p \in Processes, Runtime(p), \A i \in Slots : ~Build(p, i) PROVE PastTypes'
  BY <1>3 DEF Runtime, Open, Opened, OpenFails, Dispose, Disposed, SwitchBack, TearDown,
       SwitchFails, Switch
<1>4. ASSUME NEW p \in Processes, Process(p) PROVE PastTypes'
  BY <1>4 DEF Process, End, Start, runtimeVars
<1>5. CASE (\E f \in Paths : GuardExpires(f)) \/ UNCHANGED vars
  BY <1>5 DEF GuardExpires, vars, runtimeVars
<1> QED
  BY <1>1, <1>2, <1>3, <1>4, <1>5 DEF Next

-----------------------------------------------------------------------------
(* Who changes what *)

Acts(p) == Acquiring(p) \/ Releasing(p) \/ Runtime(p) \/ Process(p)

\* A process changes its own calls, runtime and switches.
LEMMA OthersStay ==
    ASSUME Types, NEW p \in Processes, Acts(p), NEW q \in Processes, p # q
    PROVE  call'[q] = call[q] /\ runtime'[q] = runtime[q] /\ switches'[q] = switches[q]
<1> USE DEF Types, CallTypes, HandTypes
<1>1. CASE Acquiring(p)
  BY <1>1 DEF Acquiring, AcquireEnters, AcquireGivesUp, Rename, RenameFails, Reclaim,
       AcquireReturns, EnterGuard, GoTo, Granted, Refused, runtimeVars
<1>2. CASE Releasing(p)
  BY <1>2 DEF Releasing, ReleaseEnters, ReleaseGivesUp, RemoveOwner, RemoveDirectory,
       ReleaseReturns, EnterGuard, GoTo, runtimeVars
<1>3. CASE Runtime(p)
  BY <1>3 DEF Runtime, Open, Opened, OpenFails, Dispose, Disposed, SwitchBack, TearDown,
       SwitchFails, Build, Switch, CallRelease, CallAcquire
<1>4. CASE Process(p)
  BY <1>4 DEF Process, End, Start, runtimeVars
<1> QED
  BY <1>1, <1>2, <1>3, <1>4 DEF Acts

\* Inside a call only its place changes.
LEMMA GoesTo ==
    ASSUME Types, NEW p \in Processes, NEW step, call[p].kind # "none", GoTo(p, step)
    PROVE  /\ call'[p].kind = call[p].kind /\ call'[p].step = step
           /\ call'[p].path = call[p].path /\ call'[p].for = call[p].for
           /\ call'[p].tries = call[p].tries /\ call'[p].token = call[p].token
<1>1. call[p] \in Calls
  BY InACall DEF Types
<1>2. call'[p] = [call[p] EXCEPT !.step = step]
  BY DEF GoTo, Types, CallTypes
<1> QED
  BY <1>1, <1>2 DEF Calls

\* A release is a call of its own, or nothing.
LEMMA CallsRelease ==
    ASSUME Types, NEW p \in Processes, NEW t \in {0} \cup Leased, CallRelease(p, t)
    PROVE  /\ released' = (released \cup {t}) \ {0}
           /\ \/ t \in {0} \cup released /\ call'[p] = call[p] /\ released' = released
              \/ /\ t \in Leased \ released
                 /\ call'[p] = [kind |-> "release", step |-> "guard", path |-> made[t],
                                for |-> Nobody, tries |-> 0, token |-> t]
BY DEF CallRelease, Types, FileTypes, CallTypes, Leased

\* A lease is in hand only after it was coming, and is coming only when it is new; what is
\* released was in hand.
LEMMA LeasesMove ==
    ASSUME Types, AcquireInv, NEW p \in Processes, Acts(p)
    PROVE  /\ Kept(p)' \subseteq Kept(p) \cup Coming(p)
           /\ Coming(p)' = {} \/ Kept(p)' = Kept(p)
           /\ \/ Coming(p)' \subseteq Coming(p)
              \/ Rename(p) /\ Coming(p)' \subseteq {Len(made) + 1}
           /\ released \subseteq released'
           /\ released' \subseteq released \cup Kept(p)
<1> USE DEF Types, CallTypes, HandTypes
<1> DEFINE Had == Kept(p) \cup Coming(p) \cup {0}
<1>a. runtime[p].lease \in Kept(p) \cup {0} /\ \A i \in Slots : switches[p][i].lease \in Kept(p) \cup {0}
  BY DEF Kept
<1>b. ASSUME runtime'[p].lease \in Had, \A i \in Slots : switches'[p][i].lease \in Had
      PROVE  Kept(p)' \subseteq Kept(p) \cup Coming(p)
  BY <1>b DEF Kept
<1>c. ASSUME UNCHANGED <<runtime, switches>> PROVE Kept(p)' = Kept(p)
  BY <1>c DEF Kept
<1>d. ASSUME NEW i \in Slots \cup {Nobody}, Refused(p, i) PROVE Kept(p)' \subseteq Kept(p) \cup Coming(p)
  BY <1>a, <1>b, <1>d DEF Refused, NoRuntime, NoSwitch
<1>e. ASSUME NEW i \in Slots \cup {Nobody}, NEW f, NEW t \in Coming(p), Granted(p, i, f, t)
      PROVE Kept(p)' \subseteq Kept(p) \cup Coming(p)
  BY <1>a, <1>b, <1>e DEF Granted
<1>1. CASE Acquiring(p)
  <2>0. UNCHANGED released
    BY <1>1 DEF Acquiring, AcquireEnters, AcquireGivesUp, Rename, RenameFails, Reclaim,
       AcquireReturns, EnterGuard, leaseVars
  <2>1. call[p].kind = "acquire" /\ call[p].for \in Slots \cup {Nobody}
    BY <1>1, InACall DEF Acquiring, AcquireEnters, AcquireGivesUp, Rename, RenameFails, Reclaim,
       AcquireReturns, At
  <2>2. CASE AcquireReturns(p) \/ AcquireGivesUp(p)
    <3>1. Coming(p)' = {}
      BY <2>2 DEF AcquireReturns, AcquireGivesUp, Coming, NoCall
    <3>2. call[p].token # 0 => call[p].token \in Coming(p)
      BY <2>1 DEF Coming
    <3>3. Kept(p)' \subseteq Kept(p) \cup Coming(p)
      BY <1>d, <1>e, <2>1, <2>2, <3>2 DEF AcquireReturns, AcquireGivesUp
    <3> QED
      BY <2>0, <3>1, <3>3
  <2>3. CASE Rename(p)
    <3>1. Coming(p)' \subseteq {Len(made) + 1}
      BY <2>3 DEF Rename, Coming
    <3> QED
      BY <1>c, <2>0, <2>3, <3>1 DEF Rename, runtimeVars
  <2>4. CASE AcquireEnters(p) \/ RenameFails(p) \/ Reclaim(p)
    <3>1. ASSUME NEW step, GoTo(p, step) PROVE Coming(p)' = Coming(p)
      BY <2>1, <3>1, GoesTo DEF Coming
    <3>2. ASSUME Reclaim(p) PROVE Coming(p)' = Coming(p)
      <4>1. call[p] \in Calls
        BY <2>1, InACall
      <4>2. call'[p] = [call[p] EXCEPT !.step = IF call[p].tries < 2 THEN "try" ELSE "leave",
                                       !.tries = call[p].tries + 1]
        BY <3>2 DEF Reclaim
      <4> QED
        BY <4>1, <4>2 DEF Calls, Coming
    <3>3. Coming(p)' = Coming(p)
      BY <2>4, <3>1, <3>2 DEF AcquireEnters, EnterGuard, RenameFails
    <3> QED
      BY <1>c, <2>0, <2>4, <3>3 DEF AcquireEnters, EnterGuard, RenameFails, Reclaim, runtimeVars
  <2> QED
    BY <1>1, <2>2, <2>3, <2>4 DEF Acquiring
<1>2. CASE Releasing(p)
  <2>1. UNCHANGED <<released, runtime, switches>>
    BY <1>2 DEF Releasing, ReleaseEnters, ReleaseGivesUp, RemoveOwner, RemoveDirectory,
       ReleaseReturns, EnterGuard, leaseVars, runtimeVars
  <2>2. call[p].kind = "release"
    BY <1>2 DEF Releasing, ReleaseEnters, ReleaseGivesUp, RemoveOwner, RemoveDirectory,
       ReleaseReturns, At
  <2>3. ASSUME NEW step, GoTo(p, step) PROVE call'[p].kind = "release"
    BY <2>2, <2>3, GoesTo
  <2>4. call'[p].kind # "acquire"
    BY <1>2, <2>3 DEF Releasing, ReleaseEnters, ReleaseGivesUp, RemoveOwner, RemoveDirectory,
       ReleaseReturns, EnterGuard, NoCall
  <2> QED
    BY <1>c, <2>1, <2>4 DEF Coming
<1>3. CASE Runtime(p)
  <2>0. call[p] = NoCall
    BY <1>3 DEF Runtime, Open, Opened, OpenFails, Dispose, Disposed, SwitchBack, TearDown,
       SwitchFails, Build, Switch, Running
  <2>1. ASSUME NEW t \in Kept(p) \cup {0}, CallRelease(p, t)
        PROVE  /\ Coming(p)' = {}
               /\ released \subseteq released' /\ released' \subseteq released \cup Kept(p)
    <3>0. \A i \in Slots : switches[p][i].lease \in {0} \cup Leased
      BY DEF Switches
    <3>1. t \in {0} \cup Leased
      BY <3>0 DEF Kept, Runtimes
    <3> QED
      <4>1. released' = (released \cup {t}) \ {0} /\ (call'[p] = NoCall \/ call'[p].kind = "release")
        <5>1. \/ call'[p] = call[p]
              \/ call'[p] = [kind |-> "release", step |-> "guard", path |-> made[t],
                             for |-> Nobody, tries |-> 0, token |-> t]
          BY <2>1, <3>1, CallsRelease, Zenon
        <5>2. released' = (released \cup {t}) \ {0}
          BY <2>1, <3>1, CallsRelease, Zenon
        <5> QED
          BY <2>0, <5>1, <5>2
      <4>2. released' \subseteq released \cup Kept(p)
        BY <4>1, Zenon
      <4>3. call'[p].kind # "acquire"
        BY <4>1 DEF NoCall
      <4>4. released \subseteq released'
        BY <4>1 DEF FileTypes, Leased
      <4> QED
        BY <4>2, <4>3, <4>4 DEF Coming
  <2>2. ASSUME NEW f \in Paths, NEW i, CallAcquire(p, f, i) PROVE Coming(p)' = {}
    BY <2>2 DEF CallAcquire, Coming
  <2>3. ASSUME UNCHANGED call PROVE Coming(p)' = {}
    BY <2>0, <2>3 DEF Coming, NoCall
  <2>4. ASSUME Opened(p) \/ OpenFails(p) \/ Dispose(p) \/ Disposed(p) \/ \E f \in Paths : Open(p, f)
        PROVE  Kept(p)' \subseteq Kept(p) \cup Coming(p)
    BY <1>a, <1>b, <2>4 DEF Open, Opened, OpenFails, Dispose, Disposed, NoRuntime, Runtimes
  <2>5. ASSUME NEW i \in Slots, \/ SwitchBack(p, i) \/ TearDown(p, i) \/ SwitchFails(p, i)
                                \/ \E f \in Paths : Switch(p, i, f)
        PROVE  Kept(p)' \subseteq Kept(p) \cup Coming(p)
    <3>1. runtime'[p].lease \in Kept(p) \cup {0}
      <4>1. runtime[p] \in Runtimes
        OBVIOUS
      <4>2. runtime' = runtime \/ runtime' = [runtime EXCEPT ![p] = [runtime[p] EXCEPT !.open = FALSE]]
        BY <2>5 DEF SwitchBack, TearDown, SwitchFails, Switch
      <4> QED
        BY <1>a, <4>1, <4>2 DEF Runtimes
    <3>2. ASSUME NEW j \in Slots PROVE switches'[p][j].lease \in Kept(p) \cup {0}
      <4>1. switches[p][i] \in Switches /\ switches[p][j] \in Switches
        OBVIOUS
      <4>2. CASE SwitchBack(p, i) \/ SwitchFails(p, i)
        <5>1. switches'[p][j] = switches[p][j] \/ switches'[p][j].lease = runtime[p].lease
              \/ switches'[p][j] = NoSwitch
          BY <4>2 DEF SwitchBack, SwitchFails
        <5> QED
          BY <1>a, <5>1 DEF NoSwitch
      <4>3. CASE TearDown(p, i) \/ \E f \in Paths : Switch(p, i, f)
        <5>1. \E step : switches' = [switches EXCEPT ![p][i] = [switches[p][i] EXCEPT !.step = step]]
          BY <4>3 DEF TearDown, Switch
        <5>2. PICK step : switches' = [switches EXCEPT ![p][i] = [switches[p][i] EXCEPT !.step = step]]
          BY <5>1
        <5>3. [switches[p][i] EXCEPT !.step = step].lease = switches[p][i].lease
          BY <4>1 DEF Switches
        <5>4. switches'[p][j] = IF j = i THEN [switches[p][i] EXCEPT !.step = step] ELSE switches[p][j]
          BY <5>2
        <5> QED
          BY <1>a, <5>3, <5>4
      <4> QED
        BY <2>5, <4>2, <4>3
    <3> QED
      BY <1>b, <3>1, <3>2
  <2>6. ASSUME NEW i \in Slots, Build(p, i) PROVE  Kept(p)' \subseteq Kept(p) \cup Coming(p)
    BY <1>a, <1>b, <2>6 DEF Build, NoSwitch
  <2>7. Kept(p)' \subseteq Kept(p) \cup Coming(p)
    BY <1>3, <2>4, <2>5, <2>6 DEF Runtime
  <2>8. CASE OpenFails(p) \/ Disposed(p) \/ \E i \in Slots : SwitchFails(p, i) \/ Build(p, i)
    BY <1>a, <2>1, <2>3, <2>7, <2>8 DEF OpenFails, Disposed, SwitchFails, Build, leaseVars
  <2>9. CASE \/ Opened(p) \/ Dispose(p) \/ \E f \in Paths : Open(p, f)
             \/ \E i \in Slots : \/ SwitchBack(p, i) \/ TearDown(p, i)
                                 \/ \E f \in Paths : Switch(p, i, f)
    BY <2>2, <2>3, <2>7, <2>9 DEF Opened, Dispose, Open, SwitchBack, TearDown, Switch, leaseVars
  <2> QED
    BY <1>3, <2>8, <2>9 DEF Runtime
<1>4. CASE Process(p)
  <2>1. CASE End(p)
    <3>1. Coming(p)' = {}
      BY <2>1 DEF End, Coming, NoCall
    <3> QED
      BY <1>b, <2>1, <3>1 DEF End, NoRuntime, NoSwitch, leaseVars
  <2>2. CASE Start(p)
    <3>1. Coming(p)' = Coming(p)
      BY <2>2 DEF Start, Coming
    <3> QED
      BY <1>c, <2>2, <3>1 DEF Start, leaseVars, runtimeVars
  <2> QED
    BY <1>4, <2>1, <2>2 DEF Process
<1> QED
  BY <1>1, <1>2, <1>3, <1>4 DEF Acts

\* The runtime starts a call, or none.
AcquireCall(f, i) == [kind |-> "acquire", step |-> "guard", path |-> f, for |-> i, tries |-> 0,
                      token |-> 0]
ReleaseCall(t) == [kind |-> "release", step |-> "guard", path |-> made[t], for |-> Nobody,
                   tries |-> 0, token |-> t]

\* The three values of a call differ.
LEMMA Kinds ==
    /\ NoCall.kind = "none"
    /\ \A t : ReleaseCall(t).kind = "release"
    /\ \A f, i : AcquireCall(f, i).kind = "acquire"
BY DEF NoCall, ReleaseCall, AcquireCall

\* A runtime acts between two calls, and starts one at most.
LEMMA NewCall ==
    ASSUME Types, NEW p \in Processes, Runtime(p)
    PROVE  /\ call[p] = NoCall /\ UNCHANGED made
           /\ \/ call'[p] = NoCall /\ released' = released
              \/ \E t \in Leased \ released :
                    call'[p] = ReleaseCall(t) /\ released' = released \cup {t}
              \/ /\ released' = released
                 /\ \E f \in Paths : Open(p, f) /\ call'[p] = AcquireCall(f, Nobody)
              \/ /\ released' = released
                 /\ \E f \in Paths, i \in Slots : Switch(p, i, f) /\ call'[p] = AcquireCall(f, i)
<1> USE DEF Types
<1>1. call[p] = NoCall /\ UNCHANGED made
  BY DEF Runtime, Open, Opened, OpenFails, Dispose, Disposed, SwitchBack, TearDown,
       SwitchFails, Build, Switch, CallRelease, Running, leaseVars
<1>2. /\ runtime[p].lease \in {0} \cup Leased
      /\ \A i \in Slots : switches[p][i].lease \in {0} \cup Leased
  BY DEF HandTypes, Runtimes, Switches
<1>3. ASSUME NEW t \in {0} \cup Leased, CallRelease(p, t)
      PROVE  \/ call'[p] = NoCall /\ released' = released
             \/ \E u \in Leased \ released :
                    call'[p] = ReleaseCall(u) /\ released' = released \cup {u}
  <2>1. CASE t \in {0} \cup released
    BY <1>1, <1>3, <2>1 DEF CallRelease, FileTypes, Leased
  <2>2. CASE t \notin {0} \cup released
    <3>1. t \in Leased \ released /\ released' = released \cup {t}
      BY <1>3, <2>2 DEF CallRelease, FileTypes, Leased
    <3>2. call' = [call EXCEPT ![p] = ReleaseCall(t)]
      BY <1>3, <2>2 DEF CallRelease, ReleaseCall
    <3>3. call'[p] = ReleaseCall(t)
      BY <3>2 DEF CallTypes
    <3> QED
      BY <3>1, <3>3
  <2> QED
    BY <2>1, <2>2
<1>4. CASE OpenFails(p) \/ Disposed(p) \/ \E i \in Slots : SwitchFails(p, i) \/ Build(p, i)
  BY <1>1, <1>2, <1>3, <1>4 DEF OpenFails, Disposed, SwitchFails, Build, leaseVars
<1>5. ASSUME NEW f \in Paths, NEW i \in Slots \cup {Nobody}, CallAcquire(p, f, i)
      PROVE  call'[p] = AcquireCall(f, i)
  BY <1>5 DEF CallAcquire, CallTypes, AcquireCall
<1>6. CASE \E f \in Paths : Open(p, f)
  <2>1. PICK f \in Paths : Open(p, f)
    BY <1>6
  <2>2. call'[p] = AcquireCall(f, Nobody) /\ released' = released
    BY <1>5, <2>1 DEF Open, leaseVars
  <2> QED
    BY <1>1, <2>1, <2>2
<1>7. CASE \E f \in Paths, i \in Slots : Switch(p, i, f)
  <2>1. PICK f \in Paths, i \in Slots : Switch(p, i, f)
    BY <1>7
  <2>2. call'[p] = AcquireCall(f, i) /\ released' = released
    BY <1>5, <2>1 DEF Switch, leaseVars
  <2> QED
    BY <1>1, <2>1, <2>2
<1>8. CASE Opened(p) \/ Dispose(p) \/ \E i \in Slots : SwitchBack(p, i) \/ TearDown(p, i)
  BY <1>1, <1>8 DEF Opened, Dispose, SwitchBack, TearDown, leaseVars
<1> QED
  BY <1>1, <1>4, <1>6, <1>7, <1>8 DEF Runtime

\* A lease about to be returned is fresh: no one released it meanwhile.
LEMMA AcquireStep ==
    Types /\ AcquireInv /\ ApartInv /\ [Next]_vars => AcquireInv'
<1> SUFFICES ASSUME Types, AcquireInv, ApartInv, [Next]_vars PROVE AcquireInv'
  OBVIOUS
<1>a. Leased \subseteq Leased' /\ \A t \in Leased : made'[t] = made[t]
  BY MadeGrows
<1>0. ASSUME UNCHANGED <<leaseVars, call, runtime, switches>> PROVE AcquireInv'
  BY <1>0 DEF AcquireInv, AcquireOK, leaseVars
<1>1. ASSUME NEW p \in Processes, Acts(p), NEW q \in Processes, p # q PROVE AcquireOK(q)'
  <2>1. call'[q] = call[q] /\ runtime'[q] = runtime[q] /\ switches'[q] = switches[q]
    BY <1>1, OthersStay
  <2>2. call[q].kind = "acquire" /\ call[q].token # 0 => call[q].token \notin released'
    BY <1>1, LeasesMove DEF ApartInv, Coming, AcquireInv, AcquireOK
  <2>3. call[q].kind = "acquire" /\ call[q].token # 0 => made'[call[q].token] = made[call[q].token]
    BY <1>a, InACall DEF Types
  <2> QED
    BY <2>1, <2>2, <2>3 DEF AcquireInv, AcquireOK
<1>2. ASSUME NEW p \in Processes, Acquiring(p) PROVE AcquireOK(p)'
  <2>0. /\ call[p].kind = "acquire" /\ AcquireOK(p) /\ call[p] \in Calls
        /\ UNCHANGED released
    BY <1>2, InACall DEF Types, Acquiring, AcquireEnters, AcquireGivesUp, Rename, RenameFails, Reclaim,
         AcquireReturns, EnterGuard, leaseVars, At, AcquireInv
  <2>1. CASE AcquireReturns(p) \/ AcquireGivesUp(p)
    BY <2>1 DEF AcquireReturns, AcquireGivesUp, AcquireOK, NoCall, Types, CallTypes
  <2>2. CASE AcquireEnters(p) \/ RenameFails(p)
    <3>1. UNCHANGED <<made, released, runtime, switches>>
      BY <2>2 DEF AcquireEnters, EnterGuard, RenameFails, leaseVars, runtimeVars
    <3>2. PICK step \in {"try", "reclaim", "leave"} : GoTo(p, step)
      BY <2>2 DEF AcquireEnters, EnterGuard, RenameFails
    <3>3. call[p].step # "leave"
      BY <2>2 DEF AcquireEnters, RenameFails, At
    <3> QED
      BY <2>0, <3>1, <3>2, <3>3, GoesTo DEF AcquireOK
  <2>3. CASE Reclaim(p)
    <3> DEFINE step == IF call[p].tries < 2 THEN "try" ELSE "leave"
    <3>1. call'[p] = [call[p] EXCEPT !.step = step, !.tries = call[p].tries + 1]
      BY <2>3 DEF Reclaim, Types, CallTypes
    <3>2. UNCHANGED <<made, released, runtime, switches>>
      BY <2>3 DEF Reclaim, leaseVars, runtimeVars
    <3>3. call[p].step = "reclaim" /\ call[p].tries \in 0..2 /\ call[p].token = 0
      BY <2>0, <2>3 DEF Reclaim, At, AcquireOK
    <3>4. /\ call'[p].step = step /\ call'[p].tries = call[p].tries + 1 /\ call'[p].token = 0
          /\ call'[p].for = call[p].for
      BY <2>0, <3>1, <3>3 DEF Calls
    <3>5. step # "leave" => call[p].tries + 1 \in 0..2
      BY <3>3
    <3> QED
      BY <2>0, <3>2, <3>4, <3>5 DEF AcquireOK
  <2>4. CASE Rename(p)
    <3> DEFINE t == Len(made) + 1
    <3>1. call'[p] = [call[p] EXCEPT !.step = "leave", !.token = t]
      BY <2>4 DEF Rename, Types, CallTypes
    <3>2. UNCHANGED <<released, runtime, switches>> /\ made' = Append(made, call[p].path)
      BY <2>4 DEF Rename, runtimeVars
    <3>3. t \notin released /\ made'[t] = call[p].path
      BY <2>0, <3>2 DEF Types, FileTypes, Leased, Calls
    <3>4. /\ call'[p].step = "leave" /\ call'[p].token = t /\ call'[p].path = call[p].path
          /\ call'[p].for = call[p].for
      BY <2>0, <3>1 DEF Calls
    <3> QED
      BY <2>0, <3>2, <3>3, <3>4 DEF AcquireOK
  <2> QED
    BY <1>2, <2>1, <2>2, <2>3, <2>4 DEF Acquiring
<1>3. ASSUME NEW p \in Processes, Releasing(p) PROVE AcquireOK(p)'
  <2>1. call[p].kind = "release"
    BY <1>3 DEF Releasing, ReleaseEnters, ReleaseGivesUp, RemoveOwner, RemoveDirectory,
       ReleaseReturns, At
  <2>2. ASSUME NEW step, GoTo(p, step) PROVE call'[p].kind = "release"
    BY <2>1, <2>2, GoesTo
  <2>3. call'[p].kind # "acquire"
    <3>1. CASE ReleaseGivesUp(p) \/ ReleaseReturns(p)
      BY <3>1 DEF ReleaseGivesUp, ReleaseReturns, NoCall, Types, CallTypes
    <3>2. CASE ReleaseEnters(p) \/ RemoveOwner(p) \/ RemoveDirectory(p)
      BY <2>2, <3>2 DEF ReleaseEnters, EnterGuard, RemoveOwner, RemoveDirectory
    <3> QED
      BY <1>3, <3>1, <3>2 DEF Releasing
  <2> QED
    BY <2>3 DEF AcquireOK
<1>4. ASSUME NEW p \in Processes, Runtime(p) PROVE AcquireOK(p)'
  <2>1. CASE call'[p] = NoCall \/ \E t : call'[p] = ReleaseCall(t)
    <3>1. call'[p].kind # "acquire"
      BY <2>1, Kinds
    <3> QED
      BY <3>1 DEF AcquireOK
  <2>2. ASSUME NEW f \in Paths, Open(p, f), call'[p] = AcquireCall(f, Nobody)
        PROVE  AcquireOK(p)'
    <3>1. runtime'[p].state = "acquiring"
      BY <2>2 DEF Open, Types, HandTypes, Runtimes
    <3> QED
      BY <2>2, <3>1 DEF AcquireCall, AcquireOK
  <2>3. ASSUME NEW f \in Paths, NEW i \in Slots, Switch(p, i, f), call'[p] = AcquireCall(f, i)
        PROVE  AcquireOK(p)'
    <3>1. switches'[p][i].step = "acquiring"
      BY <2>3 DEF Switch, Types, HandTypes, Switches
    <3>2. i # Nobody
      BY NobodyAssumption
    <3> QED
      BY <2>3, <3>1, <3>2 DEF AcquireCall, AcquireOK
  <2> QED
    BY <1>4, <2>1, <2>2, <2>3, NewCall
<1>5. ASSUME NEW p \in Processes, Process(p) PROVE AcquireOK(p)'
  <2>1. CASE End(p)
    BY <2>1 DEF End, AcquireOK, NoCall, Types, CallTypes
  <2>2. CASE Start(p)
    BY <1>0, <2>2 DEF Start, runtimeVars, AcquireInv
  <2> QED
    BY <1>5, <2>1, <2>2 DEF Process
<1>6. ASSUME NEW p \in Processes, Acts(p) PROVE AcquireInv'
  BY <1>1, <1>2, <1>3, <1>4, <1>5, <1>6 DEF Acts, AcquireInv
<1>7. CASE (\E f \in Paths : GuardExpires(f)) \/ UNCHANGED vars
  BY <1>0, <1>7 DEF GuardExpires, vars, runtimeVars
<1> QED
  BY <1>6, <1>7 DEF Next, Acts

\* A release is about a lease that counts as released already.
LEMMA ReleaseStep ==
    Types /\ ReleaseInv /\ [Next]_vars => ReleaseInv'
<1> SUFFICES ASSUME Types, ReleaseInv, [Next]_vars PROVE ReleaseInv'
  OBVIOUS
<1>a. Leased \subseteq Leased' /\ \A t \in Leased : made'[t] = made[t]
  BY MadeGrows
<1>0. ASSUME NEW q \in Processes, released \subseteq released',
             \/ UNCHANGED call
             \/ call'[q].kind # "release"
             \/ /\ call'[q].kind = call[q].kind /\ call'[q].path = call[q].path
                /\ call'[q].token = call[q].token
                /\ call'[q].step \in {"guard", "remove", "rmdir", "leave"}
      PROVE  ReleaseOK(q)'
  <2>1. call[q].kind = "release" => made'[call[q].token] = made[call[q].token]
    BY <1>a DEF ReleaseInv, ReleaseOK, Types, FileTypes
  <2> QED
    BY <1>0, <2>1 DEF ReleaseInv, ReleaseOK
<1>1. ASSUME NEW p \in Processes, Acts(p), NEW q \in Processes, p # q, released \subseteq released'
      PROVE  ReleaseOK(q)'
  <2>1. call'[q] = call[q]
    BY <1>1, OthersStay
  <2>2. call[q].kind = "release" => call[q].step \in {"guard", "remove", "rmdir", "leave"}
    BY DEF ReleaseInv, ReleaseOK
  <2> QED
    BY <1>0, <1>1, <2>1, <2>2
<1>2. ASSUME NEW p \in Processes, Acquiring(p) PROVE released \subseteq released' /\ ReleaseOK(p)'
  <2>1. call[p].kind = "acquire" /\ UNCHANGED released
    BY <1>2 DEF Acquiring, AcquireEnters, AcquireGivesUp, Rename, RenameFails, Reclaim,
         AcquireReturns, EnterGuard, leaseVars, At
  <2>2. ASSUME NEW step, GoTo(p, step) PROVE call'[p].kind # "release"
    BY <2>1, <2>2, GoesTo
  <2>3. CASE Rename(p) \/ Reclaim(p)
    <3>1. call[p] \in Calls
      BY <2>1, InACall DEF Types
    <3>2. PICK step, tries, token :
             call'[p] = [call[p] EXCEPT !.step = step, !.tries = tries, !.token = token]
      <4>1. CASE Rename(p)
        <5>1. call[p].tries = call[p].tries /\ call[p] = [call[p] EXCEPT !.tries = call[p].tries]
          BY <3>1 DEF Calls
        <5>2. call'[p] = [call[p] EXCEPT !.step = "leave", !.token = Len(made) + 1]
          BY <4>1 DEF Rename, Types, CallTypes
        <5>3. call'[p] = [call[p] EXCEPT !.step = "leave", !.tries = call[p].tries,
                                         !.token = Len(made) + 1]
          BY <3>1, <5>2 DEF Calls
        <5> QED
          BY <5>3
      <4>2. CASE Reclaim(p)
        <5> DEFINE step == IF call[p].tries < 2 THEN "try" ELSE "leave"
        <5>2. call'[p] = [call[p] EXCEPT !.step = step, !.tries = call[p].tries + 1]
          BY <4>2 DEF Reclaim, Types, CallTypes
        <5>3. call'[p] = [call[p] EXCEPT !.step = step, !.tries = call[p].tries + 1,
                                         !.token = call[p].token]
          BY <3>1, <5>2 DEF Calls
        <5> QED
          BY <5>3
      <4> QED
        BY <2>3, <4>1, <4>2
    <3>3. call'[p].kind = "acquire"
      BY <2>1, <3>1, <3>2 DEF Calls
    <3> QED
      BY <1>0, <2>1, <3>3
  <2>4. CASE AcquireEnters(p) \/ RenameFails(p)
    BY <1>0, <2>1, <2>2, <2>4 DEF AcquireEnters, EnterGuard, RenameFails
  <2>5. CASE AcquireReturns(p) \/ AcquireGivesUp(p)
    BY <1>0, <2>1, <2>5 DEF AcquireReturns, AcquireGivesUp, NoCall, Types, CallTypes
  <2> QED
    BY <1>2, <2>3, <2>4, <2>5 DEF Acquiring
<1>3. ASSUME NEW p \in Processes, Releasing(p) PROVE released \subseteq released' /\ ReleaseOK(p)'
  <2>1. call[p].kind = "release" /\ UNCHANGED released
    BY <1>3 DEF Releasing, ReleaseEnters, ReleaseGivesUp, RemoveOwner, RemoveDirectory,
       ReleaseReturns, EnterGuard, leaseVars, At
  <2>2. CASE ReleaseEnters(p) \/ RemoveOwner(p) \/ RemoveDirectory(p)
    <3>1. PICK step \in {"remove", "rmdir", "leave"} : GoTo(p, step)
      BY <2>2 DEF ReleaseEnters, EnterGuard, RemoveOwner, RemoveDirectory
    <3> QED
      BY <1>0, <2>1, <3>1, GoesTo
  <2>3. CASE ReleaseGivesUp(p) \/ ReleaseReturns(p)
    BY <1>0, <2>1, <2>3 DEF ReleaseGivesUp, ReleaseReturns, NoCall, Types, CallTypes
  <2> QED
    BY <1>3, <2>2, <2>3 DEF Releasing
<1>4. ASSUME NEW p \in Processes, Runtime(p) PROVE released \subseteq released' /\ ReleaseOK(p)'
  <2>1. ASSUME NEW t \in Leased \ released, call'[p] = ReleaseCall(t), released' = released \cup {t}
        PROVE  ReleaseOK(p)'
    <3>1. made' = made
      BY <1>4, NewCall
    <3> QED
      BY <2>1, <3>1 DEF ReleaseOK, ReleaseCall
  <2>2. ASSUME released' = released,
               call'[p] = NoCall \/ \E f \in Paths, i \in Slots \cup {Nobody} : call'[p] = AcquireCall(f, i)
        PROVE  ReleaseOK(p)'
    <3>1. call'[p].kind # "release"
      BY <2>2, Kinds
    <3> QED
      BY <1>0, <2>2, <3>1
  <2> QED
    BY <1>4, <2>1, <2>2, NewCall
<1>5. ASSUME NEW p \in Processes, Process(p) PROVE released \subseteq released' /\ ReleaseOK(p)'
  BY <1>0, <1>5 DEF Process, Start, End, leaseVars, NoCall, Types, CallTypes
<1>6. ASSUME NEW p \in Processes, Acts(p) PROVE ReleaseInv'
  BY <1>1, <1>2, <1>3, <1>4, <1>5, <1>6 DEF Acts, ReleaseInv
<1>7. CASE (\E f \in Paths : GuardExpires(f)) \/ UNCHANGED vars
  <2>1. UNCHANGED <<call, released>>
    BY <1>7 DEF GuardExpires, vars, leaseVars
  <2> QED
    BY <1>0, <2>1 DEF ReleaseInv
<1> QED
  BY <1>6, <1>7 DEF Next, Acts

\* A lease in hand stays one of the path it is for.
LEMMA HandStep ==
    Types /\ AcquireInv /\ HandInv /\ [Next]_vars => HandInv'
<1> SUFFICES ASSUME Types, AcquireInv, HandInv, [Next]_vars PROVE HandInv'
  OBVIOUS
<1>a. Leased \subseteq Leased' /\ \A t \in Leased : made'[t] = made[t]
  BY MadeGrows
<1>b. ASSUME NEW p \in Processes
      PROVE  /\ runtime[p] \in Runtimes /\ runtime[p].lease \in {0} \cup Leased
             /\ \A i \in Slots : /\ switches[p][i] \in Switches
                                 /\ switches[p][i].lease \in {0} \cup Leased
  BY DEF Types, HandTypes, Runtimes, Switches
<1>0. ASSUME NEW q \in Processes, runtime'[q] = runtime[q], switches'[q] = switches[q]
      PROVE  HandOK(q)'
  <2>1. runtime[q].lease # 0 => made'[runtime[q].lease] = made[runtime[q].lease]
    BY <1>a, <1>b
  <2>2. \A i \in Slots : switches[q][i].lease # 0 =>
           made'[switches[q][i].lease] = made[switches[q][i].lease]
    BY <1>a, <1>b
  <2>3. HandOK(q)
    BY DEF HandInv
  <2> QED
    BY <1>0, <2>1, <2>2, <2>3 DEF HandOK
<1>1. ASSUME NEW p \in Processes, Acquiring(p) PROVE HandOK(p)'
  <2>0. /\ call[p].kind = "acquire" /\ AcquireOK(p) /\ HandOK(p)
        /\ call[p].for \in Slots \cup {Nobody} /\ call[p].token \in {0} \cup Leased
    BY <1>1, InACall DEF Types, Acquiring, AcquireEnters, AcquireGivesUp, Rename, RenameFails, Reclaim,
         AcquireReturns, At, AcquireInv, HandInv
  <2>1. CASE AcquireReturns(p) \/ AcquireGivesUp(p)
    <3>0. UNCHANGED made
      BY <2>1 DEF AcquireReturns, AcquireGivesUp, leaseVars
    <3>1. ASSUME Refused(p, call[p].for) PROVE HandOK(p)'
      <4>1. CASE call[p].for = Nobody
        <5>1. runtime'[p] = NoRuntime /\ \A i \in Slots : switches'[p][i] = NoSwitch
          BY <2>0, <3>1, <4>1 DEF Refused, AcquireOK, HandOK, Types, HandTypes
        <5> QED
          BY <5>1 DEF HandOK, NoRuntime, NoSwitch
      <4>2. CASE call[p].for # Nobody
        <5>1. runtime' = runtime
          BY <3>1, <4>2 DEF Refused
        <5>2. \A i \in Slots : switches'[p][i] = IF i = call[p].for THEN NoSwitch ELSE switches[p][i]
          BY <3>1, <4>2 DEF Refused, Types, HandTypes
        <5> QED
          BY <2>0, <3>0, <5>1, <5>2 DEF HandOK, NoSwitch
      <4> QED
        BY <4>1, <4>2
    <3>2. ASSUME call[p].token # 0, Granted(p, call[p].for, call[p].path, call[p].token)
          PROVE HandOK(p)'
      <4> DEFINE f == call[p].path
                 t == call[p].token
      <4>0. made[t] = f
        BY <2>0, <3>2 DEF AcquireOK
      <4>1. CASE call[p].for = Nobody
        <5>1. runtime'[p] = [state |-> "opening", path |-> f, open |-> FALSE, lease |-> t]
          BY <3>2, <4>1 DEF Granted, Types, HandTypes
        <5>2. \A i \in Slots : switches'[p][i] = NoSwitch
          BY <2>0, <3>2, <4>1 DEF Granted, AcquireOK, HandOK
        <5>3. /\ runtime'[p].lease = t /\ runtime'[p].path = f /\ runtime'[p].state = "opening"
              /\ runtime'[p].open = FALSE
          BY <5>1
        <5>4. NoSwitch.lease = 0 /\ NoSwitch.step = "none"
          BY DEF NoSwitch
        <5> QED
          BY <3>0, <3>2, <4>0, <5>2, <5>3, <5>4 DEF HandOK
      <4>2. CASE call[p].for # Nobody
        <5> DEFINE s == [step |-> "tearing", path |-> f, lease |-> t]
        <5>1. runtime' = runtime
          BY <3>2, <4>2 DEF Granted
        <5>2. \A i \in Slots : switches'[p][i] = IF i = call[p].for THEN s ELSE switches[p][i]
          BY <3>2, <4>2 DEF Granted, Types, HandTypes
        <5>3. switches[p][call[p].for] # NoSwitch
          BY <2>0, <4>2 DEF AcquireOK, NoSwitch
        <5>4. s.lease = t /\ s.path = f /\ s.step = "tearing"
          OBVIOUS
        <5> HIDE DEF s
        <5>5. runtime[p].state \notin {"none", "acquiring", "opening"}
          BY <2>0, <4>2, <5>3 DEF HandOK
        <5> QED
          BY <2>0, <3>0, <3>2, <4>0, <5>1, <5>2, <5>4, <5>5 DEF HandOK
      <4> QED
        BY <4>1, <4>2
    <3> QED
      BY <2>0, <2>1, <3>1, <3>2 DEF AcquireReturns, AcquireGivesUp
  <2>2. CASE ~(AcquireReturns(p) \/ AcquireGivesUp(p))
    BY <1>0, <1>1, <2>2 DEF Acquiring, AcquireEnters, EnterGuard, Rename, RenameFails, Reclaim, runtimeVars
  <2> QED
    BY <2>1, <2>2
<1>2. ASSUME NEW p \in Processes, Releasing(p) PROVE HandOK(p)'
  BY <1>0, <1>2 DEF Releasing, ReleaseEnters, EnterGuard, ReleaseGivesUp, RemoveOwner,
       RemoveDirectory, ReleaseReturns, runtimeVars
<1>3. ASSUME NEW p \in Processes, Runtime(p) PROVE HandOK(p)'
  <2> DEFINE r == runtime[p]
             t == runtime'[p]
  <2>0. HandOK(p) /\ UNCHANGED made /\ runtime[p] \in Runtimes
    BY <1>b, <1>3, NewCall DEF HandInv
  <2>1. CASE \E f \in Paths : Open(p, f)
    <3>1. switches' = switches /\ t = [r EXCEPT !.state = "acquiring"] /\ r.state = "none"
      BY <2>1 DEF Open, Types, HandTypes
    <3>2. t.state = "acquiring" /\ t.path = r.path /\ t.open = r.open /\ t.lease = r.lease
      BY <2>0, <3>1 DEF Runtimes
    <3> QED
      BY <2>0, <3>1, <3>2 DEF HandOK
  <2>2. CASE Opened(p)
    <3>1. switches' = switches /\ t = [r EXCEPT !.state = "live", !.open = TRUE] /\ r.state = "opening"
      BY <2>2 DEF Opened, Types, HandTypes
    <3>2. t.state = "live" /\ t.path = r.path /\ t.open = TRUE /\ t.lease = r.lease
      BY <2>0, <3>1 DEF Runtimes
    <3> QED
      BY <2>0, <3>1, <3>2 DEF HandOK
  <2>3. CASE OpenFails(p)
    <3>1. \A i \in Slots : switches'[p][i] = NoSwitch
      BY <2>0, <2>3 DEF OpenFails, HandOK
    <3>2. t = NoRuntime
      BY <2>3 DEF OpenFails, Types, HandTypes
    <3> QED
      BY <3>1, <3>2 DEF HandOK, NoRuntime, NoSwitch
  <2>4. CASE Dispose(p)
    <3>1. switches' = switches /\ t = [r EXCEPT !.state = "disposing", !.open = FALSE] /\ r.state = "live"
      BY <2>4 DEF Dispose, Types, HandTypes
    <3>2. t.state = "disposing" /\ t.path = r.path /\ t.open = FALSE /\ t.lease = r.lease
      BY <2>0, <3>1 DEF Runtimes
    <3> QED
      BY <2>0, <3>1, <3>2 DEF HandOK
  <2>5. CASE Disposed(p)
    <3>1. /\ switches' = switches /\ r.state = "disposing"
          /\ t = [r EXCEPT !.state = "disposed", !.lease = 0]
      BY <2>5 DEF Disposed, Types, HandTypes
    <3>2. t.state = "disposed" /\ t.open = r.open /\ t.lease = 0
      BY <2>0, <3>1 DEF Runtimes
    <3> QED
      BY <2>0, <3>1, <3>2 DEF HandOK
  <2>6. ASSUME NEW i \in Slots, SwitchBack(p, i) PROVE HandOK(p)'
    <3> DEFINE s == [step |-> "tearing", path |-> LeasePath(p), lease |-> r.lease]
    <3>1. runtime' = runtime /\ Applied(p) /\ r.lease # 0
      BY <2>6 DEF SwitchBack
    <3>2. \A j \in Slots : switches'[p][j] = IF j = i THEN s ELSE switches[p][j]
      BY <2>6 DEF SwitchBack, Types, HandTypes
    <3>3. s.step = "tearing" /\ s.lease = r.lease /\ s.path = made[r.lease]
      BY <3>1 DEF LeasePath
    <3> HIDE DEF s
    <3> QED
      BY <2>0, <3>1, <3>2, <3>3 DEF HandOK, Applied
  <2>7. ASSUME NEW i \in Slots, NEW f \in Paths, Switch(p, i, f) PROVE HandOK(p)'
    <3> DEFINE s == [NoSwitch EXCEPT !.step = "acquiring"]
    <3>1. runtime' = runtime /\ Applied(p) /\ switches[p][i] = NoSwitch
      BY <2>7 DEF Switch
    <3>2. \A j \in Slots : switches'[p][j] = IF j = i THEN s ELSE switches[p][j]
      BY <2>7, <3>1 DEF Switch, Types, HandTypes
    <3>3. s.step = "acquiring" /\ s.lease = 0
      BY DEF NoSwitch
    <3> HIDE DEF s
    <3> QED
      BY <2>0, <3>1, <3>2, <3>3 DEF HandOK, Applied
  <2>8. ASSUME NEW i \in Slots, TearDown(p, i) PROVE HandOK(p)'
    <3> DEFINE s == [switches[p][i] EXCEPT !.step = "building"]
    <3>1. t = [r EXCEPT !.open = FALSE] /\ switches[p][i].step = "tearing"
      BY <2>8 DEF TearDown, Types, HandTypes
    <3>2. \A j \in Slots : switches'[p][j] = IF j = i THEN s ELSE switches[p][j]
      BY <2>8, <3>1 DEF TearDown, Types, HandTypes
    <3>3. s.step = "building" /\ s.lease = switches[p][i].lease /\ s.path = switches[p][i].path
      BY <1>b DEF Switches
    <3>4. t.state = r.state /\ t.open = FALSE /\ t.lease = r.lease /\ t.path = r.path
      BY <2>0, <3>1 DEF Runtimes
    <3>5. r.state \notin {"none", "acquiring", "opening"}
      BY <2>0, <3>1 DEF HandOK, NoSwitch
    <3> HIDE DEF s
    <3> QED
      BY <2>0, <3>1, <3>2, <3>3, <3>4, <3>5 DEF HandOK
  <2>9. ASSUME NEW i \in Slots, SwitchFails(p, i) PROVE HandOK(p)'
    <3>1. /\ runtime' = runtime
          /\ \A j \in Slots : switches'[p][j] = IF j = i THEN NoSwitch ELSE switches[p][j]
      BY <2>9 DEF SwitchFails, Types, HandTypes
    <3>2. NoSwitch.step = "none" /\ NoSwitch.lease = 0
      BY DEF NoSwitch
    <3> QED
      BY <2>0, <3>1, <3>2 DEF HandOK
  <2>10. ASSUME NEW i \in Slots, Build(p, i) PROVE HandOK(p)'
    <3> DEFINE s == switches[p][i]
    <3>1. /\ t = [r EXCEPT !.path = s.path, !.open = TRUE, !.lease = s.lease]
          /\ s.step = "building"
      BY <2>10 DEF Build, Types, HandTypes
    <3>2. \A j \in Slots : switches'[p][j] = IF j = i THEN NoSwitch ELSE switches[p][j]
      BY <2>10 DEF Build, Types, HandTypes
    <3>3. NoSwitch.step = "none" /\ NoSwitch.lease = 0
      BY DEF NoSwitch
    <3>4. t.state = r.state /\ t.open = TRUE /\ t.lease = s.lease /\ t.path = s.path
      BY <2>0, <3>1 DEF Runtimes
    <3>5. r.state \notin {"none", "acquiring", "opening"} /\ s.lease # 0 /\ made[s.lease] = s.path
      BY <2>0, <3>1 DEF HandOK, NoSwitch
    <3> QED
      BY <2>0, <3>1, <3>2, <3>3, <3>4, <3>5 DEF HandOK
  <2> QED
    BY <1>3, <2>1, <2>2, <2>3, <2>4, <2>5, <2>6, <2>7, <2>8, <2>9, <2>10 DEF Runtime
<1>4. ASSUME NEW p \in Processes, Process(p) PROVE HandOK(p)'
  <2>1. CASE End(p)
    <3>1. runtime'[p] = NoRuntime /\ \A i \in Slots : switches'[p][i] = NoSwitch
      BY <2>1 DEF End, Types, HandTypes
    <3> QED
      BY <3>1 DEF HandOK, NoRuntime, NoSwitch
  <2>2. CASE Start(p)
    BY <1>0, <2>2 DEF Start, runtimeVars
  <2> QED
    BY <1>4, <2>1, <2>2 DEF Process
<1>5. ASSUME NEW p \in Processes, Acts(p) PROVE HandInv'
  BY <1>0, <1>1, <1>2, <1>3, <1>4, <1>5, OthersStay DEF Acts, HandInv
<1>6. CASE (\E f \in Paths : GuardExpires(f)) \/ UNCHANGED vars
  BY <1>0, <1>6 DEF GuardExpires, vars, runtimeVars, HandInv
<1> QED
  BY <1>5, <1>6 DEF Next, Acts

\* A lease moves from a call to the runtime that made it, and nowhere else.
LEMMA ApartStep ==
    Types /\ AcquireInv /\ ApartInv /\ [Next]_vars => ApartInv'
<1> SUFFICES ASSUME Types, AcquireInv, ApartInv, [Next]_vars PROVE ApartInv'
  OBVIOUS
<1>a. ASSUME NEW p \in Processes PROVE Coming(p) \subseteq Leased /\ Kept(p) \subseteq Leased
  <2>1. \A i \in Slots : switches[p][i].lease \in {0} \cup Leased
    BY DEF Types, HandTypes, Switches
  <2>2. runtime[p].lease \in {0} \cup Leased
    BY DEF Types, HandTypes, Runtimes
  <2>3. Kept(p) \subseteq Leased
    BY <2>1, <2>2 DEF Kept
  <2>4. Coming(p) \subseteq Leased
    BY InACall DEF Types, Coming
  <2> QED
    BY <2>3, <2>4
<1>b. Len(made) + 1 \notin Leased
  BY DEF Types, FileTypes, Leased
<1>1. ASSUME NEW p \in Processes, Acts(p) PROVE ApartInv'
  <2>1. /\ Kept(p)' \subseteq Kept(p) \cup Coming(p)
        /\ Coming(p)' = {} \/ Kept(p)' = Kept(p)
        /\ Coming(p)' \subseteq Coming(p) \cup {Len(made) + 1}
    BY <1>1, LeasesMove
  <2>2. ASSUME NEW q \in Processes, p # q PROVE Kept(q)' = Kept(q) /\ Coming(q)' = Coming(q)
    BY <1>1, <2>2, OthersStay DEF Kept, Coming
  <2>3. Coming(p)' \cap Kept(p)' = {}
    BY <1>a, <1>b, <2>1 DEF ApartInv
  <2>4. ASSUME NEW q \in Processes, p # q
        PROVE  /\ Coming(p)' \cap Kept(q)' = {} /\ Coming(q)' \cap Kept(p)' = {}
               /\ Coming(p)' \cap Coming(q)' = {} /\ Kept(p)' \cap Kept(q)' = {}
    BY <1>a, <1>b, <2>1, <2>2, <2>4 DEF ApartInv
  <2>5. ASSUME NEW q \in Processes, NEW v \in Processes
        PROVE  /\ Coming(q)' \cap Kept(v)' = {}
               /\ q # v => Coming(q)' \cap Coming(v)' = {} /\ Kept(q)' \cap Kept(v)' = {}
    <3>1. CASE q # p /\ v # p
      BY <2>2, <3>1 DEF ApartInv
    <3> QED
      BY <2>3, <2>4, <3>1
  <2> QED
    BY <2>5 DEF ApartInv
<1>2. CASE (\E f \in Paths : GuardExpires(f)) \/ UNCHANGED vars
  <2>1. UNCHANGED <<call, runtime, switches>>
    BY <1>2 DEF GuardExpires, vars, runtimeVars
  <2> QED
    BY <2>1 DEF ApartInv, Coming, Kept
<1> QED
  BY <1>1, <1>2 DEF Next, Acts

-----------------------------------------------------------------------------
Good == Types /\ PastTypes /\ AcquireInv /\ ReleaseInv /\ HandInv /\ ApartInv

\* What holds whatever guard is broken, at the start ...
LEMMA GoodInit == Init => Good
<1> SUFFICES ASSUME Init PROVE Good
  OBVIOUS
<1>1. Len(made) = 0 /\ Leased = {} /\ made \in Seq(Paths)
  BY DEF Init, Leased
<1>2. Free \in Owners /\ NoRuntime \in Runtimes /\ NoSwitch \in Switches
  BY <1>1 DEF Owners, Free, NoRuntime, NoSwitch, Runtimes, Switches
<1>3. Types
  BY <1>1, <1>2 DEF Init, Types, FileTypes, CallTypes, HandTypes
<1>p. PastTypes
  BY DEF Init, PastTypes
<1>4. \A p \in Processes : /\ call[p].kind = "none" /\ runtime[p] = NoRuntime
                           /\ \A i \in Slots : switches[p][i] = NoSwitch
  BY DEF Init, NoCall
<1>5. AcquireInv /\ ReleaseInv
  BY <1>4 DEF AcquireInv, ReleaseInv, AcquireOK, ReleaseOK
<1>6. HandInv
  BY <1>4 DEF HandInv, HandOK, NoRuntime, NoSwitch
<1>7. \A p \in Processes : Coming(p) = {} /\ Kept(p) = {}
  BY <1>4 DEF Coming, Kept, NoRuntime, NoSwitch
<1> QED
  BY <1>3, <1>p, <1>5, <1>6, <1>7 DEF Good, ApartInv

\* ... and after each step.
LEMMA GoodStep == Good /\ [Next]_vars => Good'
BY FileTypesStep, CallTypesStep, HandTypesStep, PastTypesStep, AcquireStep, ReleaseStep, HandStep,
   ApartStep DEF Good, Types

\* Types, whatever crashes, expires or is released when: a runtime's lease is one that was made.
THEOREM TypeCorrect == Spec => []TypeOK
<1>1. Good => TypeOK
  BY DEF Good, Types, FileTypes, CallTypes, HandTypes, PastTypes, Runtimes, Switches, TypeOK
<1> QED
  BY <1>1, GoodInit, GoodStep, PTL DEF Spec

-----------------------------------------------------------------------------
(* Processes and the files *)

\* A process that ended has nothing in hand.
DeadOK(p) == ~alive[p] => /\ call[p] = NoCall /\ runtime[p] = NoRuntime
                          /\ \A i \in Slots : switches[p][i] = NoSwitch
DeadInv == \A p \in Processes : DeadOK(p)

\* A file names a lease of its path, and the life of a pid that began.
OwnerOK(f) == owner[f] \in {Free, Bare} \/
    /\ owner[f].token \in Leased /\ made[owner[f].token] = f
    /\ owner[f].pid \in Processes /\ owner[f].life <= life[owner[f].pid]
OwnerInv == \A f \in Paths : OwnerOK(f)

Mine(t, p) == [token |-> t, pid |-> p, life |-> life[p]]
Inside(p, f) == call[p].kind # "none" /\ call[p].path = f /\ call[p].step # "guard"

\* Lives begin and end in End and Start only.
LEMMA LivesMove ==
    ASSUME Types, NEW p \in Processes, Acts(p)
    PROVE  /\ Process(p) \/ UNCHANGED processVars
           /\ \A q \in Processes : life[q] <= life'[q]
           /\ \A q \in Processes : p # q => alive'[q] = alive[q] /\ life'[q] = life[q]
<1> USE DEF Types, FileTypes
<1>1. CASE ~Process(p)
  <2>1. UNCHANGED processVars
    BY <1>1 DEF Acts, Acquiring, AcquireEnters, AcquireGivesUp, Rename, RenameFails, Reclaim,
       AcquireReturns, EnterGuard, Releasing, ReleaseEnters, ReleaseGivesUp, RemoveOwner,
       RemoveDirectory, ReleaseReturns, Runtime, Open, Opened, OpenFails, Dispose, Disposed,
       SwitchBack, TearDown, SwitchFails, Build, Switch
  <2> QED
    BY <2>1 DEF processVars
<1>2. CASE End(p)
  <2>1. life' = life /\ alive' = [alive EXCEPT ![p] = FALSE]
    BY <1>2 DEF End
  <2>2. \A q \in Processes : life[q] <= life'[q]
    BY <2>1
  <2>3. \A q \in Processes : p # q => alive'[q] = alive[q] /\ life'[q] = life[q]
    BY <2>1
  <2>4. Process(p)
    BY <1>2, Zenon DEF Process
  <2> QED
    BY <2>2, <2>3, <2>4
<1>3. CASE Start(p)
  <2>1. life' = [life EXCEPT ![p] = @ + 1] /\ alive' = [alive EXCEPT ![p] = TRUE]
    BY <1>3 DEF Start
  <2>2. \A q \in Processes : life[q] <= life'[q]
    BY <2>1
  <2>3. \A q \in Processes : p # q => alive'[q] = alive[q] /\ life'[q] = life[q]
    BY <2>1
  <2>4. Process(p)
    BY <1>3, Zenon DEF Process
  <2> QED
    BY <2>2, <2>3, <2>4
<1> QED
  BY <1>1, <1>2, <1>3, Zenon DEF Process

\* A process ends in the middle of a call or a switch, and leaves nothing in memory.
LEMMA DeadStep == Types /\ DeadInv /\ [Next]_vars => DeadInv'
<1> SUFFICES ASSUME Types, DeadInv, [Next]_vars PROVE DeadInv'
  OBVIOUS
<1>1. ASSUME NEW p \in Processes, Acts(p), NEW q \in Processes, p # q PROVE DeadOK(q)'
  BY <1>1, OthersStay, LivesMove DEF DeadInv, DeadOK
<1>2. ASSUME NEW p \in Processes, Acquiring(p) \/ Releasing(p) PROVE DeadOK(p)'
  <2>1. call[p].kind # "none"
    BY <1>2 DEF Acquiring, AcquireEnters, AcquireGivesUp, Rename, RenameFails, Reclaim,
       AcquireReturns, At, Releasing, ReleaseEnters, ReleaseGivesUp, RemoveOwner,
       RemoveDirectory, ReleaseReturns
  <2>2. alive[p]
    BY <2>1 DEF DeadInv, DeadOK, NoCall
  <2>3. UNCHANGED alive
    BY <1>2 DEF Acquiring, AcquireEnters, AcquireGivesUp, Rename, RenameFails, Reclaim,
       AcquireReturns, EnterGuard, Releasing, ReleaseEnters, ReleaseGivesUp, RemoveOwner,
       RemoveDirectory, ReleaseReturns, processVars
  <2> QED
    BY <2>2, <2>3 DEF DeadOK
<1>3. ASSUME NEW p \in Processes, Runtime(p) PROVE DeadOK(p)'
  <2>1. alive[p] /\ UNCHANGED alive
    BY <1>3 DEF Runtime, Open, Opened, OpenFails, Dispose, Disposed,
       SwitchBack, TearDown, SwitchFails, Build, Switch, Running, processVars
  <2> QED
    BY <2>1 DEF DeadOK
<1>4. ASSUME NEW p \in Processes, Process(p) PROVE DeadOK(p)'
  <2>1. CASE Start(p)
    BY <2>1 DEF Start, DeadOK, Types, FileTypes
  <2>2. CASE End(p)
    BY <2>2 DEF End, DeadOK, Types, CallTypes, HandTypes
  <2> QED
    BY <1>4, <2>1, <2>2 DEF Process
<1>5. ASSUME NEW p \in Processes, Acts(p) PROVE DeadInv'
  BY <1>1, <1>2, <1>3, <1>4, <1>5 DEF Acts, DeadInv
<1>6. CASE (\E f \in Paths : GuardExpires(f)) \/ UNCHANGED vars
  <2>1. UNCHANGED <<alive, call, runtime, switches>>
    BY <1>6 DEF GuardExpires, vars, processVars, runtimeVars
  <2> QED
    BY <2>1 DEF DeadInv, DeadOK
<1> QED
  BY <1>5, <1>6 DEF Next, Acts

\* A directory changes only behind its guard.
LEMMA OwnerMoves ==
    ASSUME Types, NEW p \in Processes, Acts(p), NEW f \in Paths, owner'[f] # owner[f]
    PROVE  /\ Inside(p, f) /\ UNCHANGED <<processVars, runtimeVars, released, gaveUp, guard, overtaken>>
           /\ \/ /\ Rename(p) /\ owner[f] \in {Free, Bare} /\ owner'[f] = Mine(Len(made) + 1, p)
                 /\ made' = Append(made, f)
              \/ Reclaim(p) /\ owner'[f] = Free /\ UNCHANGED made
              \/ RemoveOwner(p) /\ owner'[f] \in {Free, Bare} /\ UNCHANGED made
              \/ RemoveDirectory(p) /\ owner[f] = Bare /\ owner'[f] = Free /\ UNCHANGED made
<1> USE DEF Types, FileTypes
<1>1. CASE ~(Rename(p) \/ Reclaim(p) \/ RemoveOwner(p) \/ RemoveDirectory(p))
  <2>1. UNCHANGED owner
    BY <1>1 DEF Acts, Acquiring, AcquireEnters, AcquireGivesUp, RenameFails,
       AcquireReturns, EnterGuard, LeaveGuard, Releasing, ReleaseEnters, ReleaseGivesUp,
       ReleaseReturns, Runtime, Open, Opened, OpenFails, Dispose, Disposed,
       SwitchBack, TearDown, SwitchFails, Build, Switch, Process, End, Start, fileVars
  <2> QED
    BY <2>1
<1>2. CASE Rename(p)
  <2>1. call[p].path = f
    BY <1>2 DEF Rename
  <2> QED
    BY <1>2, <2>1 DEF Rename, At, Inside, Mine
<1>3. CASE Reclaim(p)
  <2>1. call[p].path = f
    BY <1>3 DEF Reclaim
  <2> QED
    BY <1>3, <2>1 DEF Reclaim, At, Inside, leaseVars
<1>4. CASE RemoveOwner(p)
  <2>1. call[p].path = f
    BY <1>4 DEF RemoveOwner
  <2> QED
    BY <1>4, <2>1 DEF RemoveOwner, At, Inside, leaseVars
<1>5. CASE RemoveDirectory(p)
  <2>1. call[p].path = f
    BY <1>5 DEF RemoveDirectory
  <2>2. owner[f] = Bare
    BY <1>5, <2>1 DEF RemoveDirectory
  <2> QED
    BY <1>5, <2>1, <2>2 DEF RemoveDirectory, At, Inside, leaseVars
<1> QED
  BY <1>1, <1>2, <1>3, <1>4, <1>5

\* No directory names a lease of another path, nor a life that has not begun.
LEMMA OwnerStep == Types /\ Types' /\ OwnerInv /\ [Next]_vars => OwnerInv'
<1> SUFFICES ASSUME Types, Types', OwnerInv, [Next]_vars, NEW f \in Paths PROVE OwnerOK(f)'
  BY DEF OwnerInv
<1>a. Leased \subseteq Leased' /\ \A t \in Leased : made'[t] = made[t]
  BY MadeGrows
<1>1. ASSUME NEW p \in Processes, Acts(p), owner'[f] = owner[f] PROVE OwnerOK(f)'
  <2>1. CASE owner[f] \in {Free, Bare}
    BY <1>1, <2>1 DEF OwnerOK, Free, Bare
  <2>2. CASE owner[f] \notin {Free, Bare}
    <3>1. owner[f].life <= life'[owner[f].pid]
      <4>1. owner[f].pid \in Processes /\ owner[f].life <= life[owner[f].pid]
        BY <2>2 DEF OwnerInv, OwnerOK
      <4>2. life[owner[f].pid] <= life'[owner[f].pid] 
        BY <1>1, <4>1, LivesMove
      <4>3. life[owner[f].pid] \in Nat /\ life'[owner[f].pid] \in Nat /\ owner[f].life \in Nat
        BY <4>1 DEF Types, FileTypes, Owners
      <4> QED
        BY <4>1, <4>2, <4>3
    <3> QED
      BY <1>1, <1>a, <2>2, <3>1 DEF OwnerInv, OwnerOK
  <2> QED
    BY <2>1, <2>2
<1>2. ASSUME NEW p \in Processes, Acts(p), owner'[f] # owner[f] PROVE OwnerOK(f)'
  <2>1. CASE owner'[f] \in {Free, Bare}
    BY <2>1 DEF OwnerOK, Free, Bare
  <2>2. CASE owner'[f] \notin {Free, Bare}
    <3>1. /\ owner'[f] = Mine(Len(made) + 1, p) /\ made' = Append(made, f)
          /\ UNCHANGED processVars
      BY <1>2, <2>2, OwnerMoves
    <3>2. Len(made) + 1 \in Leased' /\ made'[Len(made) + 1] = f
      BY <3>1 DEF Types, FileTypes, Leased
    <3>3. owner'[f].token = Len(made) + 1 /\ owner'[f].pid = p /\ owner'[f].life = life[p]
      BY <3>1 DEF Mine
    <3>4. life[p] \in Nat /\ life'[p] = life[p]
      BY <3>1 DEF Types, FileTypes, processVars
    <3> QED
      BY <3>2, <3>3, <3>4 DEF OwnerOK
  <2> QED
    BY <2>1, <2>2
<1>3. CASE (\E g \in Paths : GuardExpires(g)) \/ UNCHANGED vars
  <2>1. UNCHANGED <<owner, made, life>>
    BY <1>3 DEF GuardExpires, vars, processVars, leaseVars, fileVars
  <2> QED
    BY <2>1 DEF OwnerInv, OwnerOK, Leased
<1> QED
  BY <1>1, <1>2, <1>3 DEF Next, Acts

\* A runtime's lease is not released, but for one that was adopted after its release.
AdoptInv == adopted \/ \A p \in Processes : runtime[p].lease \notin released

\* Build and SwitchFails compare with the runtime's lease before they release.
LEMMA AdoptStep ==
    Types /\ AcquireInv /\ ApartInv /\ AdoptInv /\ [Next]_vars => AdoptInv'
<1> SUFFICES ASSUME Types, AcquireInv, ApartInv, AdoptInv, [Next]_vars, ~adopted'
             PROVE  \A p \in Processes : runtime'[p].lease \notin released'
  BY DEF AdoptInv
<1>a. 0 \notin released /\ 0 \notin Leased
  BY DEF Types, FileTypes, Leased
<1>b. ASSUME NEW p \in Processes
      PROVE  /\ runtime[p] \in Runtimes /\ runtime[p].lease \in {0} \cup Leased
             /\ \A i \in Slots : switches[p][i].lease \in {0} \cup Leased
  BY DEF Types, HandTypes, Runtimes, Switches
<1>0. ~adopted /\ \A p \in Processes : runtime[p].lease \notin released
  <2>1. adopted => adopted'
    <3>1. CASE \E p \in Processes, i \in Slots : Build(p, i)
      BY <3>1, Zenon DEF Build
    <3>2. CASE ~\E p \in Processes, i \in Slots : Build(p, i)
      <4>1. UNCHANGED adopted
        <5>1. ASSUME NEW p \in Processes, Acquiring(p) \/ Releasing(p) PROVE UNCHANGED adopted
          BY <5>1 DEF Acquiring, AcquireEnters, AcquireGivesUp, Rename, RenameFails, Reclaim,
             AcquireReturns, EnterGuard, Releasing, ReleaseEnters, ReleaseGivesUp, RemoveOwner,
             RemoveDirectory, ReleaseReturns, runtimeVars
        <5>2. ASSUME NEW p \in Processes, Runtime(p) \/ Process(p) PROVE UNCHANGED adopted
          BY <3>2, <5>2 DEF Runtime, Open, Opened, OpenFails, Dispose, Disposed, SwitchBack, TearDown,
             SwitchFails, Switch, Process, End, Start, runtimeVars
        <5>3. CASE (\E f \in Paths : GuardExpires(f)) \/ UNCHANGED vars
          BY <5>3 DEF GuardExpires, runtimeVars, vars
        <5> QED
          BY <5>1, <5>2, <5>3 DEF Next
      <4> QED
        BY <4>1
    <3> QED
      BY <3>1, <3>2
  <2> QED
    BY <2>1 DEF AdoptInv
<1>1. ASSUME NEW p \in Processes, Acts(p), NEW q \in Processes, p # q
      PROVE  runtime'[q].lease \notin released'
  <2>1. runtime'[q] = runtime[q] /\ released' \subseteq released \cup Kept(p)
    BY <1>1, OthersStay, LeasesMove
  <2>2. runtime[q].lease = 0 \/ runtime[q].lease \in Kept(q)
    BY DEF Kept
  <2>3. 0 \notin Kept(p)
    BY DEF Kept
  <2> QED
    BY <1>0, <1>1, <1>a, <2>1, <2>2, <2>3 DEF ApartInv
<1>2. ASSUME NEW p \in Processes, UNCHANGED <<released, runtime>>
      PROVE  runtime'[p].lease \notin released'
  BY <1>0, <1>2
<1>3. ASSUME NEW p \in Processes, Acquiring(p) PROVE runtime'[p].lease \notin released'
  <2>1. UNCHANGED released
    BY <1>3 DEF Acquiring, AcquireEnters, AcquireGivesUp, Rename, RenameFails, Reclaim,
         AcquireReturns, EnterGuard, leaseVars
  <2>2. CASE AcquireReturns(p) \/ AcquireGivesUp(p)
    <3>1. runtime'[p].lease \in {0, call[p].token, runtime[p].lease}
      BY <2>2 DEF AcquireReturns, AcquireGivesUp, Granted, Refused, NoRuntime, Types, HandTypes
    <3>2. call[p].token \notin released
      BY <1>a, <2>2 DEF AcquireReturns, AcquireGivesUp, At, AcquireInv, AcquireOK
    <3> QED
      BY <1>0, <1>a, <2>1, <3>1, <3>2
  <2>3. CASE ~(AcquireReturns(p) \/ AcquireGivesUp(p))
    BY <1>2, <1>3, <2>1, <2>3 DEF Acquiring, AcquireEnters, Rename, RenameFails, Reclaim,
         EnterGuard, runtimeVars
  <2> QED
    BY <2>2, <2>3
<1>4. ASSUME NEW p \in Processes, Releasing(p) PROVE runtime'[p].lease \notin released'
  BY <1>2, <1>4 DEF Releasing, ReleaseEnters, EnterGuard, ReleaseGivesUp, RemoveOwner,
     RemoveDirectory, ReleaseReturns, runtimeVars, leaseVars
<1>5. ASSUME NEW p \in Processes, Runtime(p) PROVE runtime'[p].lease \notin released'
  <2>1. ASSUME NEW t \in {0} \cup Leased, CallRelease(p, t)
        PROVE  released' = (released \cup {t}) \ {0}
    BY <2>1 DEF CallRelease
  <2>2. CASE OpenFails(p) \/ Disposed(p)
    <3>1. runtime'[p].lease = 0
      BY <1>b, <2>2 DEF OpenFails, Disposed, NoRuntime, Types, HandTypes, Runtimes
    <3>2. 0 \notin released'
      BY <1>b, <2>1, <2>2 DEF OpenFails, Disposed
    <3> QED
      BY <3>1, <3>2
  <2>3. ASSUME NEW i \in Slots, SwitchFails(p, i) PROVE runtime'[p].lease \notin released'
    BY <1>0, <1>b, <2>1, <2>3 DEF SwitchFails, leaseVars
  <2>4. ASSUME NEW i \in Slots, Build(p, i) PROVE runtime'[p].lease \notin released'
    <3> DEFINE t == switches[p][i].lease
    <3>1. t \notin released
      BY <2>4, Zenon DEF Build
    <3>2. runtime'[p].lease = t
      BY <1>b, <2>4 DEF Build, Types, HandTypes, Runtimes
    <3>3. t # runtime[p].lease => released' = (released \cup {runtime[p].lease}) \ {0}
      BY <2>4 DEF Build, CallRelease
    <3>4. t = runtime[p].lease => UNCHANGED released
      BY <2>4 DEF Build, leaseVars
    <3> QED
      BY <3>1, <3>2, <3>3, <3>4
  <2>5. CASE Opened(p) \/ Dispose(p) \/ \E f \in Paths : Open(p, f)
    <3>1. UNCHANGED released
      BY <2>5 DEF Opened, Dispose, Open, leaseVars
    <3>2. runtime'[p].lease = runtime[p].lease
      <4>1. CASE Opened(p)
        BY <1>b, <4>1 DEF Opened, Types, HandTypes, Runtimes
      <4>2. CASE Dispose(p)
        BY <1>b, <4>2 DEF Dispose, Types, HandTypes, Runtimes
      <4>3. CASE \E f \in Paths : Open(p, f)
        BY <1>b, <4>3 DEF Open, Types, HandTypes, Runtimes
      <4> QED
        BY <2>5, <4>1, <4>2, <4>3
    <3> QED
      BY <1>0, <3>1, <3>2
  <2>6. ASSUME NEW i \in Slots, \/ SwitchBack(p, i) \/ TearDown(p, i)
                                \/ \E f \in Paths : Switch(p, i, f)
        PROVE  runtime'[p].lease \notin released'
    <3>1. UNCHANGED released
      BY <2>6 DEF SwitchBack, TearDown, Switch, leaseVars
    <3>2. runtime'[p] = runtime[p] \/ runtime'[p] = [runtime[p] EXCEPT !.open = FALSE]
      BY <2>6 DEF SwitchBack, TearDown, Switch, Types, HandTypes
    <3>3. runtime'[p].lease = runtime[p].lease
      BY <1>b, <3>2 DEF Runtimes
    <3> QED
      BY <1>0, <3>1, <3>3
  <2> QED
    BY <1>5, <2>2, <2>3, <2>4, <2>5, <2>6 DEF Runtime
<1>6. ASSUME NEW p \in Processes, Process(p) PROVE runtime'[p].lease \notin released'
  <2>1. CASE End(p)
    <3>1. runtime'[p].lease = 0 /\ UNCHANGED released
      BY <2>1 DEF End, leaseVars, NoRuntime, Types, HandTypes
    <3> QED
      BY <1>a, <3>1
  <2> QED
    BY <1>2, <1>6, <2>1 DEF Process, Start, runtimeVars, leaseVars
<1>7. CASE (\E f \in Paths : GuardExpires(f)) \/ UNCHANGED vars
  BY <1>2, <1>7 DEF GuardExpires, vars, runtimeVars, leaseVars
<1>8. ASSUME NEW p \in Processes, Acts(p)
      PROVE  \A q \in Processes : runtime'[q].lease \notin released'
  BY <1>1, <1>3, <1>4, <1>5, <1>6, <1>8 DEF Acts
<1> QED
  BY <1>7, <1>8 DEF Next, Acts

-----------------------------------------------------------------------------
(* Unless the guard of a running process was broken *)

\* Whoever is behind a guard has it.
GuardOK(p) == \A f \in Paths : Inside(p, f) => guard[f] = p
\* What was read of the directory behind the guard still holds.
SeenOK(p) ==
    /\ At(p, "acquire", "reclaim") => Gone(owner[call[p].path])
    /\ At(p, "release", "remove") => owner[call[p].path].token = call[p].token
    /\ call[p].kind = "release" /\ call[p].step \in {"rmdir", "leave"} =>
          owner[call[p].path].token # call[p].token
\* A lease in hand, or about to be, is on disk.
DiskOK(p) == \A t \in (Kept(p) \ released) \cup Coming(p) : owner[made[t]] = Mine(t, p)
GuardInv == \A p \in Processes : GuardOK(p)
SeenInv == \A p \in Processes : SeenOK(p)
DiskInv == \A p \in Processes : DiskOK(p)
FirmInv == overtaken \/ (GuardInv /\ SeenInv /\ DiskInv)

\* Once broken, a guard was broken.
LEMMA OvertakenStays == [Next]_vars /\ overtaken => overtaken'
<1> SUFFICES ASSUME [Next]_vars, overtaken PROVE overtaken'
  OBVIOUS
<1>1. ASSUME NEW p \in Processes, NEW f, NEW step, EnterGuard(p, f, step) PROVE overtaken'
  BY <1>1, Zenon DEF EnterGuard
<1>2. ASSUME NEW p \in Processes, Acquiring(p) \/ Releasing(p) PROVE overtaken'
  <2>1. CASE AcquireEnters(p) \/ ReleaseEnters(p)
    BY <1>1, <2>1 DEF AcquireEnters, ReleaseEnters
  <2>2. CASE ~(AcquireEnters(p) \/ ReleaseEnters(p))
    BY <1>2, <2>2 DEF Acquiring, AcquireGivesUp, Rename, RenameFails, Reclaim, AcquireReturns,
       LeaveGuard, Releasing, ReleaseGivesUp, RemoveOwner, RemoveDirectory, ReleaseReturns, fileVars
  <2> QED
    BY <2>1, <2>2
<1>3. ASSUME NEW p \in Processes, Runtime(p) \/ Process(p) PROVE overtaken'
  BY <1>3 DEF Runtime, Open, Opened, OpenFails, Dispose, Disposed, SwitchBack, TearDown,
     SwitchFails, Build, Switch, Process, End, Start, fileVars
<1>4. CASE (\E f \in Paths : GuardExpires(f)) \/ UNCHANGED vars
  BY <1>4 DEF GuardExpires, vars, fileVars
<1> QED
  BY <1>2, <1>3, <1>4 DEF Next

\* How a guard changes hands.
LEMMA GuardMoves ==
    ASSUME Types, NEW p \in Processes, Acts(p), NEW f \in Paths, guard'[f] # guard[f]
    PROVE  /\ call[p].kind # "none" /\ call[p].path = f
           /\ \/ /\ AcquireEnters(p) \/ ReleaseEnters(p)
                 /\ guard'[f] = p
              \/ Inside(p, f) /\ guard'[f] = Nobody
<1> USE DEF Types, FileTypes
<1>1. CASE AcquireEnters(p) \/ ReleaseEnters(p)
  BY <1>1 DEF AcquireEnters, ReleaseEnters, EnterGuard, At
<1>2. CASE AcquireReturns(p) \/ ReleaseReturns(p)
  BY <1>2 DEF AcquireReturns, ReleaseReturns, LeaveGuard, At, Inside
<1>3. CASE ~(AcquireEnters(p) \/ ReleaseEnters(p) \/ AcquireReturns(p) \/ ReleaseReturns(p))
  <2>1. guard' = guard
    BY <1>3 DEF Acts, Acquiring, AcquireGivesUp, RenameFails, Rename, Reclaim,
       Releasing, ReleaseGivesUp, RemoveOwner, RemoveDirectory,
       Runtime, Open, Opened, OpenFails, Dispose, Disposed,
       SwitchBack, TearDown, SwitchFails, Build, Switch, Process, End, Start, fileVars
  <2> QED
    BY <2>1
<1> QED
  BY <1>1, <1>2, <1>3

\* A process comes behind a guard by taking it.
LEMMA InsideMoves ==
    ASSUME Good, NEW p \in Processes, Acts(p), NEW f \in Paths, Inside(p, f)'
    PROVE  \/ Inside(p, f) /\ guard' = guard
           \/ (AcquireEnters(p) \/ ReleaseEnters(p)) /\ guard'[f] = p
<1> USE DEF Good, Types
<1>1. CASE AcquireEnters(p) \/ ReleaseEnters(p)
  <2>1. call[p].kind # "none" /\ \E step : GoTo(p, step)
    BY <1>1 DEF AcquireEnters, ReleaseEnters, EnterGuard, At
  <2>2. call'[p].path = call[p].path
    BY <2>1, GoesTo
  <2>3. call[p].path = f
    BY <2>2 DEF Inside
  <2> QED
    BY <1>1, <2>3 DEF AcquireEnters, ReleaseEnters, EnterGuard, FileTypes
<1>2. CASE RenameFails(p) \/ RemoveOwner(p) \/ RemoveDirectory(p)
  <2>1. call[p].kind # "none" /\ call[p].step # "guard" /\ \E step : GoTo(p, step)
    BY <1>2 DEF RenameFails, RemoveOwner, RemoveDirectory, At
  <2>2. call'[p].path = call[p].path
    BY <2>1, GoesTo
  <2>3. guard' = guard
    BY <1>2 DEF RenameFails, RemoveOwner, RemoveDirectory, fileVars
  <2> QED
    BY <2>1, <2>2, <2>3 DEF Inside
<1>3. CASE Rename(p) \/ Reclaim(p)
  <2>1. call[p].kind # "none" /\ call[p].step # "guard" /\ guard' = guard
    BY <1>3 DEF Rename, Reclaim, At
  <2>2. call[p] \in Calls
    BY <2>1, InACall
  <2>3. call'[p].path = call[p].path
    <3>1. CASE Rename(p)
      BY <2>2, <3>1 DEF Rename, CallTypes, Calls
    <3>2. CASE Reclaim(p)
      BY <2>2, <3>2 DEF Reclaim, CallTypes, Calls
    <3> QED
      BY <1>3, <3>1, <3>2
  <2> QED
    BY <2>1, <2>3 DEF Inside
<1>4. CASE AcquireReturns(p) \/ AcquireGivesUp(p) \/ ReleaseGivesUp(p) \/ ReleaseReturns(p) \/ End(p)
  <2>1. call'[p] = NoCall
    BY <1>4 DEF AcquireReturns, AcquireGivesUp, ReleaseGivesUp, ReleaseReturns, End, CallTypes
  <2> QED
    BY <2>1, Kinds DEF Inside
<1>5. CASE Runtime(p)
  <2>1. call'[p].kind = "none" \/ call'[p].step = "guard"
    <3>1. \A t : ReleaseCall(t).step = "guard"
      BY DEF ReleaseCall
    <3>2. \A g, i : AcquireCall(g, i).step = "guard"
      BY DEF AcquireCall
    <3> QED
      BY <1>5, <3>1, <3>2, NewCall, Kinds
  <2> QED
    BY <2>1 DEF Inside
<1>6. CASE Start(p)
  BY <1>6 DEF Start, fileVars, Inside
<1> QED
  BY <1>1, <1>2, <1>3, <1>4, <1>5, <1>6 DEF Acts, Acquiring, Releasing, Process

\* Until a guard is broken, one process at most is behind it.
LEMMA GuardStep ==
    ASSUME Good, DeadInv, GuardInv, [Next]_vars, ~overtaken' PROVE GuardInv'
<1> SUFFICES ASSUME NEW f \in Paths, NEW q \in Processes, Inside(q, f)' PROVE guard'[f] = q
  BY DEF GuardInv, GuardOK
<1>1. ASSUME NEW p \in Processes, Acts(p) PROVE guard'[f] = q
  <2>1. CASE p = q
    BY <1>1, <2>1, InsideMoves DEF GuardInv, GuardOK
  <2>2. CASE p # q
    <3>1. Inside(q, f)
      BY <1>1, <2>2, OthersStay DEF Good, Inside
    <3>2. guard[f] = q /\ q # Nobody /\ alive[q]
      BY <3>1, NobodyAssumption DEF GuardInv, GuardOK, DeadInv, DeadOK, Inside, NoCall
    <3>3. CASE guard'[f] # guard[f]
      <4>1. call[p].path = f /\ ~Inside(p, f)
        BY <1>1, <2>2, <3>2, <3>3, GuardMoves DEF GuardInv, GuardOK, Good
      <4>2. EnterGuard(p, f, call'[p].step) \/ \E step : EnterGuard(p, f, step)
        BY <1>1, <3>3, <4>1, GuardMoves DEF AcquireEnters, ReleaseEnters, Good
      <4>3. \E step : EnterGuard(p, f, step)
        BY <4>2
      <4>4. overtaken'
        BY <3>1, <3>2, <4>3 DEF EnterGuard, Inside
      <4> QED
        BY <4>4
    <3> QED
      BY <3>2, <3>3
  <2> QED
    BY <2>1, <2>2
<1>2. CASE (\E g \in Paths : GuardExpires(g)) \/ UNCHANGED vars
  <2>1. UNCHANGED <<guard, call>>
    BY <1>2 DEF GuardExpires, vars, fileVars
  <2> QED
    BY <2>1 DEF GuardInv, GuardOK, Inside
<1> QED
  BY <1>1, <1>2 DEF Next, Acts

\* A process that is gone does not come back: its pid begins another life.
LEMMA GoneStays ==
    ASSUME Types, OwnerInv, NEW p \in Processes, Acts(p), NEW f \in Paths, Gone(owner[f]),
           owner'[f] = owner[f]
    PROVE  Gone(owner[f])'
<1> SUFFICES ASSUME NEW q \in Processes, owner[f].pid = q, alive'[q], owner[f].life = life'[q]
             PROVE  FALSE
  BY DEF Gone
<1>1. CASE ~Start(p) \/ p # q
  <2>1. life'[q] = life[q] /\ (alive'[q] => alive[q])
    <3>1. CASE Process(p)
      BY <1>1, <3>1, LivesMove DEF Process, End, Types, FileTypes
    <3>2. CASE ~Process(p)
      BY <3>2, LivesMove DEF processVars
    <3> QED
      BY <3>1, <3>2
  <2> QED
    BY <2>1 DEF Gone
<1>2. CASE Start(p) /\ p = q
  <2>1. life'[q] = life[q] + 1 /\ life[q] \in Nat
    BY <1>2 DEF Start, Types, FileTypes
  <2>2. owner[f] \notin {Free, Bare}
    BY NobodyAssumption DEF Free, Bare
  <2>3. owner[f].life <= life[q] /\ owner[f].life \in Nat
    BY <2>2 DEF OwnerInv, OwnerOK, Types, FileTypes, Owners
  <2> QED
    BY <2>1, <2>3
<1> QED
  BY <1>1, <1>2

\* What was read behind the guard stays true until it is acted upon.
LEMMA SeenStep ==
    ASSUME Good, DeadInv, OwnerInv, GuardInv, SeenInv, [Next]_vars PROVE SeenInv'
<1> USE DEF Good
<1>1. ASSUME NEW p \in Processes, Acts(p), NEW q \in Processes, p # q PROVE SeenOK(q)'
  <2>1. call'[q] = call[q]
    BY <1>1, OthersStay
  <2>2. CASE call[q].kind # "none" /\ call[q].step # "guard"
    <3>1. PICK f \in Paths : f = call[q].path /\ Inside(q, f)
      BY <2>2, InACall DEF Types, Inside
    <3>2. ~Inside(p, f)
      BY <1>1, <3>1 DEF GuardInv, GuardOK
    <3>3. owner'[f] = owner[f]
      BY <1>1, <3>1, <3>2, OwnerMoves
    <3>4. Gone(owner[f]) => Gone(owner[f])'
      BY <1>1, <3>1, <3>3, GoneStays
    <3>5. SeenOK(q)
      BY DEF SeenInv
    <3> QED
      BY <2>1, <3>1, <3>3, <3>4, <3>5 DEF SeenOK, At, Gone
  <2>3. CASE ~(call[q].kind # "none" /\ call[q].step # "guard")
    BY <2>1, <2>3 DEF SeenOK, At
  <2> QED
    BY <2>2, <2>3
<1>2. ASSUME NEW p \in Processes, Acquiring(p) PROVE SeenOK(p)'
  <2>1. call[p].kind = "acquire" /\ call[p] \in Calls
    BY <1>2, InACall DEF Types, Acquiring, AcquireEnters, AcquireGivesUp, Rename, RenameFails, Reclaim,
         AcquireReturns, At
  <2>2. ASSUME NEW step, GoTo(p, step), step # "reclaim" PROVE SeenOK(p)'
    BY <2>1, <2>2, GoesTo DEF SeenOK, At
  <2>3. CASE AcquireEnters(p)
    BY <2>2, <2>3 DEF AcquireEnters, EnterGuard
  <2>4. CASE RenameFails(p)
    <3>1. CASE GoTo(p, "leave")
      BY <2>2, <3>1
    <3>2. CASE GoTo(p, "reclaim") /\ Gone(owner[call[p].path])
      <4>1. call'[p].kind = "acquire" /\ call'[p].path = call[p].path
        BY <2>1, <3>2, GoesTo
      <4>2. UNCHANGED <<owner, alive, life>>
        BY <2>4 DEF RenameFails, processVars, fileVars
      <4>3. Gone(owner[call[p].path])'
        BY <3>2, <4>1, <4>2 DEF Gone
      <4> QED
        BY <4>1, <4>3 DEF SeenOK, At
    <3> QED
      BY <2>4, <3>1, <3>2 DEF RenameFails
  <2>5. CASE Rename(p) \/ Reclaim(p)
    <3>1. call'[p].kind = "acquire" /\ call'[p].step # "reclaim"
      <4>1. CASE Rename(p)
        BY <2>1, <4>1 DEF Rename, Types, CallTypes, Calls
      <4>2. CASE Reclaim(p)
        <5> DEFINE step == IF call[p].tries < 2 THEN "try" ELSE "leave"
        <5>1. call'[p] = [call[p] EXCEPT !.step = step, !.tries = call[p].tries + 1]
          BY <4>2 DEF Reclaim, Types, CallTypes
        <5>2. call'[p].kind = "acquire" /\ call'[p].step = step
          BY <2>1, <5>1 DEF Calls
        <5> QED
          BY <5>2
      <4> QED
        BY <2>5, <4>1, <4>2
    <3> QED
      BY <3>1 DEF SeenOK, At
  <2>6. CASE AcquireReturns(p) \/ AcquireGivesUp(p)
    <3>1. call'[p] = NoCall
      BY <2>6 DEF AcquireReturns, AcquireGivesUp, Types, CallTypes
    <3> QED
      BY <3>1, Kinds DEF SeenOK, At
  <2> QED
    BY <1>2, <2>3, <2>4, <2>5, <2>6 DEF Acquiring
<1>3. ASSUME NEW p \in Processes, Releasing(p) PROVE SeenOK(p)'
  <2> DEFINE f == call[p].path
  <2>1. /\ call[p].kind = "release" /\ call[p] \in Calls /\ f \in Paths
        /\ call[p].token # 0 /\ SeenOK(p)
    BY <1>3, InACall DEF Types, FileTypes, Leased, ReleaseInv, ReleaseOK, Releasing, ReleaseEnters,
       ReleaseGivesUp, RemoveOwner, RemoveDirectory, ReleaseReturns, At, SeenInv
  <2>2. ASSUME NEW step, GoTo(p, step)
        PROVE  /\ call'[p].kind = "release" /\ call'[p].path = f /\ call'[p].token = call[p].token
               /\ call'[p].step = step
    BY <2>1, <2>2, GoesTo
  <2>3. CASE ReleaseEnters(p)
    <3>1. UNCHANGED owner
      BY <2>3 DEF ReleaseEnters, EnterGuard
    <3>2. GoTo(p, IF owner[f].token = call[p].token THEN "remove" ELSE "leave")
      BY <2>3 DEF ReleaseEnters, EnterGuard
    <3> QED
      BY <2>2, <3>1, <3>2 DEF SeenOK, At
  <2>4. CASE RemoveOwner(p)
    <3>1. owner'[f].token = 0 /\ GoTo(p, "rmdir")
      BY <2>1, <2>4 DEF RemoveOwner, Free, Bare, Types, FileTypes
    <3> QED
      BY <2>1, <2>2, <3>1 DEF SeenOK, At
  <2>5. CASE RemoveDirectory(p)
    <3>1. owner'[f].token = 0 \/ owner'[f] = owner[f]
      BY <2>1, <2>5 DEF RemoveDirectory, Free, Types, FileTypes
    <3>2. GoTo(p, "leave") /\ owner[f].token # call[p].token
      BY <2>1, <2>5 DEF RemoveDirectory, SeenOK, At
    <3> QED
      BY <2>1, <2>2, <3>1, <3>2 DEF SeenOK, At
  <2>6. CASE ReleaseGivesUp(p) \/ ReleaseReturns(p)
    <3>1. call'[p] = NoCall
      BY <2>6 DEF ReleaseGivesUp, ReleaseReturns, Types, CallTypes
    <3> QED
      BY <3>1, Kinds DEF SeenOK, At
  <2> QED
    BY <1>3, <2>3, <2>4, <2>5, <2>6 DEF Releasing
<1>4. ASSUME NEW p \in Processes, Runtime(p) PROVE SeenOK(p)'
  <2>1. call'[p].kind = "none" \/ call'[p].step = "guard"
    <3>1. \A t : ReleaseCall(t).step = "guard"
      BY DEF ReleaseCall
    <3>2. \A g, i : AcquireCall(g, i).step = "guard"
      BY DEF AcquireCall
    <3> QED
      BY <1>4, <3>1, <3>2, NewCall, Kinds
  <2> QED
    BY <2>1 DEF SeenOK, At
<1>5. ASSUME NEW p \in Processes, Process(p) PROVE SeenOK(p)'
  <2>1. call'[p] = NoCall
    BY <1>5 DEF Process, End, Start, Types, CallTypes, DeadInv, DeadOK
  <2> QED
    BY <2>1, Kinds DEF SeenOK, At
<1>6. ASSUME NEW p \in Processes, Acts(p) PROVE SeenInv'
  BY <1>1, <1>2, <1>3, <1>4, <1>5, <1>6 DEF Acts, SeenInv
<1>7. CASE (\E f \in Paths : GuardExpires(f)) \/ UNCHANGED vars
  <2>1. UNCHANGED <<owner, alive, life, call>>
    BY <1>7 DEF GuardExpires, vars, fileVars, processVars
  <2> QED
    BY <2>1 DEF SeenInv, SeenOK, At, Gone
<1> QED
  BY <1>6, <1>7 DEF Next, Acts

\* No directory with a lease in hand is reclaimed, removed or replaced.
LEMMA DiskStep ==
    ASSUME Good, DeadInv, OwnerInv, SeenInv, DiskInv, [Next]_vars PROVE DiskInv'
<1> USE DEF Good
<1> DEFINE Has(q) == (Kept(q) \ released) \cup Coming(q)
<1>a. ASSUME NEW q \in Processes, NEW t \in Has(q)
      PROVE  /\ alive[q] /\ t \in Leased /\ t \notin released
             /\ made[t] \in Paths /\ made'[t] = made[t] /\ owner[made[t]] = Mine(t, q)
  <2>1. t \in Leased /\ t \notin released
    <3>1. \A i \in Slots : switches[q][i].lease \in {0} \cup Leased
      BY DEF Types, HandTypes, Switches
    <3>2. runtime[q].lease \in {0} \cup Leased
      BY DEF Types, HandTypes, Runtimes
    <3>3. Kept(q) \subseteq Leased
      BY <3>1, <3>2 DEF Kept
    <3>4. t \in Coming(q) => t \in Leased /\ t \notin released
      BY InACall DEF Types, Coming, AcquireInv, AcquireOK
    <3> QED
      BY <3>3, <3>4
  <2>2. alive[q]
    <3>1. NoRuntime.lease = 0 /\ NoSwitch.lease = 0
      BY DEF NoRuntime, NoSwitch
    <3> QED
      BY <3>1, Kinds DEF DeadInv, DeadOK, Kept, Coming
  <2>3. made'[t] = made[t] /\ made[t] \in Paths
    <3>1. made[t] \in Paths
      BY <2>1 DEF Types, FileTypes, Leased
    <3> QED
      BY <2>1, <3>1, MadeGrows
  <2>4. owner[made[t]] = Mine(t, q)
    BY DEF DiskInv, DiskOK
  <2> QED
    BY <2>1, <2>2, <2>3, <2>4
<1>1. ASSUME NEW p \in Processes, Acts(p), NEW q \in Processes, NEW t \in Has(q)',
             t \in Has(q)
      PROVE  owner'[made'[t]] = Mine(t, q)'
  <2> DEFINE f == made[t]
  <2>1. alive[q] /\ t \in Leased /\ t \notin released /\ f \in Paths /\ made'[t] = f /\ owner[f] = Mine(t, q)
    BY <1>1, <1>a
  <2>2. owner[f].token = t /\ owner[f].pid = q /\ owner[f].life = life[q] /\ t # 0
    BY <2>1 DEF Mine, Leased, Types, FileTypes
  <2>3. owner'[f] = owner[f]
    <3>1. owner[f] \notin {Free, Bare}
      BY <2>2 DEF Free, Bare
    <3>2. ~Gone(owner[f])
      BY <2>1, <2>2 DEF Gone
    <3>3. ASSUME owner'[f] # owner[f] PROVE FALSE
      <4>1. Inside(p, f) /\ (Reclaim(p) \/ RemoveOwner(p))
        BY <1>1, <2>1, <3>1, <3>3, OwnerMoves
      <4>2. call[p].path = f
        BY <4>1 DEF Inside
      <4>3. CASE Reclaim(p)
        BY <3>2, <4>2, <4>3 DEF Reclaim, SeenInv, SeenOK
      <4>4. CASE RemoveOwner(p)
        BY <2>1, <2>2, <4>2, <4>4 DEF RemoveOwner, At, SeenInv, SeenOK, ReleaseInv, ReleaseOK
      <4> QED
        BY <4>1, <4>3, <4>4
    <3> QED
      BY <3>3
  <2>4. life'[q] = life[q]
    <3>1. CASE Start(p) /\ p = q
      BY <2>1, <3>1 DEF Start
    <3>2. CASE ~(Start(p) /\ p = q)
      BY <1>1, <3>2, LivesMove DEF Process, End, processVars
    <3> QED
      BY <3>1, <3>2
  <2> QED
    BY <2>1, <2>3, <2>4 DEF Mine
<1>2. ASSUME NEW p \in Processes, Acts(p), NEW q \in Processes, NEW t \in Has(q)',
             t \notin Has(q)
      PROVE  owner'[made'[t]] = Mine(t, q)'
  <2>1. p = q
    <3>1. CASE p # q
      <4>1. Kept(q)' = Kept(q) /\ Coming(q)' = Coming(q)
        BY <1>2, <3>1, OthersStay DEF Kept, Coming
      <4>2. released \subseteq released'
        BY <1>2, LeasesMove
      <4> QED
        BY <1>2, <4>1, <4>2
    <3> QED
      BY <3>1
  <2>2. Rename(p) /\ t = Len(made) + 1
    BY <1>2, <2>1, LeasesMove
  <2>3. call[p].path \in Paths
    BY <2>2, InACall DEF Types, Rename, At
  <2>4. /\ made' = Append(made, call[p].path) /\ UNCHANGED life
        /\ owner' = [owner EXCEPT ![call[p].path] = Mine(t, p)]
    BY <2>2 DEF Rename, Mine, processVars
  <2>5. made'[t] = call[p].path
    BY <2>2, <2>3, <2>4 DEF Types, FileTypes
  <2>6. owner'[made'[t]] = Mine(t, p)
    BY <2>3, <2>4, <2>5 DEF Types, FileTypes
  <2> QED
    BY <2>1, <2>4, <2>6 DEF Mine
<1>3. CASE (\E f \in Paths : GuardExpires(f)) \/ UNCHANGED vars
  <2>1. UNCHANGED <<owner, made, released, life, call, runtime, switches>>
    BY <1>3 DEF GuardExpires, vars, fileVars, processVars, leaseVars, runtimeVars
  <2> QED
    BY <2>1 DEF DiskInv, DiskOK, Kept, Coming, Mine
<1>4. ASSUME NEW p \in Processes, Acts(p) PROVE DiskInv'
  BY <1>1, <1>2, <1>4 DEF DiskInv, DiskOK
<1> QED
  BY <1>3, <1>4 DEF Next, Acts

-----------------------------------------------------------------------------
Sound == Good /\ DeadInv /\ OwnerInv /\ AdoptInv /\ FirmInv

\* The inductive invariant of the safety properties, at the start ...
LEMMA SoundInit == Init => Sound
<1> SUFFICES ASSUME Init PROVE Sound
  OBVIOUS
<1>1. \A p \in Processes : alive[p] /\ call[p] = NoCall /\ runtime[p] = NoRuntime
                           /\ \A i \in Slots : switches[p][i] = NoSwitch
  BY DEF Init
<1>2. DeadInv
  BY <1>1 DEF DeadInv, DeadOK
<1>3. OwnerInv /\ AdoptInv
  BY DEF Init, OwnerInv, OwnerOK, AdoptInv, Free
<1>4. GuardInv /\ SeenInv
  BY <1>1, Kinds DEF GuardInv, GuardOK, Inside, SeenInv, SeenOK, At
<1>5. \A p \in Processes : Coming(p) = {} /\ Kept(p) = {}
  BY <1>1, Kinds DEF Coming, Kept, NoRuntime, NoSwitch
<1> QED
  BY <1>2, <1>3, <1>4, <1>5, GoodInit DEF Sound, FirmInv, DiskInv, DiskOK

\* ... and after each step.
LEMMA SoundStep == Sound /\ [Next]_vars => Sound'
<1> SUFFICES ASSUME Sound, [Next]_vars PROVE Sound'
  OBVIOUS
<1>1. Good'
  BY GoodStep DEF Sound
<1>2. DeadInv' /\ OwnerInv' /\ AdoptInv'
  BY <1>1, DeadStep, OwnerStep, AdoptStep DEF Sound, Good
<1>3. FirmInv'
  <2>1. CASE overtaken'
    BY <2>1, Zenon DEF FirmInv
  <2>2. CASE ~overtaken'
    <3>1. GuardInv /\ SeenInv /\ DiskInv
      BY <2>2, OvertakenStays, Zenon DEF Sound, FirmInv
    <3> QED
      BY <2>2, <3>1, GuardStep, SeenStep, DiskStep DEF Sound, FirmInv
  <2> QED
    BY <2>1, <2>2
<1> QED
  BY <1>1, <1>2, <1>3 DEF Sound

\* Whoever has a lease in hand owns the directory of its transcript, although directories
\* are reclaimed while their owners run, crash, and have their pids used again.
THEOREM LeasesAreOnDisk == Spec => []LeaseIsOnDisk
<1>1. Sound => LeaseIsOnDisk
  <2>1. \A p : Held(p) = Kept(p) \ released
    BY DEF Held, Kept
  <2>2. CASE overtaken
    BY <2>2, Zenon DEF LeaseIsOnDisk
  <2>3. CASE ~overtaken
    <3>1. Sound => DiskInv
      BY <2>3, Zenon DEF Sound, FirmInv
    <3> QED
      BY <2>1, <3>1 DEF DiskInv, DiskOK, Mine, LeaseIsOnDisk
  <2> QED
    BY <2>2, <2>3
<1> QED
  BY <1>1, SoundInit, SoundStep, PTL DEF Spec

\* Two processes never have one transcript open, but in a session its runtime has forgotten:
\* the reason for leases (docs/daemon.md:66).
THEOREM OneWriterOnly == Spec => []OneWriter
<1>1. Sound => OneWriter
  <2> SUFFICES ASSUME Sound, ~overtaken, ~adopted, NEW p \in Processes, NEW q \in Processes,
                      p # q, NEW f \in Paths, f \in Guarded(p), f \in Guarded(q)
               PROVE  FALSE
    BY Zenon DEF OneWriter, Writes, Guarded, Current
  <2>1. DiskInv /\ \A v \in Processes : runtime[v].lease \notin released
    BY Zenon DEF Sound, FirmInv, AdoptInv
  <2>2. ASSUME NEW v \in Processes, f \in Guarded(v)
        PROVE  owner[f].pid = v
    <3>0. /\ runtime[v].open /\ runtime[v].path = f
          /\ runtime[v].state # "disposed" \/ runtime[v].lease # 0
      BY <2>2 DEF Guarded, Current
    <3>1. runtime[v].lease # 0 /\ made[runtime[v].lease] = f
      BY <3>0 DEF Sound, Good, HandInv, HandOK
    <3>2. runtime[v].lease \in Kept(v) \ released
      BY <2>1, <3>1 DEF Kept
    <3> QED
      <4>1. owner[made[runtime[v].lease]] = Mine(runtime[v].lease, v)
        BY <2>1, <3>2 DEF DiskInv, DiskOK
      <4> QED
        BY <3>1, <4>1 DEF Mine
  <2> QED
    BY <2>2
<1> QED
  BY <1>1, SoundInit, SoundStep, PTL DEF Spec

-----------------------------------------------------------------------------
(* What lies on disk is accounted for *)

\* A runtime and its switches drop no lease without a release.
LEMMA NoneDropped ==
    ASSUME Good, NEW p \in Processes, Runtime(p), NEW t \in Kept(p)
    PROVE  t \in Kept(p)' \/ t \in released'
<1> USE DEF Good, Types, HandTypes
<1> DEFINE r == runtime[p]
<1>a. t # 0 /\ (t = r.lease \/ \E j \in Slots : t = switches[p][j].lease)
  BY DEF Kept
<1>b. ASSUME t = runtime'[p].lease \/ \E j \in Slots : t = switches'[p][j].lease
      PROVE  t \in Kept(p)'
  BY <1>a, <1>b DEF Kept
<1>c. r \in Runtimes /\ r.lease \in {0} \cup Leased
      /\ \A j \in Slots : switches[p][j] \in Switches
  BY DEF Runtimes
<1>d. NoSwitch.lease = 0
  BY DEF NoSwitch
<1>1. CASE OpenFails(p)
  <2>1. r.lease = t
    BY <1>1, <1>a, <1>d DEF OpenFails, HandInv, HandOK
  <2> QED
    BY <1>1, <1>a, <2>1 DEF OpenFails, CallRelease
<1>2. CASE Disposed(p)
  <2>1. CASE t = r.lease
    BY <1>2, <1>a, <2>1 DEF Disposed, CallRelease
  <2>2. CASE \E j \in Slots : t = switches[p][j].lease
    <3>1. UNCHANGED switches
      BY <1>2 DEF Disposed
    <3> QED
      BY <1>b, <2>2, <3>1
  <2> QED
    BY <1>a, <2>1, <2>2
<1>3. ASSUME NEW i \in Slots, SwitchFails(p, i) PROVE t \in Kept(p)' \/ t \in released'
  <2>1. CASE t = r.lease
    BY <1>3, <1>b, <2>1 DEF SwitchFails
  <2>2. CASE t # r.lease /\ t = switches[p][i].lease
    BY <1>3, <1>a, <2>2 DEF SwitchFails, CallRelease
  <2>3. ASSUME NEW j \in Slots, t = switches[p][j].lease, j # i PROVE t \in Kept(p)'
    <3>1. switches'[p][j] = switches[p][j]
      BY <1>3, <2>3 DEF SwitchFails
    <3> QED
      BY <1>b, <2>3, <3>1
  <2> QED
    BY <1>a, <2>1, <2>2, <2>3
<1>4. ASSUME NEW i \in Slots, Build(p, i) PROVE t \in Kept(p)' \/ t \in released'
  <2>0. runtime'[p].lease = switches[p][i].lease
    BY <1>4, <1>c DEF Build, Runtimes
  <2>1. CASE t = switches[p][i].lease
    BY <1>b, <2>0, <2>1
  <2>2. CASE t # switches[p][i].lease /\ t = r.lease
    BY <1>4, <1>a, <2>2 DEF Build, CallRelease
  <2>3. ASSUME NEW j \in Slots, t = switches[p][j].lease, j # i PROVE t \in Kept(p)'
    <3>1. switches'[p][j] = switches[p][j]
      BY <1>4, <2>3 DEF Build
    <3> QED
      BY <1>b, <2>3, <3>1
  <2> QED
    BY <1>a, <2>1, <2>2, <2>3
<1>5. CASE Opened(p) \/ Dispose(p) \/ \E f \in Paths : Open(p, f)
  <2>1. UNCHANGED switches
    BY <1>5 DEF Opened, Dispose, Open
  <2>2. runtime'[p].lease = r.lease
    <3>1. CASE Opened(p)
      BY <1>c, <3>1 DEF Opened, Runtimes
    <3>2. CASE Dispose(p)
      BY <1>c, <3>2 DEF Dispose, Runtimes
    <3>3. CASE \E f \in Paths : Open(p, f)
      BY <1>c, <3>3 DEF Open, Runtimes
    <3> QED
      BY <1>5, <3>1, <3>2, <3>3
  <2> QED
    BY <1>a, <1>b, <2>1, <2>2
<1>6. ASSUME NEW i \in Slots, TearDown(p, i) PROVE t \in Kept(p)'
  <2>1. runtime'[p].lease = r.lease
    BY <1>6, <1>c DEF TearDown, Runtimes
  <2>2. ASSUME NEW j \in Slots PROVE switches'[p][j].lease = switches[p][j].lease
    BY <1>6, <1>c DEF TearDown, Switches
  <2> QED
    BY <1>a, <1>b, <2>1, <2>2
<1>7. ASSUME NEW i \in Slots, SwitchBack(p, i) \/ \E f \in Paths : Switch(p, i, f)
      PROVE  t \in Kept(p)'
  <2>1. UNCHANGED runtime
    BY <1>7 DEF SwitchBack, Switch
  <2>2. ASSUME NEW j \in Slots, t = switches[p][j].lease PROVE t = switches'[p][j].lease
    <3>1. j # i
      BY <1>7, <1>a, <1>d, <2>2 DEF SwitchBack, Switch
    <3>2. switches'[p][j] = switches[p][j]
      BY <1>7, <3>1 DEF SwitchBack, Switch
    <3> QED
      BY <2>2, <3>2
  <2> QED
    BY <1>a, <1>b, <2>1, <2>2
<1> QED
  BY <1>1, <1>2, <1>3, <1>4, <1>5, <1>6, <1>7 DEF Runtime

\* A call that returns drops none either.
LEMMA CallsDropNone ==
    ASSUME Good, NEW p \in Processes, Acquiring(p) \/ Releasing(p)
    PROVE  Kept(p) \subseteq Kept(p)' /\ released' = released
<1> USE DEF Good, Types, HandTypes
<1>0. released' = released
  BY DEF Acquiring, AcquireEnters, AcquireGivesUp, Rename, RenameFails, Reclaim,
     AcquireReturns, EnterGuard, Releasing, ReleaseEnters, ReleaseGivesUp, RemoveOwner,
     RemoveDirectory, ReleaseReturns, leaseVars
<1>1. CASE AcquireReturns(p) \/ AcquireGivesUp(p)
  <2>0. /\ call[p].kind = "acquire" /\ AcquireOK(p) /\ HandOK(p)
        /\ call[p].for \in Slots \cup {Nobody}
    BY <1>1, InACall DEF AcquireReturns, AcquireGivesUp, At, AcquireInv, HandInv
  <2>1. CASE call[p].for = Nobody
    <3>1. runtime[p].lease = 0 /\ UNCHANGED switches
      BY <1>1, <2>0, <2>1 DEF AcquireReturns, AcquireGivesUp, Granted, Refused, AcquireOK, HandOK
    <3> QED
      BY <1>0, <3>1 DEF Kept
  <2>2. CASE call[p].for # Nobody
    <3>1. /\ switches[p][call[p].for].lease = 0 /\ UNCHANGED runtime
          /\ \A j \in Slots : j # call[p].for => switches'[p][j] = switches[p][j]
      BY <1>1, <2>0, <2>2 DEF AcquireReturns, AcquireGivesUp, Granted, Refused, AcquireOK, HandOK
    <3> QED
      BY <1>0, <3>1 DEF Kept
  <2> QED
    BY <2>1, <2>2
<1>2. CASE ~(AcquireReturns(p) \/ AcquireGivesUp(p))
  <2>1. UNCHANGED <<runtime, switches>>
    BY <1>2 DEF Acquiring, AcquireEnters, Rename, RenameFails, Reclaim,
       EnterGuard, Releasing, ReleaseEnters, ReleaseGivesUp, RemoveOwner,
       RemoveDirectory, ReleaseReturns, runtimeVars
  <2> QED
    BY <1>0, <2>1 DEF Kept
<1> QED
  BY <1>1, <1>2

LeftOK(f) ==
    \/ Gone(owner[f]) \/ owner[f].token \in gaveUp
    \/ owner[f].token \in Kept(owner[f].pid) \ released
    \/ call[owner[f].pid] # NoCall /\ call[owner[f].pid].token = owner[f].token
LeftInv == overtaken \/ \A f \in Paths : LeftOK(f)

\* A lease leaves the hand by a release, a failed release, or a crash.
LEMMA LeftStep ==
    ASSUME Sound, GuardInv, SeenInv, NEW f \in Paths, LeftOK(f), NEW p \in Processes, Acts(p)
    PROVE  LeftOK(f)'
<1> USE DEF Sound, Good
<1> DEFINE t == owner[f].token
<1>1. CASE owner'[f] # owner[f]
  <2>1. CASE owner'[f] \in {Free, Bare}
    BY <2>1, NobodyAssumption DEF LeftOK, Gone, Free, Bare
  <2>2. CASE owner'[f] \notin {Free, Bare}
    <3>1. Rename(p) /\ owner'[f] = Mine(Len(made) + 1, p)
      BY <1>1, <2>2, OwnerMoves
    <3>2. call[p] \in Calls /\ call[p].kind = "acquire"
      BY <3>1, InACall DEF Types, Rename, At
    <3>3. call'[p].token = Len(made) + 1 /\ call'[p].kind = "acquire"
      BY <3>1, <3>2 DEF Rename, Types, CallTypes, Calls
    <3> QED
      BY <3>1, <3>3, Kinds DEF LeftOK, Mine
  <2> QED
    BY <2>1, <2>2
<1>2. CASE owner'[f] = owner[f] /\ Gone(owner[f])
  BY <1>2, GoneStays DEF LeftOK
<1>3. CASE owner'[f] = owner[f] /\ t \in gaveUp
  <2>1. gaveUp \subseteq gaveUp'
    BY DEF Acts, Acquiring, AcquireEnters, AcquireGivesUp, Rename, RenameFails, Reclaim,
       AcquireReturns, EnterGuard, Releasing, ReleaseEnters, ReleaseGivesUp, RemoveOwner,
       RemoveDirectory, ReleaseReturns, Runtime, Open, Opened, OpenFails, Dispose, Disposed,
       SwitchBack, TearDown, SwitchFails, Build, Switch, CallRelease, Process, End, Start,
       leaseVars
  <2> QED
    BY <1>3, <2>1 DEF LeftOK
<1>4. ASSUME owner'[f] = owner[f], ~Gone(owner[f]), t \notin gaveUp, NEW q \in Processes,
             q = owner[f].pid
      PROVE  LeftOK(f)'
  <2>0. /\ alive[q] /\ t \in Leased /\ made[t] = f /\ t # 0
        /\ t \in Kept(q) \ released \/ (call[q] # NoCall /\ call[q].token = t)
    <3>1. owner[f] \notin {Free, Bare}
      BY <1>4, NobodyAssumption DEF Free, Bare
    <3>2. t \in Leased /\ made[t] = f /\ t # 0
      BY <3>1 DEF OwnerInv, OwnerOK, Leased
    <3>3. alive[q]
      BY <1>4 DEF Gone
    <3> QED
      BY <1>4, <3>2, <3>3 DEF LeftOK
  <2>1. ASSUME \/ t \in Kept(q)' /\ t \notin released'
               \/ call'[q] # NoCall /\ call'[q].token = t
               \/ t \in gaveUp' \/ ~alive'[q]
        PROVE  LeftOK(f)'
    BY <1>4, <2>1 DEF LeftOK, Gone
  <2>2. CASE p # q
    <3>1. call'[q] = call[q] /\ Kept(q)' = Kept(q)
      BY <2>2, OthersStay DEF Kept
    <3>2. released' \subseteq released \cup Kept(p) /\ Kept(p) \cap Kept(q) = {}
      BY <2>2, LeasesMove DEF ApartInv
    <3> QED
      BY <2>0, <2>1, <3>1, <3>2
  <2>3. CASE p = q /\ t \in Kept(q) \ released
    <3>1. CASE Acquiring(p) \/ Releasing(p)
      BY <2>1, <2>3, <3>1, CallsDropNone
    <3>2. CASE Runtime(p)
      <4>1. CASE t \notin released'
        BY <2>1, <2>3, <3>2, <4>1, NoneDropped
      <4>2. CASE t \in released'
        <5>1. call'[p] = ReleaseCall(t)
          BY <2>3, <3>2, <4>2, NewCall
        <5>2. call'[p].token = t /\ call'[p] # NoCall
          BY <5>1, Kinds DEF ReleaseCall
        <5> QED
          BY <2>1, <2>3, <5>2
      <4> QED
        BY <4>1, <4>2
    <3>3. CASE Process(p)
      BY <2>0, <2>1, <2>3, <3>3 DEF Process, Start, End, Types, FileTypes
    <3> QED
      BY <3>1, <3>2, <3>3 DEF Acts
  <2>4. CASE p = q /\ call[q] # NoCall /\ call[q].token = t
    <3>0. call[q].kind # "none" /\ call[q] \in Calls
      BY <2>4 DEF Types, CallTypes, Calls
    <3>1. ASSUME NEW step, GoTo(p, step) PROVE LeftOK(f)'
      BY <2>1, <2>4, <3>0, <3>1, GoesTo, Kinds
    <3>2. CASE \/ AcquireEnters(p) \/ RenameFails(p) \/ ReleaseEnters(p) \/ RemoveOwner(p)
               \/ RemoveDirectory(p)
      BY <3>1, <3>2 DEF AcquireEnters, EnterGuard, RenameFails, ReleaseEnters, RemoveOwner,
         RemoveDirectory
    <3>3. CASE Rename(p) \/ Reclaim(p) \/ AcquireGivesUp(p)
      BY <2>0, <2>4, <3>3 DEF Rename, Reclaim, AcquireGivesUp, At, AcquireInv, AcquireOK
    <3>4. CASE AcquireReturns(p)
      <4>1. Granted(p, call[p].for, call[p].path, t) /\ released' = released
        BY <2>0, <2>4, <3>4 DEF AcquireReturns, leaseVars
      <4>2. t \notin released /\ call[p].for \in Slots \cup {Nobody}
        BY <2>0, <2>4, <3>0, <3>4 DEF AcquireReturns, At, AcquireInv, AcquireOK, Calls
      <4>3. t \in Kept(p)'
        <5>1. CASE call[p].for = Nobody
          <6>1. runtime'[p].lease = t
            BY <4>1, <5>1 DEF Granted, Types, HandTypes
          <6> QED
            BY <2>0, <6>1 DEF Kept
        <5>2. CASE call[p].for # Nobody
          <6>1. switches'[p][call[p].for].lease = t
            BY <4>1, <4>2, <5>2 DEF Granted, Types, HandTypes
          <6> QED
            BY <2>0, <4>2, <5>2, <6>1 DEF Kept
        <5> QED
          BY <5>1, <5>2
      <4> QED
        BY <2>1, <2>4, <4>1, <4>2, <4>3
    <3>5. CASE ReleaseGivesUp(p)
      BY <2>1, <2>4, <3>5 DEF ReleaseGivesUp
    <3>6. CASE ReleaseReturns(p)
      <4>1. call[p].path = f
        BY <2>0, <2>4, <3>6 DEF ReleaseReturns, At, ReleaseInv, ReleaseOK
      <4> QED
        BY <2>4, <3>6, <4>1 DEF ReleaseReturns, At, SeenInv, SeenOK
    <3>7. CASE Runtime(p)
      BY <2>4, <3>7, NewCall
    <3>8. CASE Process(p)
      BY <2>0, <2>1, <2>4, <3>8 DEF Process, Start, End, Types, FileTypes
    <3> QED
      BY <3>2, <3>3, <3>4, <3>5, <3>6, <3>7, <3>8 DEF Acts, Acquiring, Releasing
  <2> QED
    BY <2>0, <2>2, <2>3, <2>4
<1>5. ASSUME owner'[f] = owner[f], ~Gone(owner[f]) PROVE owner[f].pid \in Processes
  BY <1>5 DEF Gone
<1> QED
  BY <1>1, <1>2, <1>3, <1>4, <1>5

\* What lies on disk for a running process is in use, or on its way in or out, or its
\* release did not get the guard: no failing open, switch or disposal leaves a lease behind.
THEOREM NothingIsLeft == Spec => []NothingLeftBehind
<1>1. Init => LeftInv
  BY NobodyAssumption DEF Init, LeftInv, LeftOK, Gone, Free
<1>2. Sound /\ LeftInv /\ [Next]_vars => LeftInv'
  <2> SUFFICES ASSUME Sound, LeftInv, [Next]_vars, ~overtaken' PROVE \A f \in Paths : LeftOK(f)'
    BY Zenon DEF LeftInv
  <2>1. (\A f \in Paths : LeftOK(f)) /\ GuardInv /\ SeenInv
    BY OvertakenStays, Zenon DEF Sound, FirmInv, LeftInv
  <2>2. CASE (\E f \in Paths : GuardExpires(f)) \/ UNCHANGED vars
    <3>1. UNCHANGED <<processVars, owner, leaseVars, runtime, switches, call>>
      BY <2>2 DEF GuardExpires, vars, runtimeVars, fileVars
    <3> QED
      BY <2>1, <3>1 DEF LeftOK, Gone, Kept, processVars, leaseVars
  <2> QED
    BY <2>1, <2>2, LeftStep DEF Next, Acts
<1>3. LeftInv => NothingLeftBehind
  <2>1. \A p : Held(p) = Kept(p) \ released
    BY DEF Held, Kept
  <2>2. (\A f \in Paths : LeftOK(f)) => NothingLeftBehind
    BY <2>1, Zenon DEF LeftOK, NothingLeftBehind
  <2> QED
    BY <2>2, Zenon DEF LeftInv, NothingLeftBehind
<1> QED
  BY <1>1, <1>2, <1>3, SoundInit, SoundStep, PTL DEF Spec

-----------------------------------------------------------------------------
(* The files keep the promise of Leases: a pid in one of its lives is a      *)
(* process of Leases, owner.json its holder, and a lease in hand and not     *)
(* released is the use of a path                                             *)

Lives == Processes \X (1..MaxFaults + 1)
Living == {<<p, life[p]>> : p \in {q \in Processes : alive[q]}}
Holder == [f \in Paths |-> IF owner[f].pid = Nobody THEN Nobody
                           ELSE <<owner[f].pid, owner[f].life>>]
Using == UNION {{<<<<p, life[p]>>, made[t]>> : t \in Held(p)} :
                   p \in {q \in Processes : alive[q]}}

\* A pid is used again after a crash only.
LifeInv == faults <= MaxFaults /\ \A p \in Processes :
    1 <= life[p] /\ life[p] <= IF alive[p] THEN faults + 1 ELSE faults

\* Each further life of a pid was paid for by a crash.
LEMMA LifeStep == Types /\ LifeInv /\ [Next]_vars => LifeInv'
<1> SUFFICES ASSUME Types, LifeInv, [Next]_vars PROVE LifeInv'
  OBVIOUS
<1> USE DEF Types, FileTypes
<1>0. faults \in Nat /\ MaxFaults \in Nat
  BY BoundsAssumption
<1>1. ASSUME NEW p \in Processes, End(p) PROVE LifeInv'
  <2>1. faults' = faults + 1 /\ faults' <= MaxFaults /\ UNCHANGED life
    BY <1>0, <1>1 DEF End, LifeInv
  <2>2. ASSUME NEW q \in Processes
        PROVE  1 <= life'[q] /\ life'[q] <= IF alive'[q] THEN faults' + 1 ELSE faults'
    <3>1. alive'[q] = IF q = p THEN FALSE ELSE alive[q]
      BY <1>1 DEF End
    <3>2. alive[p] /\ life[q] \in Nat /\ life'[q] = life[q]
      BY <1>1, <2>1 DEF End
    <3> QED
      BY <1>0, <2>1, <3>1, <3>2 DEF LifeInv
  <2> QED
    BY <2>1, <2>2 DEF LifeInv
<1>2. ASSUME NEW p \in Processes, Start(p) PROVE LifeInv'
  <2>1. UNCHANGED faults
    BY <1>2 DEF Start, fileVars
  <2>2. ASSUME NEW q \in Processes
        PROVE  1 <= life'[q] /\ life'[q] <= IF alive'[q] THEN faults + 1 ELSE faults
    <3>1. ~alive[p] /\ alive'[q] = (IF q = p THEN TRUE ELSE alive[q])
      BY <1>2 DEF Start
    <3>2. life[q] \in Nat /\ life'[q] = IF q = p THEN life[q] + 1 ELSE life[q]
      BY <1>2 DEF Start
    <3> QED
      BY <1>0, <3>1, <3>2 DEF LifeInv
  <2> QED
    BY <2>1, <2>2 DEF LifeInv
<1>3. ASSUME UNCHANGED processVars, faults' \in {faults, faults + 1}, faults' <= MaxFaults
      PROVE  LifeInv'
  BY <1>0, <1>3 DEF LifeInv, processVars
<1>4. ASSUME UNCHANGED <<processVars, faults>> PROVE LifeInv'
  BY <1>4 DEF LifeInv, processVars
<1>5. ASSUME NEW p \in Processes, Acquiring(p) \/ Releasing(p) \/ Runtime(p) PROVE LifeInv'
  BY <1>4, <1>5 DEF Acquiring, AcquireEnters, AcquireGivesUp, Rename, RenameFails, Reclaim,
     AcquireReturns, EnterGuard, LeaveGuard, Releasing, ReleaseEnters, ReleaseGivesUp, RemoveOwner,
     RemoveDirectory, ReleaseReturns, Runtime, Open, Opened, OpenFails, Dispose, Disposed,
     SwitchBack, TearDown, SwitchFails, Build, Switch, fileVars
<1>6. ASSUME NEW f \in Paths, GuardExpires(f) PROVE LifeInv'
  <2>1. UNCHANGED processVars /\ faults' \in {faults, faults + 1}
    BY <1>6 DEF GuardExpires
  <2>2. faults' <= MaxFaults
    BY <1>0, <1>6 DEF GuardExpires, LifeInv
  <2> QED
    BY <1>3, <2>1, <2>2
<1>7. CASE UNCHANGED vars
  BY <1>4, <1>7 DEF vars, fileVars
<1> QED
  BY <1>1, <1>2, <1>5, <1>6, <1>7 DEF Next, Process

\* Membership in Using, spelled out.
LEMMA UsingIs ==
    \A u : u \in Using <=> \E p \in Processes : \E t \in Held(p) :
               alive[p] /\ u = <<<<p, life[p]>>, made[t]>>
BY DEF Using

\* The leases in hand, without those released.
LEMMA HeldIs == \A p : Held(p) = Kept(p) \ released
BY DEF Held, Kept

\* The steps of Leases, of these three.
Step ==
    \/ UNCHANGED <<Living, Holder, Using>>
    \/ \E p \in Lives :
          \/ Living' = Living \cup {p} /\ UNCHANGED <<Holder, Using>>
          \/ Living' = Living \ {p} /\ Using' = {u \in Using : u[1] # p} /\ UNCHANGED Holder
          \/ \E f \in Paths :
                \/ /\ p \in Living /\ Holder[f] = Nobody
                   /\ Holder' = [Holder EXCEPT ![f] = p] /\ UNCHANGED <<Living, Using>>
                \/ /\ p \in Living /\ Holder[f] = p
                   /\ Using' = Using \cup {<<p, f>>} /\ UNCHANGED <<Living, Holder>>
                \/ Using' = Using \ {<<p, f>>} /\ UNCHANGED <<Living, Holder>>
                \/ /\ <<Holder[f], f>> \notin Using
                   /\ Holder' = [Holder EXCEPT ![f] = Nobody] /\ UNCHANGED <<Living, Using>>

\* The steps above are those of Leases under the refinement mapping.
LEMMA StepMaps ==
    ASSUME (Step /\ overtaken' = overtaken) \/ overtaken' = TRUE
    PROVE  [L!Next]_(L!vars)
<1>1. CASE overtaken' = TRUE
  BY <1>1, Zenon DEF L!Next
<1>2. CASE Step /\ overtaken' = overtaken
  <2> USE DEF L!Next, L!vars, Lives, Living, Holder, Using
  <2>1. CASE UNCHANGED <<Living, Holder, Using>>
    BY <1>2, <2>1
  <2>2. ASSUME NEW p \in Lives,
               \/ Living' = Living \cup {p} /\ UNCHANGED <<Holder, Using>>
               \/ Living' = Living \ {p} /\ Using' = {u \in Using : u[1] # p} /\ UNCHANGED Holder
        PROVE  L!Next
    BY <1>2, <2>2, Zenon DEF L!Start, L!Die
  <2>3. ASSUME NEW p \in Lives, NEW f \in Paths,
                \/ /\ p \in Living /\ Holder[f] = Nobody
                   /\ Holder' = [Holder EXCEPT ![f] = p] /\ UNCHANGED <<Living, Using>>
                \/ /\ p \in Living /\ Holder[f] = p
                   /\ Using' = Using \cup {<<p, f>>} /\ UNCHANGED <<Living, Holder>>
                \/ Using' = Using \ {<<p, f>>} /\ UNCHANGED <<Living, Holder>>
                \/ /\ <<Holder[f], f>> \notin Using
                   /\ Holder' = [Holder EXCEPT ![f] = Nobody] /\ UNCHANGED <<Living, Using>>
        PROVE  L!Next
    BY <1>2, <2>3, Zenon DEF L!Take, L!Use, L!GiveUp, L!Free
  <2> QED
    BY <1>2, <2>1, <2>2, <2>3, Zenon DEF Step
<1> QED
  BY <1>1, <1>2

\* The leases in hand, when no process ends or starts.
LEMMA HeldMoves ==
    ASSUME Good, NEW p \in Processes, Acts(p), ~Process(p)
    PROVE  /\ Living' = Living
           /\ \A q \in Processes : p # q => Held(q)' = Held(q)
           /\ Held(p)' = Held(p) => Using' = Using
<1> USE DEF Good
<1>1. UNCHANGED <<alive, life>>
  BY LivesMove DEF processVars
<1>2. ASSUME NEW q \in Processes, p # q PROVE Held(q)' = Held(q)
  <2>1. Kept(q)' = Kept(q)
    BY <1>2, OthersStay DEF Kept
  <2>2. released \subseteq released' /\ released' \subseteq released \cup Kept(p)
    BY LeasesMove
  <2>3. Kept(p) \cap Kept(q) = {}
    BY <1>2 DEF ApartInv
  <2>4. Held(q) = Kept(q) \ released /\ Held(q)' = Kept(q)' \ released'
    BY DEF Held, Kept
  <2> QED
    BY <2>1, <2>2, <2>3, <2>4
<1>3. ASSUME Held(p)' = Held(p) PROVE Using' = Using
  <2>1. \A q \in Processes : Held(q)' = Held(q)
    BY <1>2, <1>3
  <2>2. ASSUME NEW q \in Processes, NEW t \in Held(q) PROVE made'[t] = made[t]
    <3>1. \A i \in Slots : switches[q][i].lease \in {0} \cup Leased
      BY DEF Types, HandTypes, Switches
    <3>2. runtime[q].lease \in {0} \cup Leased
      BY DEF Types, HandTypes, Runtimes
    <3>3. t \in Leased
      BY <3>1, <3>2 DEF Held
    <3> QED
      BY <3>3, MadeGrows DEF Next, Acts
  <2>3. \A u : u \in Using' <=> \E q \in Processes : \E t \in Held(q)' :
               alive'[q] /\ u = <<<<q, life'[q]>>, made'[t]>>
    BY DEF Using
  <2>4. \A u : u \in Using' <=> u \in Using
    BY <1>1, <2>1, <2>2, <2>3, UsingIs
  <2> QED
    BY <2>4
<1> QED
  BY <1>1, <1>2, <1>3 DEF Living

\* The leases of a process are of different transcripts.
LEMMA HeldApart ==
    ASSUME DiskInv, NEW p \in Processes
    PROVE  \A t, u \in Held(p) : made[t] = made[u] => t = u
<1> SUFFICES ASSUME NEW t \in Held(p), NEW u \in Held(p), made[t] = made[u] PROVE t = u
  OBVIOUS
<1>1. owner[made[t]] = Mine(t, p) /\ owner[made[u]] = Mine(u, p)
  BY HeldIs DEF DiskInv, DiskOK
<1>2. Mine(t, p).token = t /\ Mine(u, p).token = u
  BY DEF Mine
<1> QED
  BY <1>1, <1>2

\* acquireSessionLease: the rename takes, the return uses, reclaiming frees.
LEMMA AcquiringMaps ==
    ASSUME Nobody \notin Lives, Sound, SeenInv, DiskInv, LifeInv,
           NEW p \in Processes, Acquiring(p)
    PROVE  Step
<1> USE DEF Sound, Good
<1> DEFINE l == <<p, life[p]>>
<1>0. Acts(p) /\ ~Process(p) /\ alive[p]
  <2>1. call[p].kind # "none" /\ alive[p]
    BY DEF Acquiring, AcquireEnters, AcquireGivesUp, Rename, RenameFails, Reclaim,
       AcquireReturns, At, DeadInv, DeadOK, NoCall
  <2>2. UNCHANGED alive
    BY DEF Acquiring, AcquireEnters, AcquireGivesUp, Rename, RenameFails, Reclaim,
       AcquireReturns, EnterGuard, processVars
  <2> QED
    BY <2>1, <2>2 DEF Acts, Process, End, Start, Types, FileTypes
<1>1. l \in Lives /\ l \in Living
  <2>1. life[p] \in 1..MaxFaults + 1
    BY <1>0, BoundsAssumption DEF LifeInv, Types, FileTypes
  <2> QED
    BY <1>0, <2>1 DEF Lives, Living
<1>2. Living' = Living /\ (Held(p)' = Held(p) => Using' = Using)
  BY <1>0, HeldMoves
<1>3. Kept(p)' = Kept(p) => Held(p)' = Held(p)
  BY CallsDropNone DEF Held, Kept
<1>4. call[p].kind = "acquire" /\ call[p].path \in Paths /\ call[p].token \in {0} \cup Leased
  BY InACall DEF Types, Acquiring, AcquireEnters, AcquireGivesUp, Rename, RenameFails, Reclaim,
     AcquireReturns, At
<1>5. CASE Rename(p)
  <2>1. PICK f \in Paths : f = call[p].path
    BY <1>4
  <2>2. Kept(p)' = Kept(p)
    BY <1>5 DEF Rename, Kept, runtimeVars
  <2>3. Holder[f] = Nobody
    BY <1>5, <2>1 DEF Rename, Holder, Free, Bare
  <2>4. owner' = [owner EXCEPT ![f] = Mine(Len(made) + 1, p)]
    BY <1>5, <2>1 DEF Rename, Mine
  <2>5. p # Nobody
    BY NobodyAssumption
  <2>6. Holder' = [Holder EXCEPT ![f] = l]
    <3>1. \A g \in Paths : owner'[g] = IF g = f THEN Mine(Len(made) + 1, p) ELSE owner[g]
      BY <2>4 DEF Types, FileTypes
    <3>2. Mine(Len(made) + 1, p).pid = p /\ Mine(Len(made) + 1, p).life = life[p]
      BY DEF Mine
    <3> QED
      BY <2>5, <3>1, <3>2 DEF Holder
  <2> QED
    BY <1>1, <1>2, <1>3, <2>2, <2>3, <2>6 DEF Step
<1>6. CASE Reclaim(p)
  <2>1. PICK f \in Paths : f = call[p].path
    BY <1>4
  <2>2. Kept(p)' = Kept(p)
    BY <1>6 DEF Reclaim, Kept, runtimeVars
  <2>3. Gone(owner[f])
    BY <1>6, <2>1 DEF Reclaim, SeenInv, SeenOK
  <2>4. <<Holder[f], f>> \notin Using
    <3> SUFFICES ASSUME NEW q \in Processes, NEW t \in Held(q), alive[q],
                        <<Holder[f], f>> = <<<<q, life[q]>>, made[t]>>
                 PROVE  FALSE
      BY UsingIs
    <3>1. Holder[f] = <<q, life[q]>>
      OBVIOUS
    <3>2. f = made[t]
      OBVIOUS
    <3>3. owner[made[t]] = Mine(t, q)
      BY HeldIs DEF DiskInv, DiskOK
    <3>4. owner[f].pid = q /\ owner[f].life = life[q]
      BY <3>2, <3>3 DEF Mine
    <3> QED
      BY <2>3, <3>4 DEF Gone
  <2>5. Holder' = [Holder EXCEPT ![f] = Nobody]
    <3>1. \A g \in Paths : owner'[g] = IF g = f THEN Free ELSE owner[g]
      BY <1>6, <2>1 DEF Reclaim, Types, FileTypes
    <3>2. Free.pid = Nobody
      BY DEF Free
    <3> QED
      BY <3>1, <3>2 DEF Holder
  <2> QED
    BY <1>1, <1>2, <1>3, <2>2, <2>4, <2>5 DEF Step
<1>7. CASE AcquireEnters(p) \/ RenameFails(p)
  <2>1. Kept(p)' = Kept(p) /\ UNCHANGED owner
    BY <1>7 DEF AcquireEnters, RenameFails, EnterGuard, Kept, runtimeVars, fileVars
  <2> QED
    BY <1>2, <1>3, <2>1 DEF Step, Holder
<1>8. CASE AcquireReturns(p) \/ AcquireGivesUp(p)
  <2>0. UNCHANGED owner /\ Holder' = Holder
    BY <1>8 DEF AcquireReturns, AcquireGivesUp, LeaveGuard, fileVars, Holder
  <2>1. call[p].token # 0 => Coming(p) = {call[p].token}
    BY <1>4 DEF Coming
  <2>2. call[p].token = 0 => Coming(p) = {}
    BY <1>4 DEF Coming
  <2>3. Kept(p) \subseteq Kept(p)' /\ Kept(p)' \subseteq Kept(p) \cup Coming(p)
        /\ released' = released
    BY <1>0, CallsDropNone, LeasesMove
  <2>4. CASE Kept(p)' = Kept(p)
    BY <1>2, <1>3, <2>0, <2>4 DEF Step
  <2>5. CASE Kept(p)' # Kept(p)
    <3> DEFINE t == call[p].token
    <3>1. t # 0 /\ Kept(p)' = Kept(p) \cup {t}
      BY <2>1, <2>2, <2>3, <2>5
    <3>2. t \notin released /\ made[t] = call[p].path
      BY <1>4, <3>1 DEF AcquireInv, AcquireOK
    <3>3. PICK f \in Paths : f = call[p].path
      BY <1>4
    <3>4. owner[f] = Mine(t, p)
      BY <2>1, <3>1, <3>2, <3>3 DEF DiskInv, DiskOK
    <3>5. Holder[f] = l
      <4>1. owner[f].pid = p /\ owner[f].life = life[p] /\ p # Nobody
        BY <3>4, NobodyAssumption DEF Mine
      <4> QED
        BY <4>1 DEF Holder
    <3>6. Held(p)' = Held(p) \cup {t}
      <4>1. Held(p)' = Kept(p)' \ released'
        BY DEF Held, Kept
      <4> QED
        BY <2>3, <3>1, <3>2, <4>1, HeldIs
    <3>7. Using' = Using \cup {<<l, f>>}
      <4>1. UNCHANGED <<made, alive, life>>
        BY <1>8 DEF AcquireReturns, AcquireGivesUp, leaseVars, processVars
      <4>2. \A q \in Processes : Held(q)' = IF q = p THEN Held(p) \cup {t} ELSE Held(q)
        BY <1>0, <3>6, HeldMoves
      <4>3. \A u : u \in Using' <=> \E q \in Processes : \E v \in Held(q)' :
               alive'[q] /\ u = <<<<q, life'[q]>>, made'[v]>>
        BY DEF Using
      <4>4. \A u : u \in Using' <=> u \in Using \/ u = <<l, made[t]>>
        BY <1>0, <4>1, <4>2, <4>3, UsingIs
      <4> QED
        BY <3>2, <3>3, <4>4
    <3> QED
      BY <1>1, <1>2, <2>0, <3>5, <3>7 DEF Step
  <2> QED
    BY <2>4, <2>5
<1> QED
  BY <1>5, <1>6, <1>7, <1>8 DEF Acquiring

\* release: the removal of owner.json frees what is not in use any more.
LEMMA ReleasingMaps ==
    ASSUME Nobody \notin Lives, Sound, SeenInv, DiskInv, LifeInv,
           NEW p \in Processes, Releasing(p)
    PROVE  Step
<1> USE DEF Sound, Good
<1>0. Acts(p) /\ ~Process(p) /\ alive[p]
  <2>1. call[p].kind # "none" /\ alive[p]
    BY DEF Releasing, ReleaseEnters, ReleaseGivesUp, RemoveOwner, RemoveDirectory,
       ReleaseReturns, At, DeadInv, DeadOK, NoCall
  <2>2. UNCHANGED alive
    BY DEF Releasing, ReleaseEnters, ReleaseGivesUp, RemoveOwner, RemoveDirectory,
       ReleaseReturns, EnterGuard, processVars
  <2> QED
    BY <2>1, <2>2 DEF Acts, Process, End, Start, Types, FileTypes
<1>1. <<p, life[p]>> \in Lives
  <2>1. life[p] \in 1..MaxFaults + 1
    BY <1>0, BoundsAssumption DEF LifeInv, Types, FileTypes
  <2> QED
    BY <2>1 DEF Lives
<1>2. Living' = Living /\ Using' = Using
  <2>1. Held(p)' = Held(p)
    <3>1. UNCHANGED <<runtime, switches, released>>
      BY DEF Releasing, ReleaseEnters, ReleaseGivesUp, RemoveOwner, RemoveDirectory,
         ReleaseReturns, EnterGuard, runtimeVars, leaseVars
    <3> QED
      BY <3>1 DEF Held
  <2> QED
    BY <1>0, <2>1, HeldMoves
<1>3. call[p].path \in Paths
  BY InACall DEF Types, Releasing, ReleaseEnters, ReleaseGivesUp, RemoveOwner, RemoveDirectory,
     ReleaseReturns, At
<1>4. CASE RemoveOwner(p)
  <2>1. PICK f \in Paths : f = call[p].path
    BY <1>3
  <2>2. owner[f].token \in released
    BY <1>4, <2>1 DEF RemoveOwner, At, SeenInv, SeenOK, ReleaseInv, ReleaseOK
  <2>3. <<Holder[f], f>> \notin Using
    <3> SUFFICES ASSUME NEW q \in Processes, NEW t \in Held(q), alive[q],
                        <<Holder[f], f>> = <<<<q, life[q]>>, made[t]>>
                 PROVE  FALSE
      BY UsingIs
    <3>1. f = made[t]
      OBVIOUS
    <3>2. owner[made[t]] = Mine(t, q) /\ t \notin released
      BY HeldIs DEF DiskInv, DiskOK
    <3>3. owner[f].token = t
      BY <3>1, <3>2 DEF Mine
    <3> QED
      BY <2>2, <3>2, <3>3
  <2>4. Holder' = [Holder EXCEPT ![f] = Nobody]
    <3>1. \A g \in Paths : g # f => owner'[g] = owner[g]
      BY <1>4, <2>1 DEF RemoveOwner, Types, FileTypes
    <3>2. owner'[f].pid = Nobody
      BY <1>4, <2>1 DEF RemoveOwner, Types, FileTypes, Free, Bare
    <3> QED
      BY <3>1, <3>2 DEF Holder
  <2> QED
    BY <1>1, <1>2, <2>3, <2>4 DEF Step
<1>5. CASE RemoveDirectory(p)
  <2>1. \A g \in Paths : owner'[g] = owner[g] \/ (owner[g] = Bare /\ owner'[g] = Free)
    BY <1>5 DEF RemoveDirectory, Types, FileTypes
  <2>2. Bare.pid = Nobody /\ Free.pid = Nobody
    BY DEF Bare, Free
  <2>3. Holder' = Holder
    BY <2>1, <2>2 DEF Holder
  <2> QED
    BY <1>2, <2>3 DEF Step
<1>6. CASE ReleaseEnters(p) \/ ReleaseGivesUp(p) \/ ReleaseReturns(p)
  <2>1. UNCHANGED owner
    BY <1>6 DEF ReleaseEnters, EnterGuard, ReleaseGivesUp, ReleaseReturns, LeaveGuard, fileVars
  <2> QED
    BY <1>2, <2>1 DEF Holder, Step
<1> QED
  BY <1>4, <1>5, <1>6 DEF Releasing

\* The runtime gives up the use of a path when it calls release.
LEMMA RuntimeMaps ==
    ASSUME Nobody \notin Lives, Sound, DiskInv, LifeInv, NEW p \in Processes, Runtime(p)
    PROVE  Step
<1> USE DEF Sound, Good
<1> DEFINE l == <<p, life[p]>>
<1>0. Acts(p) /\ ~Process(p) /\ alive[p] /\ UNCHANGED <<processVars, owner, made>>
  <2>1. alive[p] /\ UNCHANGED <<processVars, fileVars>>
    BY DEF Runtime, Open, Opened, OpenFails, Dispose, Disposed,
       SwitchBack, TearDown, SwitchFails, Build, Switch, Running
  <2> QED
    BY <2>1, NewCall DEF Acts, Process, End, Start, Types, FileTypes, processVars, fileVars
<1>1. l \in Lives
  <2>1. life[p] \in 1..MaxFaults + 1
    BY <1>0, BoundsAssumption DEF LifeInv, Types, FileTypes
  <2> QED
    BY <2>1 DEF Lives
<1>2. Living' = Living /\ Holder' = Holder
  BY <1>0, HeldMoves DEF Holder
<1>3. Held(p) = Kept(p) \ released /\ Held(p)' = Kept(p)' \ released'
  BY DEF Held, Kept
<1>4. Coming(p) = {}
  BY NewCall, Kinds DEF Coming
<1>5. Kept(p)' \subseteq Kept(p)
  BY <1>0, <1>4, LeasesMove
<1>6. CASE released' = released
  <2>1. Held(p)' = Held(p)
    BY <1>3, <1>5, <1>6, NoneDropped
  <2>2. Using' = Using
    BY <1>0, <2>1, HeldMoves
  <2> QED
    BY <1>2, <2>2 DEF Step
<1>7. ASSUME NEW t \in Leased \ released, released' = released \cup {t} PROVE Step
  <2>1. Held(p)' = Held(p) \ {t}
    BY <1>3, <1>5, <1>7, NoneDropped
  <2>2. t \in Held(p)
    BY <1>0, <1>3, <1>7, LeasesMove
  <2>3. PICK f \in Paths : f = made[t]
    BY <1>7 DEF Types, FileTypes, Leased
  <2>4. \A q \in Processes : Held(q)' = IF q = p THEN Held(p) \ {t} ELSE Held(q)
    BY <1>0, <2>1, HeldMoves
  <2>5. \A u \in Held(p) \ {t} : made[u] # f
    BY <2>2, <2>3, HeldApart
  <2>6. \A u : u \in Using' <=> \E q \in Processes : \E v \in Held(q)' :
           alive'[q] /\ u = <<<<q, life'[q]>>, made'[v]>>
    BY DEF Using
  <2>7. \A u : u \in Using' <=> \E q \in Processes : \E v \in Held(q)' :
           alive[q] /\ u = <<<<q, life[q]>>, made[v]>>
    BY <1>0, <2>6 DEF processVars
  <2>8. ASSUME NEW u PROVE u \in Using' <=> u \in Using /\ u # <<l, f>>
    <3>1. ASSUME u \in Using' PROVE u \in Using /\ u # <<l, f>>
      <4>1. PICK q \in Processes : \E v \in Held(q)' : alive[q] /\ u = <<<<q, life[q]>>, made[v]>>
        BY <2>7, <3>1
      <4>2. PICK v \in Held(q)' : alive[q] /\ u = <<<<q, life[q]>>, made[v]>>
        BY <4>1
      <4>3. v \in Held(q) /\ (q = p => made[v] # f)
        BY <2>4, <2>5
      <4> QED
        BY <4>2, <4>3, UsingIs
    <3>2. ASSUME u \in Using, u # <<l, f>> PROVE u \in Using'
      <4>1. PICK q \in Processes : \E v \in Held(q) : alive[q] /\ u = <<<<q, life[q]>>, made[v]>>
        BY <3>2, UsingIs
      <4>2. PICK v \in Held(q) : alive[q] /\ u = <<<<q, life[q]>>, made[v]>>
        BY <4>1
      <4>3. v \in Held(q)'
        BY <2>3, <2>4, <3>2, <4>2
      <4> QED
        BY <2>7, <4>2, <4>3
    <3> QED
      BY <3>1, <3>2
  <2>9. Using' = Using \ {<<l, f>>}
    BY <2>8
  <2> QED
    BY <1>1, <1>2, <2>9 DEF Step
<1> QED
  BY <1>6, <1>7, NewCall

\* A crash and a start.
LEMMA ProcessMaps ==
    ASSUME Sound, LifeInv, NEW p \in Processes, Process(p)
    PROVE  Step
<1> USE DEF Sound, Good
<1>0. UNCHANGED owner /\ Holder' = Holder
  BY DEF Process, End, Start, fileVars, Holder
<1>1. \A u : u \in Using' <=> \E q \in Processes : \E v \in Held(q)' :
           alive'[q] /\ u = <<<<q, life'[q]>>, made'[v]>>
  BY DEF Using
<1>2. UNCHANGED <<made, released>>
  BY DEF Process, End, Start, leaseVars
<1>3. ASSUME NEW q \in Processes, p # q
      PROVE  alive'[q] = alive[q] /\ life'[q] = life[q] /\ Held(q)' = Held(q)
  BY <1>2, <1>3, OthersStay, LivesMove DEF Acts, Held
<1>4. CASE End(p)
  <2> DEFINE l == <<p, life[p]>>
  <2>1. alive[p] /\ ~alive'[p]
    BY <1>4 DEF End, Types, FileTypes
  <2>2. l \in Lives
    <3>1. life[p] \in 1..MaxFaults + 1
      BY <2>1, BoundsAssumption DEF LifeInv, Types, FileTypes
    <3> QED
      BY <3>1 DEF Lives
  <2>3. Living' = Living \ {l}
    BY <1>3, <2>1 DEF Living
  <2>4. Using' = {u \in Using : u[1] # l}
    <3>1. ASSUME NEW u PROVE u \in Using' <=> u \in Using /\ u[1] # l
      BY <1>1, <1>2, <1>3, <2>1, UsingIs
    <3> QED
      BY <3>1
  <2> QED
    BY <1>0, <2>2, <2>3, <2>4 DEF Step
<1>5. CASE Start(p)
  <2> DEFINE l == <<p, life[p] + 1>>
  <2>1. ~alive[p] /\ alive'[p] /\ life'[p] = life[p] + 1
    BY <1>5 DEF Start, Types, FileTypes
  <2>2. l \in Lives
    <3>1. life[p] + 1 \in 1..MaxFaults + 1
      BY <2>1, BoundsAssumption DEF LifeInv, Types, FileTypes
    <3> QED
      BY <3>1 DEF Lives
  <2>3. Living' = Living \cup {l}
    BY <1>3, <2>1 DEF Living
  <2>4. Held(p)' = {}
    <3>1. Held(p) = {}
      BY <2>1 DEF DeadInv, DeadOK, Held, NoRuntime, NoSwitch
    <3>2. UNCHANGED <<runtime, switches>>
      BY <1>5 DEF Start, runtimeVars
    <3> QED
      BY <1>2, <3>1, <3>2 DEF Held
  <2>5. Using' = Using
    <3>1. ASSUME NEW u PROVE u \in Using' <=> u \in Using
      BY <1>1, <1>2, <1>3, <2>1, <2>4, UsingIs
    <3> QED
      BY <3>1
  <2> QED
    BY <1>0, <2>2, <2>3, <2>5 DEF Step
<1> QED
  BY <1>4, <1>5 DEF Process

\* The files keep the promise of Leases: each step of a process at the file system, of its
\* runtime, and each crash, is one of Leases or none, while no guard was broken.
THEOREM FilesImplementLeases ==
    ASSUME Nobody \notin Lives
    PROVE  Spec => ImplementsLeases
<1>1. Init => L!Init
  <2> SUFFICES ASSUME Init PROVE L!Init
    OBVIOUS
  <2>1. Living \subseteq Lives
    BY BoundsAssumption DEF Init, Living, Lives
  <2>2. Holder = [f \in Paths |-> Nobody]
    BY DEF Init, Holder, Free
  <2>3. Using = {}
    BY DEF Init, Using, Held, NoRuntime, NoSwitch
  <2> QED
    BY <2>1, <2>2, <2>3 DEF L!Init, Init, Living, Lives, Holder, Using
<1>2. Init => LifeInv
  BY BoundsAssumption DEF Init, LifeInv
<1>3. Sound /\ LifeInv /\ [Next]_vars => LifeInv'
  BY LifeStep DEF Sound, Good
<1>4. Sound /\ LifeInv /\ [Next]_vars => [L!Next]_(L!vars)
  <2> SUFFICES ASSUME Sound, LifeInv, [Next]_vars PROVE [L!Next]_(L!vars)
    OBVIOUS
  <2>1. CASE overtaken' = TRUE
    BY <2>1, StepMaps
  <2>2. CASE overtaken' # TRUE
    <3>1. overtaken \in BOOLEAN /\ overtaken' \in BOOLEAN
      BY SoundStep DEF Sound, Good, Types, FileTypes
    <3>2. ~overtaken /\ overtaken' = overtaken
      BY <2>2, <3>1, OvertakenStays
    <3>3. SeenInv /\ DiskInv
      BY <3>2, Zenon DEF Sound, FirmInv
    <3>4. CASE (\E f \in Paths : GuardExpires(f)) \/ UNCHANGED vars
      <4>1. UNCHANGED <<alive, life, owner, runtime, switches, made, released>>
        BY <3>4 DEF GuardExpires, vars, processVars, runtimeVars, leaseVars, fileVars
      <4>2. UNCHANGED <<Living, Holder, Using>>
        BY <4>1 DEF Living, Holder, Using, Held
      <4> QED
        BY <3>2, <4>2, StepMaps DEF Step
    <3>5. ASSUME NEW p \in Processes, Acts(p) PROVE Step
      BY <3>3, <3>5, AcquiringMaps, ReleasingMaps, RuntimeMaps, ProcessMaps DEF Acts
    <3> QED
      BY <3>2, <3>4, <3>5, StepMaps DEF Next, Acts
  <2> QED
    BY <2>1, <2>2
<1> QED
  BY <1>1, <1>2, <1>3, <1>4, SoundInit, SoundStep, PTL DEF Spec, ImplementsLeases, L!Spec
=============================================================================
