---------------------------- MODULE SessionLease ----------------------------
(***************************************************************************)
(* Who may write a session's transcript.  A lease is a directory with an   *)
(* owner.json, put in place by renaming a candidate; it is acquired and    *)
(* released behind a guard, a lock file that counts as stale after 5 s.    *)
(* Node runs both calls without a break: a process has one in progress at  *)
(* most, and other processes work between its accesses to the file system. *)
(* An AgentSessionRuntime acquires the lease of the session it switches to *)
(* before it releases the old one; between them it awaits, and another     *)
(* switch or its own disposal may run: then a session may stay open that   *)
(* nobody disposes.  Processes crash at any point, and their pids are used *)
(* again.                                                                  *)
(*                                                                         *)
(* A worker has one runtime; the sessions of subagents, the order of the   *)
(* candidates on disk and what a session still writes while it is disposed *)
(* are left out.                                                           *)
(***************************************************************************)
EXTENDS Naturals, Sequences, FiniteSets

CONSTANTS
    Processes, Paths,
    Slots,       \* the switches of one runtime that may be under way at a time
    Nobody,
    MaxLeases,   \* bound: so many candidates are made
    MaxSwitches, \* bound: so many switches begin
    MaxFaults    \* bound: so often a process ends, or stands still behind the guard for 5 s

ASSUME BoundsAssumption == {MaxLeases, MaxSwitches, MaxFaults} \subseteq Nat
ASSUME NobodyAssumption == Nobody \notin Processes \cup Paths \cup Slots

VARIABLES
    alive, life,      \* the processes; how often their pids have been used
    guard, expired,   \* the lock file of each path, and whether it counts as stale
    owner,            \* the lease directory of each path: its owner.json
    made, released,   \* the lease objects: their paths, those that were released
    call,             \* the synchronous call each process is in
    runtime, switches, \* its runtime: session and lease; the switches under way
    begun,            \* counter: the switches
    orphans,          \* its sessions that were replaced while they were open
    faults,           \* counter
    overtaken,        \* history: the guard of a running process was broken
    gaveUp,           \* history: leases whose release did not get the guard
    adopted           \* history: a released lease became a runtime's lease

processVars == <<alive, life>>
fileVars == <<guard, expired, owner, faults, overtaken>>
runtimeVars == <<runtime, switches, begun, orphans, adopted>>
leaseVars == <<made, released, gaveUp>>
vars == <<processVars, fileVars, runtimeVars, leaseVars, call>>

Leased == 1..Len(made)
Free == [token |-> 0, pid |-> Nobody, life |-> 0]  \* there is no directory
Bare == [token |-> 0, pid |-> Nobody, life |-> 1]  \* there is one, with no owner.json
NoCall == [kind |-> "none"]
NoSwitch == [step |-> "none", path |-> Nobody, lease |-> 0]
NoRuntime == [state |-> "none", path |-> Nobody, open |-> FALSE, lease |-> 0]

Init ==
    /\ alive = [p \in Processes |-> TRUE] /\ life = [p \in Processes |-> 1]
    /\ guard = [f \in Paths |-> Nobody] /\ expired = [f \in Paths |-> FALSE]
    /\ owner = [f \in Paths |-> Free]
    /\ made = <<>> /\ released = {} /\ gaveUp = {}
    /\ call = [p \in Processes |-> NoCall]
    /\ runtime = [p \in Processes |-> NoRuntime]
    /\ switches = [p \in Processes |-> [i \in Slots |-> NoSwitch]]
    /\ begun = 0 /\ orphans = [p \in Processes |-> {}]
    /\ faults = 0 /\ overtaken = FALSE /\ adopted = FALSE

Running(p) == alive[p] /\ call[p] = NoCall  \* the event loop turns

-----------------------------------------------------------------------------
(* The guard: lockSync and its release, also for a lock that was taken over *)

At(p, kind, step) == call[p].kind = kind /\ call[p].step = step
GoTo(p, step) == call' = [call EXCEPT ![p].step = step]

\* Variant: every guard counts as stale.
EnterGuardAtOnce(p, f, step) ==
    /\ guard' = [guard EXCEPT ![f] = p]
    /\ GoTo(p, step)
    /\ UNCHANGED <<processVars, expired, owner, faults, overtaken, runtimeVars, leaseVars>>

EnterGuard(p, f, step) ==
    /\ guard[f] = Nobody \/ expired[f]
    /\ guard' = [guard EXCEPT ![f] = p]
    /\ expired' = [expired EXCEPT ![f] = FALSE]
    /\ overtaken' = (overtaken \/ (guard[f] # Nobody /\ alive[guard[f]]
                                   /\ call[guard[f]].kind # "none"
                                   /\ call[guard[f]].path = f
                                   /\ call[guard[f]].step # "guard"))
    /\ GoTo(p, step)
    /\ UNCHANGED <<processVars, owner, faults, runtimeVars, leaseVars>>

LeaveGuard(f) ==
    /\ guard' = [guard EXCEPT ![f] = Nobody]
    /\ expired' = [expired EXCEPT ![f] = FALSE]
    /\ UNCHANGED <<owner, faults, overtaken>>

\* 5 s pass for a guard whose process crashed, or stands still behind it.
GuardExpires(f) ==
    /\ guard[f] # Nobody /\ ~expired[f]
    /\ LET p == guard[f]
           behind == alive[p] /\ call[p].kind # "none" /\ call[p].step # "guard" /\ call[p].path = f
       IN  /\ behind => faults < MaxFaults
           /\ faults' = IF behind THEN faults + 1 ELSE faults
    /\ expired' = [expired EXCEPT ![f] = TRUE]
    /\ UNCHANGED <<processVars, guard, owner, overtaken, runtimeVars, leaseVars, call>>

-----------------------------------------------------------------------------
(* acquireSessionLease *)

\* The call of process p for switch i, or for the opening of its runtime.
CallAcquire(p, f, i) ==
    call' = [call EXCEPT ![p] = [kind |-> "acquire", step |-> "guard", path |-> f, for |-> i,
                                 tries |-> 0, token |-> 0]]

AcquireEnters(p) == At(p, "acquire", "guard") /\ EnterGuard(p, call[p].path, "try")

\* The call returns; without a lease it throws.
Granted(p, i, f, token) ==
    IF i = Nobody
    THEN /\ runtime' = [runtime EXCEPT ![p] = [state |-> "opening", path |-> f, open |-> FALSE,
                                               lease |-> token]]
         /\ UNCHANGED switches
    ELSE /\ switches' = [switches EXCEPT ![p][i] = [step |-> "tearing", path |-> f,
                                                    lease |-> token]]
         /\ UNCHANGED runtime
Refused(p, i) ==
    IF i = Nobody
    THEN runtime' = [runtime EXCEPT ![p] = NoRuntime] /\ UNCHANGED switches
    ELSE switches' = [switches EXCEPT ![p][i] = NoSwitch] /\ UNCHANGED runtime

\* A second of attempts is over.
AcquireGivesUp(p) ==
    /\ At(p, "acquire", "guard")
    /\ guard[call[p].path] # Nobody
    /\ call' = [call EXCEPT ![p] = NoCall]
    /\ Refused(p, call[p].for)
    /\ UNCHANGED <<processVars, fileVars, leaseVars, begun, orphans, adopted>>

\* renameSync takes the place of nothing or of an empty directory.
Rename(p) ==
    LET f == call[p].path
        token == Len(made) + 1
    IN  /\ At(p, "acquire", "try") /\ token <= MaxLeases
        /\ owner[f] \in {Free, Bare}
        /\ owner' = [owner EXCEPT ![f] = [token |-> token, pid |-> p, life |-> life[p]]]
        /\ made' = Append(made, f)
        /\ call' = [call EXCEPT ![p].step = "leave", ![p].token = token]
        /\ UNCHANGED <<processVars, guard, expired, faults, overtaken, runtimeVars, released,
                       gaveUp>>

\* isLeaseOwnerAlive.  The start time of a pid that is used again may be unreadable.
LooksAlive(o) == \E p \in Processes : o.pid = p /\ alive[p]
Gone(o) == ~\E p \in Processes : o.pid = p /\ alive[p] /\ o.life = life[p]

\* Variant: whoever owns the directory is taken for dead.
RenameFailsReclaims(p) ==
    /\ At(p, "acquire", "try") /\ owner[call[p].path] \notin {Free, Bare}
    /\ GoTo(p, "reclaim")
    /\ UNCHANGED <<processVars, fileVars, runtimeVars, leaseVars>>

\* It fails, and the owner is read.
RenameFails(p) ==
    LET f == call[p].path IN
    /\ At(p, "acquire", "try") /\ owner[f] \notin {Free, Bare}
    /\ \/ LooksAlive(owner[f]) /\ GoTo(p, "leave")
       \/ Gone(owner[f]) /\ GoTo(p, "reclaim")
    /\ UNCHANGED <<processVars, fileVars, runtimeVars, leaseVars>>

\* reclaimStaleLease moves away what is there now; after three attempts the call fails.
Reclaim(p) ==
    LET f == call[p].path IN
    /\ At(p, "acquire", "reclaim")
    /\ owner' = [owner EXCEPT ![f] = Free]
    /\ call' = [call EXCEPT ![p].step = IF call[p].tries < 2 THEN "try" ELSE "leave",
                            ![p].tries = call[p].tries + 1]
    /\ UNCHANGED <<processVars, guard, expired, faults, overtaken, runtimeVars, leaseVars>>

AcquireReturns(p) ==
    LET f == call[p].path IN
    /\ At(p, "acquire", "leave")
    /\ LeaveGuard(f)
    /\ call' = [call EXCEPT ![p] = NoCall]
    /\ IF call[p].token = 0 THEN Refused(p, call[p].for)
       ELSE Granted(p, call[p].for, f, call[p].token)
    /\ UNCHANGED <<processVars, leaseVars, begun, orphans, adopted>>

-----------------------------------------------------------------------------
(* SessionLease.release *)

\* Variant: the object counts as released when the directory is gone.
CallReleaseLate(p, t) ==
    /\ call' = IF t = 0 \/ t \in released THEN call
               ELSE [call EXCEPT ![p] = [kind |-> "release", step |-> "guard", path |-> made[t],
                                         for |-> Nobody, tries |-> 0, token |-> t]]
    /\ UNCHANGED leaseVars

\* The call for a lease object that was not released before; otherwise nothing happens.
CallRelease(p, t) ==
    /\ released' = (released \cup {t}) \ {0}
    /\ call' = IF t = 0 \/ t \in released THEN call
               ELSE [call EXCEPT ![p] = [kind |-> "release", step |-> "guard", path |-> made[t],
                                         for |-> Nobody, tries |-> 0, token |-> t]]
    /\ UNCHANGED <<made, gaveUp>>

ReleaseEnters(p) ==
    /\ At(p, "release", "guard")
    /\ EnterGuard(p, call[p].path,
                  IF owner[call[p].path].token = call[p].token THEN "remove" ELSE "leave")

\* The attempts are over: the error is swallowed, and the object counts as released.
ReleaseGivesUp(p) ==
    /\ At(p, "release", "guard")
    /\ guard[call[p].path] # Nobody
    /\ gaveUp' = gaveUp \cup {call[p].token}
    /\ call' = [call EXCEPT ![p] = NoCall]
    /\ UNCHANGED <<processVars, fileVars, runtimeVars, made, released>>

\* rmSync removes the file, then the directory.
RemoveOwner(p) ==
    /\ At(p, "release", "remove")
    /\ owner' = [owner EXCEPT ![call[p].path] = IF @ = Free THEN Free ELSE Bare]
    /\ GoTo(p, "rmdir")
    /\ UNCHANGED <<processVars, guard, expired, faults, overtaken, runtimeVars, leaseVars>>

RemoveDirectory(p) ==
    /\ At(p, "release", "rmdir")
    /\ owner' = [owner EXCEPT ![call[p].path] = IF @ = Bare THEN Free ELSE @]
    /\ GoTo(p, "leave")
    /\ UNCHANGED <<processVars, guard, expired, faults, overtaken, runtimeVars, leaseVars>>

ReleaseReturns(p) ==
    /\ At(p, "release", "leave")
    /\ LeaveGuard(call[p].path)
    /\ call' = [call EXCEPT ![p] = NoCall]
    /\ UNCHANGED <<processVars, runtimeVars, leaseVars>>

-----------------------------------------------------------------------------
(* AgentSessionRuntime *)

Open(p, f) ==
    /\ Running(p) /\ runtime[p].state = "none"
    /\ runtime' = [runtime EXCEPT ![p].state = "acquiring"]
    /\ CallAcquire(p, f, Nobody)
    /\ UNCHANGED <<processVars, fileVars, leaseVars, switches, begun, orphans, adopted>>

Opened(p) ==
    /\ Running(p) /\ runtime[p].state = "opening"
    /\ runtime' = [runtime EXCEPT ![p].state = "live", ![p].open = TRUE]
    /\ UNCHANGED <<processVars, fileVars, leaseVars, call, switches, begun, orphans, adopted>>

\* Variant: without the catch clause.
OpenFailsQuietly(p) ==
    /\ Running(p) /\ runtime[p].state = "opening"
    /\ runtime' = [runtime EXCEPT ![p] = NoRuntime]
    /\ UNCHANGED <<processVars, fileVars, leaseVars, call, switches, begun, orphans, adopted>>

OpenFails(p) ==
    /\ Running(p) /\ runtime[p].state = "opening"
    /\ CallRelease(p, runtime[p].lease)
    /\ runtime' = [runtime EXCEPT ![p] = NoRuntime]
    /\ UNCHANGED <<processVars, fileVars, switches, begun, orphans, adopted>>

\* Nothing keeps a switch from going on when the runtime is being disposed, or was.
Applied(p) == runtime[p].state \in {"live", "disposing", "disposed"}

\* acquireReplacementLease: the current lease serves again for its own path.
LeasePath(p) == IF runtime[p].lease = 0 THEN Nobody ELSE made[runtime[p].lease]

SwitchBack(p, i) ==
    /\ Running(p) /\ Applied(p) /\ switches[p][i] = NoSwitch
    /\ begun < MaxSwitches /\ begun' = begun + 1
    /\ runtime[p].lease # 0
    /\ switches' = [switches EXCEPT ![p][i] = [step |-> "tearing", path |-> LeasePath(p),
                                               lease |-> runtime[p].lease]]
    /\ UNCHANGED <<processVars, fileVars, leaseVars, call, runtime, orphans, adopted>>

Switch(p, i, f) ==
    /\ Running(p) /\ Applied(p) /\ switches[p][i] = NoSwitch
    /\ begun < MaxSwitches /\ begun' = begun + 1
    /\ f # LeasePath(p)
    /\ switches' = [switches EXCEPT ![p][i].step = "acquiring"]
    /\ CallAcquire(p, f, i)
    /\ UNCHANGED <<processVars, fileVars, leaseVars, runtime, orphans, adopted>>

\* teardownCurrent: the session the runtime has now is disposed.
TearDown(p, i) ==
    /\ Running(p) /\ switches[p][i].step = "tearing"
    /\ runtime' = [runtime EXCEPT ![p].open = FALSE]
    /\ switches' = [switches EXCEPT ![p][i].step = "building"]
    /\ UNCHANGED <<processVars, fileVars, leaseVars, call, begun, orphans, adopted>>

\* Variant: the lease of a failed switch is released whosever it is.
SwitchFailsReleases(p, i) ==
    /\ Running(p) /\ switches[p][i].step \in {"tearing", "building"}
    /\ switches' = [switches EXCEPT ![p][i] = NoSwitch]
    /\ CallRelease(p, switches[p][i].lease)
    /\ UNCHANGED <<processVars, fileVars, runtime, begun, orphans, adopted>>

\* Opening, tearing down or building throws: releaseUncommittedLease.
SwitchFails(p, i) ==
    /\ Running(p) /\ switches[p][i].step \in {"tearing", "building"}
    /\ switches' = [switches EXCEPT ![p][i] = NoSwitch]
    /\ IF switches[p][i].lease # runtime[p].lease THEN CallRelease(p, switches[p][i].lease)
       ELSE UNCHANGED <<leaseVars, call>>
    /\ UNCHANGED <<processVars, fileVars, runtime, begun, orphans, adopted>>

\* The session a runtime has now, while it is open.
Current(p) == {f \in Paths : runtime[p].open /\ runtime[p].path = f}

\* apply and commitReplacementLease.  The session that another switch has applied since this
\* one's teardown is replaced, and not disposed.
Build(p, i) ==
    LET s == switches[p][i] IN
    /\ Running(p) /\ s.step = "building"
    /\ runtime' = [runtime EXCEPT ![p].path = s.path, ![p].open = TRUE, ![p].lease = s.lease]
    /\ orphans' = [orphans EXCEPT ![p] = @ \cup Current(p)]
    /\ switches' = [switches EXCEPT ![p][i] = NoSwitch]
    /\ adopted' = (adopted \/ s.lease \in released)
    /\ IF s.lease # runtime[p].lease THEN CallRelease(p, runtime[p].lease)
       ELSE UNCHANGED <<leaseVars, call>>
    /\ UNCHANGED <<processVars, fileVars, begun>>

\* disposeOnce disposes the session the runtime has by then, and awaits.
Dispose(p) ==
    /\ Running(p) /\ runtime[p].state = "live"
    /\ runtime' = [runtime EXCEPT ![p].state = "disposing", ![p].open = FALSE]
    /\ UNCHANGED <<processVars, fileVars, leaseVars, call, switches, begun, orphans, adopted>>

\* Whatever failed on the way, the lease is released last: the one the runtime has by then.
Disposed(p) ==
    /\ Running(p) /\ runtime[p].state = "disposing"
    /\ CallRelease(p, runtime[p].lease)
    /\ runtime' = [runtime EXCEPT ![p].state = "disposed", ![p].lease = 0]
    /\ UNCHANGED <<processVars, fileVars, switches, begun, orphans, adopted>>

-----------------------------------------------------------------------------
(* Processes *)

\* A process is killed, or its worker exits.
End(p) ==
    /\ alive[p] /\ faults < MaxFaults
    /\ faults' = faults + 1
    /\ alive' = [alive EXCEPT ![p] = FALSE]
    /\ call' = [call EXCEPT ![p] = NoCall]
    /\ runtime' = [runtime EXCEPT ![p] = NoRuntime]
    /\ switches' = [switches EXCEPT ![p] = [i \in Slots |-> NoSwitch]]
    /\ orphans' = [orphans EXCEPT ![p] = {}]
    /\ UNCHANGED <<life, guard, expired, owner, overtaken, leaseVars, begun, adopted>>

\* The pid is used again.
Start(p) ==
    /\ ~alive[p]
    /\ alive' = [alive EXCEPT ![p] = TRUE]
    /\ life' = [life EXCEPT ![p] = @ + 1]
    /\ UNCHANGED <<fileVars, runtimeVars, leaseVars, call>>

-----------------------------------------------------------------------------
Acquiring(p) ==
    \/ AcquireEnters(p) \/ AcquireGivesUp(p) \/ Rename(p) \/ RenameFails(p) \/ Reclaim(p)
    \/ AcquireReturns(p)
Releasing(p) ==
    \/ ReleaseEnters(p) \/ ReleaseGivesUp(p) \/ RemoveOwner(p) \/ RemoveDirectory(p)
    \/ ReleaseReturns(p)
Runtime(p) ==
    \/ Opened(p) \/ OpenFails(p) \/ Dispose(p) \/ Disposed(p)
    \/ \E f \in Paths : Open(p, f)
    \/ \E i \in Slots : \/ SwitchBack(p, i) \/ TearDown(p, i) \/ SwitchFails(p, i) \/ Build(p, i)
                        \/ \E f \in Paths : Switch(p, i, f)
Process(p) == End(p) \/ Start(p)

Next ==
    \/ \E p \in Processes : Acquiring(p) \/ Releasing(p) \/ Runtime(p) \/ Process(p)
    \/ \E f \in Paths : GuardExpires(f)
Spec == Init /\ [][Next]_vars

-----------------------------------------------------------------------------
(* Properties *)

Owners == [token : 0..Len(made), pid : Processes \cup {Nobody}, life : Nat]
Calls == [kind : {"acquire", "release"}, path : Paths, for : Slots \cup {Nobody}, tries : 0..3,
          step : {"guard", "try", "reclaim", "remove", "rmdir", "leave"},
          token : {0} \cup Leased]

\* Types; a process in a call is alive, and a runtime's lease is one it was granted.
TypeOK ==
    /\ alive \in [Processes -> BOOLEAN] /\ life \in [Processes -> Nat]
    /\ guard \in [Paths -> Processes \cup {Nobody}] /\ expired \in [Paths -> BOOLEAN]
    /\ made \in Seq(Paths) /\ released \subseteq Leased /\ gaveUp \subseteq released
    /\ owner \in [Paths -> Owners]
    /\ call \in [Processes -> Calls \cup {NoCall}]
    /\ runtime \in [Processes ->
          [state : {"none", "acquiring", "opening", "live", "disposing", "disposed"},
           path : Paths \cup {Nobody}, open : BOOLEAN, lease : {0} \cup Leased]]
    /\ switches \in [Processes -> [Slots ->
          [step : {"none", "acquiring", "tearing", "building"}, path : Paths \cup {Nobody},
           lease : {0} \cup Leased]]]
    /\ orphans \in [Processes -> SUBSET Paths]
    /\ {faults, begun} \subseteq Nat /\ {overtaken, adopted} \subseteq BOOLEAN

\* The leases a process has in hand and has not released.
Held(p) == (({runtime[p].lease} \cup {switches[p][i].lease : i \in Slots}) \ {0}) \ released

\* Whoever has a lease in hand owns the directory, whatever crashed, was reclaimed, or had
\* its pid used again; unless the guard of a running process was broken.
LeaseIsOnDisk ==
    overtaken \/ \A p \in Processes : alive[p] => \A t \in Held(p) :
        owner[made[t]] = [token |-> t, pid |-> p, life |-> life[p]]

\* The transcripts a process may write; that of the session its runtime has, unless this is
\* one that was applied while the runtime was disposed.
Writes(p) == Current(p) \cup orphans[p]
Guarded(p) ==
    IF runtime[p].state = "disposed" /\ runtime[p].lease = 0 THEN {} ELSE Current(p)

\* docs/daemon.md:66: two processes never have the same transcript open.  Out of this are a
\* broken guard, a switch back whose lease another switch or the disposal released meanwhile,
\* and sessions their runtime has forgotten: replaced by an overlapping switch without being
\* disposed, or applied while the runtime was disposed and released the lease.
OneWriter ==
    overtaken \/ adopted \/ \A p, q \in Processes :
        p # q => \A f \in Writes(p) \cap Writes(q) : f \notin Guarded(p) \/ f \notin Guarded(q)

\* What lies on disk for a running process is in use, or on its way in or out, or its
\* release did not get the guard.
NothingLeftBehind ==
    overtaken \/ \A f \in Paths :
        LET o == owner[f] IN
        Gone(o) \/ o.token \in Held(o.pid) \/ call[o.pid] # NoCall \/ o.token \in gaveUp

\* The files keep the promise of Leases.
L == INSTANCE Leases WITH
         Lives <- Processes \X (1..MaxFaults + 1),
         living <- {<<p, life[p]>> : p \in {q \in Processes : alive[q]}},
         holder <- [f \in Paths |-> IF owner[f].pid = Nobody THEN Nobody
                                    ELSE <<owner[f].pid, owner[f].life>>],
         using <- UNION {{<<<<p, life[p]>>, made[t]>> : t \in Held(p)} :
                            p \in {q \in Processes : alive[q]}},
         void <- overtaken
ImplementsLeases == L!Spec

\* docs/daemon.md:59: every persisted session that is open is protected by a lease.
WritersAreProtected ==
    overtaken \/ \A p \in Processes : runtime[p].open => runtime[p].lease \notin released
=============================================================================
