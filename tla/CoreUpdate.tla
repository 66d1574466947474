----------------------------- MODULE CoreUpdate -----------------------------
(***************************************************************************)
(* core/update: the handoff from one installed Core release to another.    *)
(*                                                                         *)
(* An update is a journalled sequence of provider calls: prepare a         *)
(* candidate, snapshot the resident services, move the pointer `current',  *)
(* rebind the services, verify them, commit, prune.  Each provider call is *)
(* one step and each journal write another, so that the process may stop,  *)
(* a provider or the store may fail, and another thread may run between    *)
(* any two of them.  A call opens its journal before it asks for the lease *)
(* that serialises updates, and works on what it read then.                *)
(*                                                                         *)
(* A release is its place in the order of versions.  The command line      *)
(* names an update by the release it resolved, so releases also name the   *)
(* updates.  Receipts are the facts they attest; failure texts are left    *)
(* out.  One native install of a service definition is one step.           *)
(***************************************************************************)
EXTENDS Integers, Sequences, FiniteSets

CONSTANTS
    MaxCore,    \* releases are numbered 1..MaxCore
    Services,   \* expected_services: the resident services in their order
    Threads,    \* threads of the node that serve update calls
    None,
    MaxCalls,   \* bound on the calls
    MaxFaults,  \* bound on failures of providers, store and admission
    MaxCrashes  \* bound on restarts of the node process

Cores == 1..MaxCore
NoCore == 0
Resident == {Services[i] : i \in 1..Len(Services)}

ASSUME CoreAssumption == MaxCore \in Nat \ {0}
ASSUME ServiceAssumption == Services \in Seq(Resident) /\ Len(Services) > 0
ASSUME ThreadAssumption == None \notin Threads

VARIABLES
    latest,     \* the newest published release
    journal,    \* the stored record of each update
    lock,       \* the thread that holds the setup and update lock
    pointer,    \* the release `current' points at
    installed,  \* the releases under versions/
    staged,     \* the workspace of each update: release staged and its origin
    bound,      \* the release each service runs, NoCore when it is not active
    snapshots,  \* the stored service snapshot of each update
    call,       \* what each thread is doing
    calls, faults, crashes

files == <<pointer, installed, staged>>
native == <<bound, snapshots>>
vars == <<latest, journal, lock, files, native, call, calls, faults, crashes>>

Phases == {"Requested", "Prepared", "ServicesSnapshotted", "Activated", "ServicesRebound",
           "Verified", "Committed", "RollingBack", "CleanupPending",
           "Current", "Succeeded", "RolledBack", "RecoveryRequired"}
Terminal == {"Current", "Succeeded", "RolledBack", "RecoveryRequired"}

\* pinned: the request named its version.  activation: the receipt of the move
\* from current to prepared.
Records == [pinned : BOOLEAN, phase : Phases, current : Cores \cup {NoCore},
            prepared : Cores \cup {NoCore}, snapshot : BOOLEAN, activation : BOOLEAN, rev : Nat]

Requested(pinned) ==
    [pinned |-> pinned, phase |-> "Requested", current |-> NoCore, prepared |-> NoCore,
     snapshot |-> FALSE, activation |-> FALSE, rev |-> 1]

\* A call: the update it is for, the record it holds, the record it is about to
\* write, its place in a loop over the services, and whether a compensation failed.
\* An idle thread keeps the release its last call reported as "updated"; every
\* other answer and error is NoCore.
Idle(answer) ==
    [pc |-> "idle", key |-> NoCore, pinned |-> FALSE, rec |-> None, next |-> None,
     at |-> 0, failed |-> FALSE, answer |-> answer]

\* Setup left one release installed, active, and bound to every service.
Init ==
    /\ latest = 1
    /\ journal = [k \in Cores |-> None]
    /\ lock = None
    /\ pointer = 1 /\ installed = {1}
    /\ staged = [k \in Cores |-> None]
    /\ bound = [s \in Resident |-> 1]
    /\ snapshots = [k \in Cores |-> None]
    /\ call = [t \in Threads |-> Idle(NoCore)]
    /\ calls = 0 /\ faults = 0 /\ crashes = 0

-----------------------------------------------------------------------------
(* How a call moves on.                                                    *)

Fault == faults < MaxFaults /\ faults' = faults + 1
NoFault == UNCHANGED faults

\* A provider fails when it must, and otherwise at the expense of a fault.
Failing(able) == IF able THEN Fault ELSE NoFault

Holds(t, pc, phases) == call[t].pc = pc /\ call[t].rec.phase \in phases

\* The lease is dropped with the call.
Return(t, answer) ==
    /\ call' = [call EXCEPT ![t] = Idle(answer)]
    /\ lock' = IF lock = t THEN None ELSE lock

\* replace_record is the next step, with this proposal.
Propose(t, next) ==
    /\ call' = [call EXCEPT ![t].pc = "write", ![t].next = next, ![t].at = 0, ![t].failed = FALSE]
    /\ UNCHANGED lock

\* rollback_failure: journal the intent to compensate what the record holds.
RollbackFailure(t, rec) == Propose(t, [rec EXCEPT !.phase = "RollingBack"])

Goto(t, pc, at, failed) ==
    /\ call' = [call EXCEPT ![t].pc = pc, ![t].at = at, ![t].failed = failed]
    /\ UNCHANGED lock

-----------------------------------------------------------------------------
(* Opening the journal and asking for the lease.                           *)

\* The node answers a call: the release check resolved k, with or without a
\* version on the command line.
Begin(t) ==
    /\ call[t].pc = "idle" /\ calls < MaxCalls
    /\ calls' = calls + 1
    /\ \E k \in 1..latest, pinned \in BOOLEAN :
           call' = [call EXCEPT ![t] = [Idle(NoCore) EXCEPT !.pc = "open", !.key = k, !.pinned = pinned]]
    /\ UNCHANGED <<latest, journal, lock, files, native, faults, crashes>>

\* terminal_change, or the terminal error.
Finish(t, rec) == Return(t, IF rec.phase = "Succeeded" THEN rec.prepared ELSE NoCore)

\* open_record, and the return of a terminal record without a lease.  A store that
\* fails may have created the record.
Open(t) ==
    LET k == call[t].key
        admit(rec) == /\ call' = [call EXCEPT ![t].pc = "admit", ![t].rec = rec]
                      /\ UNCHANGED lock IN
    /\ call[t].pc = "open"
    /\ \/ /\ journal[k] = None /\ NoFault
          /\ journal' = [journal EXCEPT ![k] = Requested(call[t].pinned)]
          /\ admit(Requested(call[t].pinned))
       \/ /\ journal[k] # None /\ NoFault
          /\ UNCHANGED journal
          /\ CASE journal[k].pinned # call[t].pinned -> Return(t, NoCore)
               [] journal[k].phase \in Terminal -> Finish(t, journal[k])
               [] OTHER -> admit(journal[k])
       \/ /\ Fault /\ Return(t, NoCore)
          /\ \/ UNCHANGED journal
             \/ /\ journal[k] = None
                /\ journal' = [journal EXCEPT ![k] = Requested(call[t].pinned)]
    /\ UNCHANGED <<latest, files, native, calls, crashes>>

\* Mutant of Conflicting: every terminal phase and a pending cleanup count as finished.
Conflicting_ForgetsCleanup(k) ==
    \E other \in Cores \ {k} : /\ journal[other] # None
                               /\ journal[other].phase \notin Terminal \cup {"CleanupPending"}

\* has_conflicting_journal
Conflicting(k) ==
    \E other \in Cores \ {k} : /\ journal[other] # None
                               /\ journal[other].phase \notin {"Current", "Succeeded", "RolledBack"}

\* ApplicationCoreUpdateAdmissionProvider::acquire.  Setup may hold the lock and
\* a Node operation may be active: a fault.
Admit(t) ==
    /\ call[t].pc = "admit"
    /\ \/ /\ lock = None /\ ~Conflicting(call[t].key) /\ NoFault
          /\ lock' = t
          /\ call' = [call EXCEPT ![t].pc = "run"]
       \/ /\ Failing(lock = None /\ ~Conflicting(call[t].key))
          /\ IF call[t].rec.phase = "Requested"
             THEN RollbackFailure(t, call[t].rec)
             ELSE Return(t, NoCore)
    /\ UNCHANGED <<latest, journal, files, native, calls, crashes>>

-----------------------------------------------------------------------------
(* The forward phases.                                                     *)

\* remove_workspace
Cleared(k) == [staged EXCEPT ![k] = None]

\* The release prepare resolves: the one an interrupted preparation left in the
\* workspace, the pinned one, or the newest unless it is older than the active.
Resolved(k, pinned) ==
    LET release == IF staged[k] # None THEN staged[k].core ELSE IF pinned THEN k ELSE latest IN
    IF /\ staged[k] # None => staged[k].from = pointer
       /\ IF pinned THEN release = k ELSE release >= pointer
    THEN release ELSE NoCore

\* prepare: a failed preparation cleans its workspace up, if it can.
Prepare(t) ==
    LET k == call[t].key
        rec == call[t].rec
        release == Resolved(k, rec.pinned) IN
    /\ Holds(t, "run", {"Requested"})
    /\ \/ /\ release # NoCore /\ NoFault
          /\ staged' = [staged EXCEPT ![k] = [core |-> release, from |-> pointer]]
          /\ Propose(t, [rec EXCEPT !.phase = "Prepared", !.current = pointer, !.prepared = release])
       \/ /\ \/ Failing(release # NoCore) /\ staged' = Cleared(k)
             \/ Fault /\ UNCHANGED staged
             \/ /\ release # NoCore /\ Fault
                /\ staged' = [staged EXCEPT ![k] = [core |-> release, from |-> pointer]]
          /\ RollbackFailure(t, rec)
    /\ UNCHANGED <<latest, journal, pointer, installed, native, calls, crashes>>

\* complete_current: the candidate is the active release.
CompleteCurrent(t) ==
    LET rec == call[t].rec IN
    /\ Holds(t, "run", {"Prepared"}) /\ rec.current = rec.prepared
    /\ \/ /\ NoFault
          /\ staged' = Cleared(call[t].key)
          /\ Propose(t, [rec EXCEPT !.phase = "Current", !.prepared = NoCore])
       \/ Fault /\ RollbackFailure(t, rec) /\ staged' \in {staged, Cleared(call[t].key)}
    /\ UNCHANGED <<latest, journal, pointer, installed, native, calls, crashes>>

\* snapshot_services: the stored snapshot of an interrupted attempt, or a fresh
\* one of services that are all active.
SnapshotServices(t) ==
    LET k == call[t].key
        rec == call[t].rec
        fresh == [current |-> rec.current, bound |-> bound]
        able == IF snapshots[k] # None THEN snapshots[k].current = rec.current
                ELSE \A s \in Resident : bound[s] # NoCore IN
    /\ Holds(t, "run", {"Prepared"}) /\ rec.current # rec.prepared
    /\ \/ /\ able /\ NoFault
          /\ snapshots' = [snapshots EXCEPT ![k] = IF @ = None THEN fresh ELSE @]
          /\ Propose(t, [rec EXCEPT !.phase = "ServicesSnapshotted", !.snapshot = TRUE])
       \/ /\ Failing(able)
          /\ RollbackFailure(t, rec)
          /\ UNCHANGED snapshots
    /\ UNCHANGED <<latest, journal, files, bound, calls, crashes>>

\* Mutant of Activate: the receipt is not recorded.
Activate_NoReceipt(t) ==
    LET k == call[t].key
        rec == call[t].rec
        install == /\ installed' = installed \cup {rec.prepared}
                   /\ staged' = IF rec.prepared \in installed THEN staged ELSE [staged EXCEPT ![k] = None]
        able == /\ rec.current \in installed
                /\ IF staged[k] # None THEN staged[k].core = rec.prepared
                                       ELSE rec.prepared \in installed
                /\ pointer \in {rec.current, rec.prepared} IN
    /\ Holds(t, "run", {"ServicesSnapshotted"})
    /\ \/ /\ able /\ NoFault
          /\ install
          /\ pointer' = rec.prepared
          /\ Propose(t, [rec EXCEPT !.phase = "Activated"])
       \/ /\ Failing(able)
          /\ \/ able /\ install
             \/ UNCHANGED <<installed, staged>>
          /\ RollbackFailure(t, rec)
          /\ UNCHANGED pointer
    /\ UNCHANGED <<latest, journal, native, calls, crashes>>

\* activate: install the staged tree unless it is installed, then move the
\* pointer unless it has moved.  A failure may come after the tree is installed.
Activate(t) ==
    LET k == call[t].key
        rec == call[t].rec
        install == /\ installed' = installed \cup {rec.prepared}
                   /\ staged' = IF rec.prepared \in installed THEN staged ELSE [staged EXCEPT ![k] = None]
        able == /\ rec.current \in installed
                /\ IF staged[k] # None THEN staged[k].core = rec.prepared
                                       ELSE rec.prepared \in installed
                /\ pointer \in {rec.current, rec.prepared} IN
    /\ Holds(t, "run", {"ServicesSnapshotted"})
    /\ \/ /\ able /\ NoFault
          /\ install
          /\ pointer' = rec.prepared
          /\ Propose(t, [rec EXCEPT !.phase = "Activated", !.activation = TRUE])
       \/ /\ Failing(able)
          /\ \/ able /\ install
             \/ UNCHANGED <<installed, staged>>
          /\ RollbackFailure(t, rec)
          /\ UNCHANGED pointer
    /\ UNCHANGED <<latest, journal, native, calls, crashes>>

\* rebind_services, one service at a time, unless the snapshot cannot be read.
Rebind(t) ==
    /\ Holds(t, "run", {"Activated"})
    /\ \/ NoFault /\ Goto(t, "rebind", 1, FALSE)
       \/ Fault /\ RollbackFailure(t, call[t].rec)
    /\ UNCHANGED <<latest, journal, files, native, calls, crashes>>

\* install_systemd and install_launchd, which rebinding and restoring share: the
\* definition is written and the service restarted under it.  A restart that the
\* supervisor accepts may still leave the service down.
InstallAccepted(s, core) ==
    \/ NoFault /\ bound' = [bound EXCEPT ![s] = core]
    \/ Fault /\ bound' = [bound EXCEPT ![s] = NoCore]

\* One that fails at any of its commands may leave the service as it was, down,
\* or restarted.
InstallFails(s, core) ==
    Fault /\ bound' \in {bound, [bound EXCEPT ![s] = NoCore], [bound EXCEPT ![s] = core]}

\* rebind_service: the first failure ends the loop.
RebindService(t) ==
    LET rec == call[t].rec
        s == Services[call[t].at] IN
    /\ call[t].pc = "rebind"
    /\ \/ /\ InstallAccepted(s, rec.prepared)
          /\ IF call[t].at < Len(Services)
             THEN Goto(t, "rebind", call[t].at + 1, FALSE)
             ELSE Propose(t, [rec EXCEPT !.phase = "ServicesRebound"])
       \/ InstallFails(s, rec.prepared) /\ RollbackFailure(t, rec)
    /\ UNCHANGED <<latest, journal, files, snapshots, calls, crashes>>

\* Mutant of VerifyServices: one ready service is enough.
VerifyServices_Any(t) ==
    LET rec == call[t].rec
        ready == \E s \in Resident : bound[s] = rec.prepared IN
    /\ Holds(t, "run", {"ServicesRebound"})
    /\ \/ ready /\ NoFault /\ Propose(t, [rec EXCEPT !.phase = "Verified"])
       \/ Failing(ready) /\ RollbackFailure(t, rec)
    /\ UNCHANGED <<latest, journal, files, native, calls, crashes>>

\* verify_services: every service is stably ready under the candidate.
VerifyServices(t) ==
    LET rec == call[t].rec
        ready == \A s \in Resident : bound[s] = rec.prepared IN
    /\ Holds(t, "run", {"ServicesRebound"})
    /\ \/ ready /\ NoFault /\ Propose(t, [rec EXCEPT !.phase = "Verified"])
       \/ Failing(ready) /\ RollbackFailure(t, rec)
    /\ UNCHANGED <<latest, journal, files, native, calls, crashes>>

\* commit: the candidate must still be active.
Commit(t) ==
    LET k == call[t].key
        rec == call[t].rec IN
    /\ Holds(t, "run", {"Verified"})
    /\ \/ /\ pointer = rec.prepared /\ NoFault
          /\ staged' = Cleared(k)
          /\ Propose(t, [rec EXCEPT !.phase = "Committed"])
       \/ /\ Failing(pointer = rec.prepared) /\ RollbackFailure(t, rec)
          /\ staged' \in {staged, IF pointer = rec.prepared THEN Cleared(k) ELSE staged}
    /\ UNCHANGED <<latest, journal, pointer, installed, native, calls, crashes>>

-----------------------------------------------------------------------------
(* Pruning and compensation.                                               *)

\* retains_update_recovery: the foreign updates that may still need their files.
Retaining(k) ==
    {other \in Cores \ {k} :
        /\ journal[other] # None
        /\ journal[other].phase \notin {"Current", "CleanupPending", "Succeeded", "RolledBack"}}

\* Mutant of Retained: the active release is not retained.
Retained_ReferencedOnly(k, active) ==
    UNION {{journal[o].current, journal[o].prepared} : o \in Retaining(k)} \ {NoCore}

\* The installations a prune for update k of the active release keeps.
Retained(k, active) ==
    ({active} \cup UNION {{journal[o].current, journal[o].prepared} : o \in Retaining(k)}) \ {NoCore}

\* Mutant of PruneFailed: a failed prune is rolled back like every other failure.
PruneFailed_Compensates(t, rec) ==
    IF rec.phase = "Committed"
    THEN RollbackFailure(t, rec)
    ELSE Finish(t, rec)

\* What follows a failed prune: the working Core stays, and cleanup is journalled once.
PruneFailed(t, rec) ==
    IF rec.phase = "Committed"
    THEN Propose(t, [rec EXCEPT !.phase = "CleanupPending"])
    ELSE Finish(t, rec)

\* prune: a plan for the active release and what foreign journals reference,
\* then the removal of the rest, which may stop anywhere.
Prune(t) ==
    LET k == call[t].key
        rec == call[t].rec
        keep == Retained(k, rec.prepared)
        able == pointer = rec.prepared /\ keep \subseteq installed IN
    /\ Holds(t, "run", {"Committed", "CleanupPending"})
    /\ \/ /\ able /\ NoFault
          /\ installed' = keep
          /\ staged' = [o \in Cores |-> IF o \in Retaining(k) THEN staged[o] ELSE None]
          /\ Propose(t, [rec EXCEPT !.phase = "Succeeded"])
       \/ /\ Failing(able)
          /\ \E gone \in SUBSET (installed \ keep) :
                 /\ able \/ gone = {}
                 /\ installed' = installed \ gone
          /\ PruneFailed(t, rec)
          /\ UNCHANGED staged
    /\ UNCHANGED <<latest, journal, pointer, native, calls, crashes>>

\* The outcome of complete_rollback.
Compensated(t, rec, failed) ==
    Propose(t, [rec EXCEPT !.phase = IF failed THEN "RecoveryRequired" ELSE "RolledBack"])

\* complete_rollback of an update whose journal holds no activation: discard the
\* workspace of a prepared candidate.
Discard(t) ==
    LET k == call[t].key
        rec == call[t].rec IN
    /\ Holds(t, "run", {"RollingBack"}) /\ ~rec.activation
    /\ \/ /\ NoFault
          /\ staged' = IF rec.prepared # NoCore THEN Cleared(k) ELSE staged
          /\ Compensated(t, rec, FALSE)
       \/ /\ rec.prepared # NoCore /\ Fault
          /\ Compensated(t, rec, TRUE)
          /\ staged' \in {staged, Cleared(k)}
    /\ UNCHANGED <<latest, journal, pointer, installed, native, calls, crashes>>

\* complete_rollback of an activated update: first the services, all of them,
\* unless the snapshot cannot be read.
Restore(t) ==
    /\ Holds(t, "run", {"RollingBack"}) /\ call[t].rec.activation
    /\ \/ NoFault /\ Goto(t, "restore", 1, FALSE)
       \/ Fault /\ Goto(t, "unwind", 0, TRUE)
    /\ UNCHANGED <<latest, journal, files, native, calls, crashes>>

\* Mutant of RestoreService: a success forgets an earlier failure.
RestoreService_LastDecides(t) ==
    LET rec == call[t].rec
        s == Services[call[t].at]
        able == snapshots[call[t].key].bound[s] = rec.current
        onward(failed) == IF call[t].at < Len(Services)
                          THEN Goto(t, "restore", call[t].at + 1, failed)
                          ELSE Goto(t, "unwind", 0, failed) IN
    /\ call[t].pc = "restore"
    /\ \/ able /\ InstallAccepted(s, rec.current) /\ onward(FALSE)
       \/ able /\ InstallFails(s, rec.current) /\ onward(TRUE)
       \/ ~able /\ NoFault /\ UNCHANGED bound /\ onward(TRUE)
    /\ UNCHANGED <<latest, journal, files, snapshots, calls, crashes>>

\* restore_service: the previous definition is installed, provided it is the one the
\* snapshot recorded.  The loop goes on after a failure, and nothing looks at the
\* service afterwards.
RestoreService(t) ==
    LET rec == call[t].rec
        s == Services[call[t].at]
        able == snapshots[call[t].key].bound[s] = rec.current
        onward(failed) == IF call[t].at < Len(Services)
                          THEN Goto(t, "restore", call[t].at + 1, failed)
                          ELSE Goto(t, "unwind", 0, failed) IN
    /\ call[t].pc = "restore"
    /\ \/ able /\ InstallAccepted(s, rec.current) /\ onward(call[t].failed)
       \/ able /\ InstallFails(s, rec.current) /\ onward(TRUE)
       \/ ~able /\ NoFault /\ UNCHANGED bound /\ onward(TRUE)
    /\ UNCHANGED <<latest, journal, files, snapshots, calls, crashes>>

\* Then artifacts.rollback moves the pointer back.  It may still fail to sync the
\* directory or to remove the workspace.
Unwind(t) ==
    LET rec == call[t].rec
        able == {rec.current, rec.prepared} \subseteq installed /\ pointer \in {rec.current, rec.prepared} IN
    /\ call[t].pc = "unwind"
    /\ \/ /\ able /\ NoFault
          /\ pointer' = rec.current
          /\ staged' = Cleared(call[t].key)
          /\ Compensated(t, rec, call[t].failed)
       \/ /\ Failing(able)
          /\ Compensated(t, rec, TRUE)
          /\ \/ UNCHANGED <<pointer, staged>>
             \/ able /\ pointer' = rec.current /\ staged' \in {staged, Cleared(call[t].key)}
    /\ UNCHANGED <<latest, journal, installed, native, calls, crashes>>

-----------------------------------------------------------------------------
(* The journal, the process, and the world outside.                        *)

\* Mutant of Write: the expected revision is not checked.
Write_AnyRevision(t) ==
    LET k == call[t].key
        next == [call[t].next EXCEPT !.rev = @ + 1]
        current == TRUE IN
    /\ call[t].pc = "write"
    /\ \/ /\ current /\ NoFault
          /\ journal' = [journal EXCEPT ![k] = next]
          /\ IF next.phase \in Terminal \cup {"CleanupPending"}
             THEN Finish(t, next)
             ELSE /\ call' = [call EXCEPT ![t].pc = "run", ![t].rec = next, ![t].next = None]
                  /\ UNCHANGED lock
       \/ /\ Failing(current)
          /\ \/ UNCHANGED journal
             \/ current /\ journal' = [journal EXCEPT ![k] = next]
          /\ Return(t, NoCore)
    /\ UNCHANGED <<latest, files, native, calls, crashes>>

\* replace_record: the write is conditional on the revision that was read.  A
\* store that fails may have stored the record; the call learns of it only when
\* its reread succeeds, which is the first disjunct.
Write(t) ==
    LET k == call[t].key
        next == [call[t].next EXCEPT !.rev = @ + 1]
        current == journal[k].rev = call[t].rec.rev IN
    /\ call[t].pc = "write"
    /\ \/ /\ current /\ NoFault
          /\ journal' = [journal EXCEPT ![k] = next]
          /\ IF next.phase \in Terminal \cup {"CleanupPending"}
             THEN Finish(t, next)
             ELSE /\ call' = [call EXCEPT ![t].pc = "run", ![t].rec = next, ![t].next = None]
                  /\ UNCHANGED lock
       \/ /\ Failing(current)
          /\ \/ UNCHANGED journal
             \/ current /\ journal' = [journal EXCEPT ![k] = next]
          /\ Return(t, NoCore)
    /\ UNCHANGED <<latest, files, native, calls, crashes>>

\* The node process stops; the operating system releases its lock.
Crash ==
    /\ crashes < MaxCrashes /\ crashes' = crashes + 1
    /\ \E t \in Threads : call[t].pc # "idle"
    /\ call' = [t \in Threads |-> Idle(NoCore)]
    /\ lock' = None
    /\ UNCHANGED <<latest, journal, files, native, calls, faults>>

Publish ==
    /\ latest < MaxCore /\ latest' = latest + 1
    /\ UNCHANGED <<journal, lock, files, native, call, calls, faults, crashes>>

\* Nobody is calling.
Rest == (\A t \in Threads : call[t].pc = "idle") /\ UNCHANGED vars

Step(t) ==
    \/ Begin(t) \/ Open(t) \/ Admit(t)
    \/ Prepare(t) \/ CompleteCurrent(t) \/ SnapshotServices(t) \/ Activate(t)
    \/ Rebind(t) \/ RebindService(t) \/ VerifyServices(t) \/ Commit(t)
    \/ Prune(t) \/ Discard(t) \/ Restore(t) \/ RestoreService(t) \/ Unwind(t)
    \/ Write(t)

Next == (\E t \in Threads : Step(t)) \/ Crash \/ Publish \/ Rest

Spec == Init /\ [][Next]_vars
-----------------------------------------------------------------------------
(* Properties.                                                             *)

Past(phase) == phase \notin {"Requested", "Prepared", "RollingBack", "Current", "RolledBack", "RecoveryRequired"}

\* Every variable holds a value of its type, and a stored record holds what
\* its phase needs: the required_* checks of the lifecycle never fail.
TypeOK ==
    /\ latest \in Cores /\ pointer \in Cores /\ installed \subseteq Cores
    /\ lock \in Threads \cup {None}
    /\ staged \in [Cores -> [core : Cores, from : Cores] \cup {None}]
    /\ bound \in [Resident -> Cores \cup {NoCore}]
    /\ snapshots \in [Cores -> [current : Cores, bound : [Resident -> Cores]] \cup {None}]
    /\ journal \in [Cores -> Records \cup {None}]
    /\ \A k \in Cores : journal[k] # None =>
           LET rec == journal[k] IN
           /\ rec.phase = "Prepared" \/ Past(rec.phase) => {rec.current, rec.prepared} \subseteq Cores
           /\ Past(rec.phase) => rec.snapshot
           /\ rec.snapshot => snapshots[k] # None /\ snapshots[k].current = rec.current
           /\ Past(rec.phase) /\ rec.phase # "ServicesSnapshotted" => rec.activation
           /\ rec.activation => rec.snapshot /\ rec.current # rec.prepared

\* The update has touched something and has not let go of it.
InFlight(k) ==
    /\ journal[k] # None
    /\ journal[k].phase \notin {"Current", "Succeeded", "RolledBack"}
    /\ journal[k].current # NoCore

\* At most one update is past its preparation and not finished, cleanup and
\* recovery included, whatever the threads read before they were admitted.
OneHandoff == \A j, k \in Cores : InFlight(j) /\ InFlight(k) => j = k

\* `current' always points at an installed release: no prune, of this update or
\* of another, removes it, and no activation or rollback moves it to a removed one.
ActiveIsInstalled == pointer \in installed

\* As long as an update may have to be rolled back, by itself or by recovery, the
\* release it started from is installed, and so is an activated candidate.
RollbackMaterial ==
    \A k \in Cores :
        InFlight(k) /\ journal[k].phase \notin {"Committed", "CleanupPending"} =>
            /\ journal[k].current \in installed
            /\ journal[k].activation => journal[k].prepared \in installed

Becomes(k, phase) ==
    /\ journal'[k] # None /\ journal'[k].phase = phase
    /\ journal[k] # journal'[k]

AllAt(core) == pointer = core /\ \A s \in Resident : bound[s] = core

\* An update is journalled as verified only while `current' and every resident
\* service are at the candidate, and as committed, after which the previous
\* release may be pruned, only while `current' is there and no service runs
\* another release.
HandoffIsVerified ==
    [][\A k \in Cores :
           /\ Becomes(k, "Verified") => AllAt(journal'[k].prepared)
           /\ Becomes(k, "Committed") =>
                  /\ pointer = journal'[k].prepared
                  /\ \A s \in Resident : bound[s] \in {journal'[k].prepared, NoCore}]_vars

\* An update that recorded its activation is journalled as rolled back only when
\* `current' is back at the release it started from and no resident service runs
\* another release: one whose restoration failed makes it recovery_required.  A
\* service whose restart was accepted may be down, for nothing verifies it
\* (complete_rollback, restore).
RollbackRestores ==
    [][\A k \in Cores : Becomes(k, "RolledBack") /\ journal'[k].activation =>
           /\ pointer = journal'[k].current
           /\ \A s \in Resident : bound[s] \in {journal'[k].current, NoCore}]_vars

Rank == [Requested |-> 1, Prepared |-> 2, ServicesSnapshotted |-> 3, Activated |-> 4,
         ServicesRebound |-> 5, Verified |-> 6, Committed |-> 7, CleanupPending |-> 8,
         RollingBack |-> 8, Current |-> 9, Succeeded |-> 9, RolledBack |-> 9, RecoveryRequired |-> 9]

\* A journal only moves forward, a finished one never changes, and a committed
\* one is never rolled back, also when a thread writes from a record it read long ago.
JournalForward ==
    [][\A k \in Cores : journal[k] # None /\ journal'[k] # journal[k] =>
           /\ Rank[journal[k].phase] < Rank[journal'[k].phase]
           /\ journal[k].phase \in {"Committed", "CleanupPending"} =>
                  journal'[k].phase \in {"CleanupPending", "Succeeded"}]_vars

\* A failed update leaves the previous release active: what the manager's readme
\* says of every failure before commit.
RolledBackIsRestored ==
    [][\A k \in Cores : Becomes(k, "RolledBack") /\ journal'[k].current # NoCore =>
           pointer = journal'[k].current]_vars

\* A call that answers "updated" has made the release it names the active one.
UpdatedIsActive ==
    [][\A t \in Threads : call[t].pc # "idle" /\ call'[t].answer # NoCore =>
           pointer' = call'[t].answer]_vars
=============================================================================
