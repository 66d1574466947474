----------------------------- MODULE Placement -----------------------------
(***************************************************************************)
(* core/placement: the lifecycle of placement groups.                      *)
(*                                                                         *)
(* Each group of tasks has one durable aggregate (its state, the state of  *)
(* every placement, the leases on its resources) and shares one durable    *)
(* index of leased resources with the other groups.  An operation holds no *)
(* lock: it reads the aggregate, writes a transitional state under the     *)
(* revision it read, drives the executor task by task, and writes the      *)
(* outcome under the revision of its first write.  Threads of the node run *)
(* operations side by side; the executor and the store may fail, with or   *)
(* without having done what they were asked; the process may stop between  *)
(* any two steps and leaves the tasks as they are.                         *)
(*                                                                         *)
(* A task is pinned to its own node.  The devices, ports and interface it  *)
(* is given there are one slot of that node, because their leases always   *)
(* change together.  A call of the executor is one step for each call it   *)
(* makes of Docker, of the Watchdog's protection files or of the material  *)
(* store.  Endpoints, failure texts, protection trips and processes that   *)
(* end by themselves are left out; updated_at is the thread that stamped   *)
(* the record.                                                             *)
(***************************************************************************)
EXTENDS Integers, Sequences, FiniteSets, FiniteSetsExt

CONSTANTS
    Groups,     \* placement group identities
    Order,      \* startup_order of each group: a sequence of sets of tasks
    Slots,      \* the slots of every node
    Threads,    \* threads that call PlacementManager
    None,
    Ops,        \* the operations they call
    Overlap,    \* whether two of them may work on one group at a time
    MaxCalls,   \* bound on the calls
    MaxFaults,  \* bound on failures of the executor
    MaxLost,    \* bound on failures of the store
    MaxCrashes, \* bound on restarts of the process
    MaxFailures \* bound on the failures and restarts together

TasksOf == [g \in Groups |-> UNION {Order[g][k] : k \in 1..Len(Order[g])}]
Tasks(g) == TasksOf[g]

ASSUME OrderAssumption == \A g \in Groups : Tasks(g) = 1..Cardinality(Tasks(g))
ASSUME SlotAssumption == Slots \subseteq Nat /\ Slots # {}

VARIABLES
    record,  \* the stored aggregate of each group
    index,   \* the stored resource index: <<group, task, slot>> entries
    task,    \* what exists on its node for each task
    thread,  \* what each thread is doing
    unresolved, \* groups whose last write was stored and yet reported as failed
    calls, faults, lost, crashes

stored == <<record, index, unresolved>>
vars == <<stored, task, thread, calls, faults, lost, crashes>>

GroupStates == {"Staging", "Staged", "Starting", "Running", "Stopping", "Stopped",
                "Recovering", "Removing", "Removed", "Failed"}
PlacementStates == {"Staging", "Staged", "Starting", "Running", "Stopping", "Stopped",
                    "Removing", "Removed", "Failed", "Unreachable"}
LeaseStates == {"Reserved", "Active", "Draining", "Released"}

\* What a task has on its node: the sealed plan, the container ("down" when it
\* exists and does not run) with the threads that hold the identity of its
\* process, and the protection.  "off" is unconfigured or disarmed; "begun" is
\* pending or starting, and any descriptor the Watchdog did not acknowledge.
TaskStates == [plan : BOOLEAN, box : {"none", "down", "up"}, known : SUBSET Threads,
               guard : {"off", "begun", "armed"}]
Absent == [plan |-> FALSE, box |-> "none", known |-> {}, guard |-> "off"]

Uniform(g, value) == [i \in Tasks(g) |-> value]

\* at: where the executor call for each task is, "-" before it and "ok" or "bad"
\* after it.  stale: another group's transaction came between the thread's read
\* of the index and its own.
Idle == [op |-> None, group |-> None, pc |-> "idle", cur |-> None, at |-> <<>>,
         retry |-> FALSE, stale |-> FALSE]

Init ==
    /\ record = [g \in Groups |-> None]
    /\ index = {} /\ unresolved = {}
    /\ task = [g \in Groups |-> Uniform(g, Absent)]
    /\ thread = [p \in Threads |-> Idle]
    /\ calls = 0 /\ faults = 0 /\ lost = 0 /\ crashes = 0

\* One more failure of a kind is within the bounds.
May(count, bound) == count < bound /\ faults + lost + crashes < MaxFailures

-----------------------------------------------------------------------------
(* The aggregate and its store.                                            *)

\* record_with: an aggregate rebuilt around new states.
With(cur, state, desired, place, lease) ==
    [cur EXCEPT !.state = state, !.desired = desired, !.place = place, !.lease = lease]

\* validate_record: launch plans are complete once staging is over, and a
\* terminal state agrees with every placement and lease.
Valid(rec) ==
    LET agree(place, lease) == \A i \in DOMAIN rec.place : rec.place[i] = place /\ rec.lease[i] = lease
    IN  /\ rec.state \in {"Staged", "Starting", "Running", "Stopping", "Stopped", "Recovering"}
              => rec.plans = DOMAIN rec.place
        /\ rec.state = "Staged" => agree("Staged", "Reserved")
        /\ rec.state = "Running" => agree("Running", "Active") /\ rec.desired = "Running"
        /\ rec.state = "Stopped" => agree("Stopped", "Reserved")
        /\ rec.state = "Removed" => agree("Removed", "Released")

\* The entries resource_index_with_record writes for one group.
Held(g, rec) == {<<g, i, rec.slot[i]>> : i \in {j \in DOMAIN rec.lease : rec.lease[j] # "Released"}}
Others(g) == {e \in index : e[1] # g}

\* Mutant: overlap with another group is not refused.
Available_Unchecked(g, rec) == TRUE

\* resource_index_with_record refuses a resource that another group holds.
Available(g, rec) ==
    \A e \in Others(g), h \in Held(g, rec) : <<e[2], e[3]>> # <<h[2], h[3]>>

\* Mutant: the revision that was read is not compared.
Replaceable_AnyRevision(g, rec) ==
    /\ record[g] # None
    /\ Held(g, rec) # {} => \E e \in index : e[1] = g
    /\ Available(g, rec)

\* DatabasePlacementStore::replace: the exact revision, and leases are not
\* taken again once the index knows none of the group.
Replaceable(g, rec) ==
    /\ record[g] # None
    /\ record[g].rev = rec.rev
    /\ Held(g, rec) # {} => \E e \in index : e[1] = g
    /\ Available(g, rec)

Creatable(g, rec) == record[g] = None /\ Available(g, rec)

Stored(p, rec) == [rec EXCEPT !.rev = @ + 1, !.updated_at = p]

\* Mutant: released leases stay in the index.
Store_KeepsReleased(g, p, rec) ==
    /\ record' = [record EXCEPT ![g] = Stored(p, rec)]
    /\ index' = index \cup Held(g, rec)

\* One transaction replaces the aggregate and the index.
Store(g, p, rec) ==
    /\ record' = [record EXCEPT ![g] = Stored(p, rec)]
    /\ index' = Others(g) \cup Held(g, rec)

Become(p, state) == thread' = [thread EXCEPT ![p] = [state EXCEPT !.stale = FALSE]]

\* Where a thread has a transaction to write.
WritePcs == {"create", "staged", "stage_failed", "finish", "begin_start", "started",
             "start_failed", "begin_stop", "stopped", "begin_remove", "removed", "observed"}

\* The transaction commits, and with it the index moves to its next revision.
Commit(p, rec, next) ==
    LET g == thread[p].group
        overtaken(q) == thread[q].pc \in WritePcs /\ thread[q].group # g
    IN  /\ Store(g, p, rec)
        /\ thread' = [q \in Threads |->
             IF q = p THEN [next EXCEPT !.stale = FALSE]
             ELSE IF overtaken(q) THEN [thread[q] EXCEPT !.stale = TRUE] ELSE thread[q]]

\* A write of the aggregate: it is stored, or refused for what it is or for the
\* index revision it was prepared from, or fails, perhaps after it was stored.
Write(p, rec, storable, next, failed) ==
    LET g == thread[p].group IN
    /\ \/ /\ storable /\ Commit(p, rec, next)
          /\ unresolved' = unresolved \ {g}
          /\ UNCHANGED lost
       \/ /\ ~storable \/ thread[p].stale
          /\ Become(p, failed)
          /\ UNCHANGED <<stored, lost>>
       \/ /\ May(lost, MaxLost)
          /\ lost' = lost + 1
          /\ \/ Become(p, failed) /\ UNCHANGED stored
             \/ /\ storable /\ Commit(p, rec, failed)
                /\ unresolved' = IF failed.retry THEN unresolved \ {g} ELSE unresolved \cup {g}
    /\ UNCHANGED <<task, calls, faults, crashes>>

\* Mutant: the aggregate is not validated before it is stored.
Replace_Unvalidated(p, rec, next, failed) ==
    Write(p, rec, Replaceable(thread[p].group, rec), next, failed)

Replace(p, rec, next, failed) ==
    Write(p, rec, Valid(rec) /\ Replaceable(thread[p].group, rec), next, failed)

\* replace_resolving_uncertainty: after an error the aggregate is read again.
\* It is what was to be stored, or still at the expected revision and worth one
\* more attempt, or the first error stands.
Settle(p, rec, next, failed) ==
    LET t == thread[p]
        found == record[t.group]
    IN  IF ~t.retry
        THEN Replace(p, rec, next, IF Valid(rec) THEN [t EXCEPT !.retry = TRUE] ELSE failed)
        ELSE \/ /\ found = Stored(p, rec)
                /\ Become(p, next)
                /\ UNCHANGED <<stored, task, calls, faults, lost, crashes>>
             \/ found # Stored(p, rec) /\ Replace(p, rec, next, failed)
             \/ /\ found = Stored(p, rec)
                /\ May(lost, MaxLost)
                /\ lost' = lost + 1
                /\ Become(p, failed)
                /\ unresolved' = unresolved \cup {t.group}
                /\ UNCHANGED <<record, index, task, calls, faults, crashes>>

-----------------------------------------------------------------------------
(* How an operation goes on when the executor calls of a step are over.    *)

Steps == {"stage", "status", "begin", "inspect", "none", "down", "up", "bind", "ready", "arm",
          "endpoint", "undisarm", "unstart", "disarm", "drop", "observe", "retire", "unslot",
          "absent", "discard", "look"}

Busy(t) == \E i \in DOMAIN t.at : t.at[i] \in Steps
Good(t) == {i \in DOMAIN t.at : t.at[i] = "ok"}
Bad(t) == {i \in DOMAIN t.at : t.at[i] = "bad"}

\* Staging goes task by task; the last one attempted is the present one.
Attempted(t) == {i \in DOMAIN t.at : t.at[i] # "-"}
Present(t) == Max(Attempted(t))

\* A failure takes back every attempted task (stage_failed), the last first.
AfterStage(t) ==
    IF t.at[Present(t)] = "ok"
    THEN [t EXCEPT !.pc = "staged"]
    ELSE [t EXCEPT !.pc = "unstage",
                   !.at = [i \in DOMAIN @ |-> IF i = Present(t) THEN "observe"
                                              ELSE IF i < Present(t) THEN "queued" ELSE "-"]]

AfterUnstage(t) ==
    LET queued == {i \in DOMAIN t.at : t.at[i] = "queued"}
    IN  IF queued = {} THEN [t EXCEPT !.pc = "stage_failed"] ELSE [t EXCEPT !.at[Max(queued)] = "observe"]

\* The phases with tasks still to be called.
Open(t) == {k \in DOMAIN Order[t.group] : \E i \in Order[t.group][k] : t.at[i] = "-"}

\* Mutant: every task is called with the first phase.
RunPhase_AllAtOnce(t, k, first) ==
    [t EXCEPT !.at = [i \in DOMAIN @ |-> IF @[i] = "-" THEN first ELSE @[i]]]

\* The tasks of a phase are called together; first is the calls' first step.
RunPhase(t, k, first) ==
    [t EXCEPT !.at = [i \in DOMAIN @ |-> IF i \in Order[t.group][k] /\ @[i] = "-" THEN first ELSE @[i]]]

\* Mutant: a task that could not be stopped or removed counts as done.
AfterPhase_AllSucceed(t) ==
    CASE Open(t) # {} -> RunPhase(t, Max(Open(t)), IF t.pc = "remove" THEN "observe" ELSE "disarm")
      [] Open(t) = {} -> [t EXCEPT !.at = [i \in DOMAIN @ |-> "ok"],
                                   !.pc = CASE @ = "preempt" -> "start_failed"
                                            [] @ = "stop" -> "stopped"
                                            [] @ = "remove" -> "removed"]

\* run_void_phases: from the last phase back, whatever fails.
AfterPhase(t) ==
    CASE Open(t) # {} -> RunPhase(t, Max(Open(t)), IF t.pc = "remove" THEN "observe" ELSE "disarm")
      [] Open(t) = {} -> [t EXCEPT !.pc = CASE @ = "preempt" -> "start_failed"
                                            [] @ = "stop" -> "stopped"
                                            [] @ = "remove" -> "removed"]

\* A task that is recorded as removed is not removed again.
Backward(t, pc, cur) ==
    AfterPhase([t EXCEPT !.pc = pc, !.cur = cur, !.retry = FALSE,
                         !.at = [i \in Tasks(t.group) |->
                             IF pc = "remove" /\ cur.place[i] = "Removed" THEN "ok" ELSE "-"]])

Forward(t, cur) ==
    RunPhase([t EXCEPT !.pc = "start", !.cur = cur, !.at = Uniform(t.group, "-")], 1, "status")

\* Mutant: a failure in the last phase does not preempt the group.
AfterStart_IgnoresLast(t) ==
    CASE Open(t) = {} -> [t EXCEPT !.pc = "started"]
      [] Open(t) # {} /\ Bad(t) # {} -> Backward(t, "preempt", t.cur)
      [] OTHER -> RunPhase(t, Min(Open(t)), "status")

\* At the end of a phase: any failure preempts the whole group.
AfterStart(t) ==
    CASE Bad(t) # {} -> Backward(t, "preempt", t.cur)
      [] Bad(t) = {} /\ Open(t) # {} -> RunPhase(t, Min(Open(t)), "status")
      [] OTHER -> [t EXCEPT !.pc = "started"]

\* observations_match: nothing to write when a settled group is as recorded.
Matches(rec, seen) ==
    /\ rec.state \notin {"Staging", "Starting", "Stopping", "Recovering", "Removing"}
    /\ seen = rec.place

After(t) ==
    CASE Busy(t) -> t
      [] ~Busy(t) /\ t.pc = "stage" -> AfterStage(t)
      [] ~Busy(t) /\ t.pc = "undo" -> Idle
      [] ~Busy(t) /\ t.pc = "unstage" -> AfterUnstage(t)
      [] ~Busy(t) /\ t.pc = "start" -> AfterStart(t)
      [] ~Busy(t) /\ t.pc \in {"preempt", "stop", "remove"} -> AfterPhase(t)
      [] ~Busy(t) /\ t.pc = "observe" -> IF Matches(t.cur, t.at) THEN Idle ELSE [t EXCEPT !.pc = "observed"]

-----------------------------------------------------------------------------
(* The executor, one action for each call it makes.  A call goes on as the *)
(* state it meets decides, or, by a fault, fails although that state would *)
(* have let it pass, with or without its effect.                           *)

To(step, s) == [step |-> step, s |-> s]

Proceed(p, i, normal, faulty) ==
    LET t == thread[p]
        end(r) == /\ task' = [task EXCEPT ![t.group][i] = r.s]
                  /\ Become(p, After([t EXCEPT !.at[i] = r.step]))
    IN  /\ \/ end(normal) /\ UNCHANGED faults
           \/ May(faults, MaxFaults) /\ faults' = faults + 1 /\ \E r \in faulty : end(r)
        /\ UNCHANGED <<stored, calls, lost, crashes>>

\* The call of thread p for task i is at this step.
At(p, i, step) == i \in DOMAIN thread[p].at /\ thread[p].at[i] = step

OnNode(p, i) == task[thread[p].group][i]
Placed(p, i) == thread[p].cur.place[i]

\* A publication that fails was not written, or was written and the Watchdog
\* acknowledged it too late or not at all.
Published(s, phase) == {s} \cup {[s EXCEPT !.guard = g] : g \in {"begun", phase}}

\* A container that could not be taken down is as it was, or stopped, or gone.
Boxed(s, box) == [s EXCEPT !.box = box, !.known = {}]
Dropped(s) == {s} \cup (IF s.box = "none" THEN {} ELSE {Boxed(s, "down"), Boxed(s, "none")})

\* stage: the sealed plan takes its place.
StageInputs(p, i) ==
    LET s == OnNode(p, i)
        staged == [s EXCEPT !.plan = TRUE]
    IN  /\ At(p, i, "stage")
        /\ Proceed(p, i, To("ok", staged), {To("bad", s), To("bad", staged)})

\* start_protected up to begin: protection that is neither unconfigured nor
\* disarmed refuses, and a failure of begin is not rolled back.
CheckStatus(p, i) ==
    LET s == OnNode(p, i) IN
    /\ At(p, i, "status")
    /\ Proceed(p, i, To(IF s.guard = "off" THEN "begin" ELSE "bad", s), {To("bad", s)})

BeginProtection(p, i) ==
    LET s == OnNode(p, i) IN
    /\ At(p, i, "begin")
    /\ Proceed(p, i, To("inspect", [s EXCEPT !.guard = "begun"]),
               {To("bad", left) : left \in Published(s, "begun")})

\* execution.start: the plan and a first look at the container.
InspectContainer(p, i) ==
    LET s == OnNode(p, i) IN
    /\ At(p, i, "inspect")
    /\ Proceed(p, i, To(IF s.plan THEN s.box ELSE "undisarm", s), {To("undisarm", s)})

\* Whether what was seen of the container lets it be created, started or reused,
\* and is followed by a running one.
Startable(seen, box) ==
    \/ seen = "none" /\ box = "none"
    \/ seen = "down" /\ box # "none"
    \/ seen = "up" /\ box = "up"

StartContainer(p, i) ==
    LET s == OnNode(p, i)
        seen == thread[p].at[i]
        started == [s EXCEPT !.box = "up", !.known = @ \cup {p}]
        half == IF Startable(seen, s.box) /\ s.box # "up" THEN {Boxed(s, "down"), Boxed(s, "up")} ELSE {}
    IN  /\ i \in DOMAIN thread[p].at /\ seen \in {"none", "down", "up"}
        /\ Proceed(p, i, IF Startable(seen, s.box) THEN To("bind", started) ELSE To("undisarm", s),
                   {To("undisarm", left) : left \in {s} \cup half})

\* The Watchdog binds a descriptor to a process that lives.
Lives(p, s) == s.box = "up" /\ p \in s.known

BindStarting(p, i) ==
    LET s == OnNode(p, i) IN
    /\ At(p, i, "bind")
    /\ Proceed(p, i, To(IF Lives(p, s) THEN "ready" ELSE "undisarm", [s EXCEPT !.guard = "begun"]),
               {To("undisarm", left) : left \in Published(s, "begun")})

WaitUntilReady(p, i) ==
    LET s == OnNode(p, i) IN
    /\ At(p, i, "ready")
    /\ Proceed(p, i, To(IF s.plan /\ s.box = "up" THEN "arm" ELSE "undisarm", s), {To("undisarm", s)})

Arm(p, i) ==
    LET s == OnNode(p, i) IN
    /\ At(p, i, "arm")
    /\ Proceed(p, i, IF Lives(p, s) THEN To("endpoint", [s EXCEPT !.guard = "armed"])
                                     ELSE To("undisarm", [s EXCEPT !.guard = "begun"]),
               {To("undisarm", left) : left \in Published(s, "armed")})

ReadEndpoint(p, i) ==
    LET s == OnNode(p, i) IN
    /\ At(p, i, "endpoint")
    /\ Proceed(p, i, To(IF s.plan THEN "ok" ELSE "undisarm", s), {To("undisarm", s)})

\* rollback_incomplete_start: both parts are best effort, and whichever container
\* has the placement's name is taken down.
RollbackDisarm(p, i) ==
    LET s == OnNode(p, i) IN
    /\ At(p, i, "undisarm")
    /\ Proceed(p, i, To("unstart", [s EXCEPT !.guard = "off"]),
               {To("unstart", left) : left \in Published(s, "off")})

RollbackStart(p, i) ==
    LET s == OnNode(p, i) IN
    /\ At(p, i, "unstart")
    /\ Proceed(p, i, To("bad", IF s.plan THEN Boxed(s, "none") ELSE s),
               {To("bad", left) : left \in IF s.plan THEN Dropped(s) ELSE {s}})

\* stop disarms, then takes the container down; it needs the plan.
Disarm(p, i) ==
    LET s == OnNode(p, i) IN
    /\ At(p, i, "disarm")
    /\ Proceed(p, i, To("drop", [s EXCEPT !.guard = "off"]),
               {To("bad", left) : left \in Published(s, "off")})

StopContainer(p, i) ==
    LET s == OnNode(p, i) IN
    /\ At(p, i, "drop")
    /\ Proceed(p, i, IF s.plan THEN To("ok", Boxed(s, "none")) ELSE To("bad", s),
               {To("bad", left) : left \in IF s.plan THEN Dropped(s) ELSE {s}})

\* remove refuses a running process (which it knows by its plan) and a
\* protection that is neither unconfigured nor disarmed; then it removes the
\* protection's files.
ObserveStopped(p, i) ==
    LET s == OnNode(p, i) IN
    /\ At(p, i, "observe")
    /\ Proceed(p, i, To(IF s.plan /\ s.box = "up" THEN "bad" ELSE "retire", s), {To("bad", s)})

CheckRetired(p, i) ==
    LET s == OnNode(p, i) IN
    /\ At(p, i, "retire")
    /\ Proceed(p, i, To(IF s.guard = "off" THEN "unslot" ELSE "bad", s), {To("bad", s)})

Retire(p, i) ==
    LET s == OnNode(p, i)
        retired == [s EXCEPT !.guard = "off"]
    IN  /\ At(p, i, "unslot")
        /\ Proceed(p, i, To("absent", retired), {To("bad", s), To("bad", retired)})

\* The provider's remove refuses any container, and a plan that is not there
\* unless the placement's recorded state says it may never have been staged.
ProveAbsent(p, i) ==
    LET s == OnNode(p, i)
        absent == IF s.plan THEN s.box = "none" ELSE Placed(p, i) \in {"Staging", "Failed", "Removed"}
    IN  /\ At(p, i, "absent")
        /\ Proceed(p, i, To(IF absent THEN "discard" ELSE "bad", s), {To("bad", s)})

RemoveMaterial(p, i) ==
    LET s == OnNode(p, i)
        removed == [s EXCEPT !.plan = FALSE]
    IN  /\ At(p, i, "discard")
        /\ Proceed(p, i, To("ok", removed), {To("bad", s), To("bad", removed)})

\* observe, from the container and the placement as the caller read it.
Observed(s, placed) ==
    CASE s.plan /\ s.box = "up" -> IF s.guard = "armed" THEN "Running" ELSE "Failed"
      [] s.plan /\ s.box = "down" -> "Failed"
      [] s.plan /\ s.box = "none" -> IF placed \in {"Stopped", "Removed"} THEN placed ELSE "Staged"
      [] ~s.plan -> IF placed \in {"Staged", "Stopped", "Removed"} THEN placed ELSE "Failed"

\* A protection that is not acknowledged cannot be observed.
ObserveTask(p, i) ==
    LET s == OnNode(p, i)
        seen == Observed(s, Placed(p, i))
    IN  /\ At(p, i, "look")
        /\ \E answer \in IF s.guard = "begun" THEN {seen, "Unreachable"} ELSE {seen} :
             Proceed(p, i, To(answer, s), {To("Unreachable", s)})

CallExecutor(p, i) ==
    \/ StageInputs(p, i)
    \/ CheckStatus(p, i) \/ BeginProtection(p, i) \/ InspectContainer(p, i) \/ StartContainer(p, i)
    \/ BindStarting(p, i) \/ WaitUntilReady(p, i) \/ Arm(p, i) \/ ReadEndpoint(p, i)
    \/ RollbackDisarm(p, i) \/ RollbackStart(p, i)
    \/ Disarm(p, i) \/ StopContainer(p, i)
    \/ ObserveStopped(p, i) \/ CheckRetired(p, i) \/ Retire(p, i) \/ ProveAbsent(p, i)
    \/ RemoveMaterial(p, i)
    \/ ObserveTask(p, i)

-----------------------------------------------------------------------------
(* The operations begin: one read of the aggregate and the early returns.  *)

Call(p, op, g) ==
    /\ op \in Ops
    /\ thread[p] = Idle
    /\ Overlap \/ \A q \in Threads : thread[q].group # g
    /\ calls < MaxCalls
    /\ calls' = calls + 1
    /\ UNCHANGED <<stored, task, faults, lost, crashes>>

Enter(p, op, g, pc) ==
    /\ Call(p, op, g)
    /\ Become(p, [Idle EXCEPT !.op = op, !.group = g, !.pc = pc, !.cur = record[g]])

\* allocate: on each node the lowest slot that the index does not hold.
Free(i) == {s \in Slots : \A e \in index : <<e[2], e[3]>> # <<i, s>>}

Draft(g) ==
    [state |-> "Staging", desired |-> "Running", place |-> Uniform(g, "Staging"),
     lease |-> Uniform(g, "Reserved"), slot |-> [i \in Tasks(g) |-> Min(Free(i))],
     plans |-> {}, rev |-> 0, updated_at |-> None]

\* An existing group is replayed or refused.
Stage(p, g) ==
    /\ record[g] = None
    /\ \A i \in Tasks(g) : Free(i) # {}
    /\ Call(p, "stage", g)
    /\ Become(p, [Idle EXCEPT !.op = "stage", !.group = g, !.pc = "create", !.cur = Draft(g)])

AnyReleased(rec) == \E i \in DOMAIN rec.lease : rec.lease[i] = "Released"

Start(p, g) ==
    /\ record[g] # None
    /\ record[g].state \in {"Staged", "Stopped"}
    /\ Enter(p, "start", g, "begin_start")

\* What stop does not return from at once.
Stoppable(rec) == rec.state \notin {"Stopped", "Removed"} /\ ~AnyReleased(rec)

Stop(p, g) ==
    /\ record[g] # None
    /\ Stoppable(record[g])
    /\ Enter(p, "stop", g, "begin_stop")

Recover(p, g) ==
    /\ record[g] # None
    /\ record[g].state = "Failed" /\ ~AnyReleased(record[g])
    /\ Enter(p, "recover", g, "begin_stop")

Remove(p, g) ==
    /\ record[g] # None
    /\ record[g].state # "Removed"
    /\ Enter(p, "remove", g,
             IF record[g].state \in {"Running", "Starting", "Recovering"}
             THEN "begin_stop" ELSE "begin_remove")

\* One read of the aggregate, and then an observation of every task.
Reconcile(p, g) ==
    /\ record[g] # None
    /\ record[g].state # "Removed"
    /\ Call(p, "reconcile", g)
    /\ Become(p, [Idle EXCEPT !.op = "reconcile", !.group = g, !.pc = "observe",
                              !.cur = record[g], !.at = Uniform(g, "look")])

-----------------------------------------------------------------------------
(* Staging: one task after another, each recorded before the next.         *)

\* The thread goes on with the next task from the aggregate it wrote or read.
Continue(t, cur) ==
    LET left == Tasks(t.group) \ Attempted(t)
    IN  IF left = {} THEN [t EXCEPT !.pc = "finish", !.cur = cur, !.at = <<>>]
                     ELSE [t EXCEPT !.pc = "stage", !.cur = cur, !.at[Min(left)] = "stage"]

Create(p) ==
    LET t == thread[p] IN
    /\ t.pc = "create"
    /\ Write(p, t.cur, Creatable(t.group, t.cur),
             Continue([t EXCEPT !.at = Uniform(t.group, "-")], Stored(p, t.cur)), Idle)

RecordStaged(p) ==
    LET t == thread[p]
        i == Present(t)
        rec == [With(t.cur, "Staging", "Running", [t.cur.place EXCEPT ![i] = "Staged"],
                     t.cur.lease) EXCEPT !.plans = @ \cup {i}]
    IN  /\ t.pc = "staged"
        /\ Replace(p, rec, Continue(t, Stored(p, rec)), [t EXCEPT !.pc = "reread"])

\* After an error the aggregate is read: staging goes on from whatever records
\* this task's plan, and otherwise takes back this task only.
RereadStaged(p) ==
    LET t == thread[p]
        i == Present(t)
        undo == [t EXCEPT !.pc = "undo", !.at[i] = "observe"]
        found == record[t.group]
    IN  /\ t.pc = "reread"
        /\ \/ /\ Become(p, IF found # None /\ i \in found.plans THEN Continue(t, found) ELSE undo)
              /\ UNCHANGED lost
           \/ /\ May(lost, MaxLost)
              /\ lost' = lost + 1
              /\ Become(p, undo)
        /\ UNCHANGED <<stored, task, calls, faults, crashes>>

StageFailed(p) ==
    LET t == thread[p]
        rec == With(t.cur, "Failed", "Stopped",
                    [i \in Tasks(t.group) |-> IF i \in Good(t) THEN "Removed" ELSE "Failed"],
                    [i \in Tasks(t.group) |-> IF i \in Bad(t) THEN "Draining" ELSE "Released"])
    IN  /\ t.pc = "stage_failed"
        /\ Replace(p, rec, Idle, Idle)

Finish(p) ==
    LET t == thread[p]
        rec == With(t.cur, "Staged", "Running", t.cur.place, Uniform(t.group, "Reserved"))
    IN  /\ t.pc = "finish"
        /\ Settle(p, rec, Idle, Idle)

-----------------------------------------------------------------------------
(* Starting: phase after phase, the tasks of a phase together.             *)

BeginStart(p) ==
    LET t == thread[p]
        rec == With(t.cur, IF t.op = "recover" THEN "Recovering" ELSE "Starting", "Running",
                    Uniform(t.group, "Starting"), Uniform(t.group, "Reserved"))
    IN  /\ t.pc = "begin_start"
        /\ Replace(p, rec, Forward(t, Stored(p, rec)), Idle)

PublishRunning(p) ==
    LET t == thread[p]
        rec == With(t.cur, "Running", "Running", Uniform(t.group, "Running"), Uniform(t.group, "Active"))
    IN  /\ t.pc = "started"
        /\ Settle(p, rec, Idle, Backward(t, "preempt", t.cur))

-----------------------------------------------------------------------------
(* Stopping and removing: every phase is run, whatever fails.              *)

\* action_placements and leases_for_action.
Outcome(t, good, bad) == [i \in Tasks(t.group) |-> IF i \in Good(t) THEN good ELSE bad]

StartFailed(p) ==
    LET t == thread[p]
        rec == With(t.cur, "Failed", "Stopped", Outcome(t, "Stopped", "Failed"),
                    Outcome(t, "Reserved", "Draining"))
    IN  /\ t.pc = "start_failed"
        /\ Settle(p, rec, Idle, Idle)

Desired(op) ==
    CASE op = "stop" -> "Stopped" [] op = "recover" -> "Running" [] op = "remove" -> "Removed"

BeginStop(p) ==
    LET t == thread[p]
        rec == With(t.cur, "Stopping", Desired(t.op), Uniform(t.group, "Stopping"),
                    Uniform(t.group, "Draining"))
    IN  /\ t.pc = "begin_stop"
        /\ Replace(p, rec, Backward(t, "stop", Stored(p, rec)), Idle)

\* recover and remove go on from a group that stopped; a group that did not is
\* returned as it is.
PublishStopped(p) ==
    LET t == thread[p]
        rec == With(t.cur, IF Bad(t) = {} THEN "Stopped" ELSE "Failed", Desired(t.op),
                    Outcome(t, "Stopped", "Failed"), Outcome(t, "Reserved", "Draining"))
        goOn(pc) == [Idle EXCEPT !.op = t.op, !.group = t.group, !.pc = pc, !.cur = Stored(p, rec)]
        next == CASE Bad(t) = {} /\ t.op = "recover" -> goOn("begin_start")
                  [] Bad(t) = {} /\ t.op = "remove" -> goOn("begin_remove")
                  [] OTHER -> Idle
    IN  /\ t.pc = "stopped"
        /\ Settle(p, rec, next, Idle)

\* What is removed or released already stays so.
BeginRemove(p) ==
    LET t == thread[p]
        rec == With(t.cur, "Removing", "Removed",
                    [i \in Tasks(t.group) |-> IF t.cur.place[i] = "Removed" THEN "Removed" ELSE "Removing"],
                    [i \in Tasks(t.group) |-> IF t.cur.lease[i] = "Released" THEN "Released" ELSE "Draining"])
    IN  /\ t.pc = "begin_remove"
        /\ Replace(p, rec, Backward(t, "remove", Stored(p, rec)), Idle)

\* Mutant: a removal that failed releases every lease.
PublishRemoved_ReleasesAll(p) ==
    LET t == thread[p]
        rec == With(t.cur, IF Bad(t) = {} THEN "Removed" ELSE "Failed", "Removed",
                    Outcome(t, "Removed", "Failed"), Uniform(t.group, "Released"))
    IN  /\ t.pc = "removed"
        /\ Settle(p, rec, Idle, Idle)

PublishRemoved(p) ==
    LET t == thread[p]
        rec == With(t.cur, IF Bad(t) = {} THEN "Removed" ELSE "Failed", "Removed",
                    Outcome(t, "Removed", "Failed"), Outcome(t, "Released", "Draining"))
    IN  /\ t.pc = "removed"
        /\ Settle(p, rec, Idle, Idle)

\* The aggregate takes over what was observed; released leases are taken again.
PublishObserved(p) ==
    LET t == thread[p]
        all == \A i \in Tasks(t.group) : t.at[i] = "Running"
        rec == With(t.cur, IF all THEN "Running" ELSE "Failed", t.cur.desired, t.at,
                    [i \in Tasks(t.group) |-> IF t.at[i] = "Running" THEN "Active" ELSE "Draining"])
    IN  /\ t.pc = "observed"
        /\ Settle(p, rec, Idle, Idle)

-----------------------------------------------------------------------------
\* The process stops; its tasks stay.
Crash ==
    /\ May(crashes, MaxCrashes)
    /\ \E p \in Threads : thread[p] # Idle
    /\ crashes' = crashes + 1
    /\ thread' = [p \in Threads |-> Idle]
    /\ task' = [g \in Groups |-> [i \in Tasks(g) |-> [task[g][i] EXCEPT !.known = {}]]]
    /\ UNCHANGED <<stored, calls, faults, lost>>

\* The callers may call no more.
Rest == (\A p \in Threads : thread[p] = Idle) /\ UNCHANGED vars

Step(p) ==
    \/ Create(p) \/ RecordStaged(p) \/ RereadStaged(p) \/ StageFailed(p) \/ Finish(p)
    \/ BeginStart(p) \/ PublishRunning(p) \/ StartFailed(p)
    \/ BeginStop(p) \/ PublishStopped(p)
    \/ BeginRemove(p) \/ PublishRemoved(p) \/ PublishObserved(p)
    \/ \E i \in UNION {Tasks(g) : g \in Groups} : CallExecutor(p, i)

Next ==
    \/ \E p \in Threads : Step(p)
    \/ \E p \in Threads, g \in Groups :
         Stage(p, g) \/ Start(p, g) \/ Stop(p, g) \/ Recover(p, g) \/ Remove(p, g) \/ Reconcile(p, g)
    \/ Crash
    \/ Rest

Spec == Init /\ [][Next]_vars

-----------------------------------------------------------------------------
(* Properties.                                                             *)

Aggregates(g) ==
    [state : GroupStates, desired : {"Running", "Stopped", "Removed"},
     place : [Tasks(g) -> PlacementStates], lease : [Tasks(g) -> LeaseStates],
     slot : [Tasks(g) -> Slots], plans : SUBSET Tasks(g), rev : Nat,
     updated_at : Threads \cup {None}]

\* Every stored aggregate is one validate_record accepts, and every thread works
\* on a group and on tasks of that group.
TypeOK ==
    /\ \A g \in Groups : record[g] # None => record[g] \in Aggregates(g) /\ Valid(record[g])
    /\ \A e \in index : e[1] \in Groups /\ e[2] \in Tasks(e[1]) /\ e[3] \in Slots
    /\ \A g \in Groups : task[g] \in [Tasks(g) -> TaskStates]
    /\ \A p \in Threads : thread[p] # Idle =>
         /\ thread[p].group \in Groups
         /\ thread[p].cur \in Aggregates(thread[p].group)
         /\ DOMAIN thread[p].at \in {{}, Tasks(thread[p].group)}

\* The resource index holds exactly the leases that the stored aggregates have
\* not released, whatever transactions failed, were lost or were overtaken.
IndexExact == index = UNION {Held(g, record[g]) : g \in {h \in Groups : record[h] # None}}

HasContainer(g, i) == task[g][i].box # "none"

\* A container exists only under a lease its group has not released: removal,
\* staging rollback and every retry after a fault or a restart keep the
\* resources of a task they could not take down.
ProcessIsLeased ==
    \A g \in Groups : \A i \in Tasks(g) :
        HasContainer(g, i) => record[g] # None /\ record[g].lease[i] # "Released"

\* A group has a slot while it has a container or an unreleased lease on it.
Occupies(g, i) == record[g] # None /\ (HasContainer(g, i) \/ record[g].lease[i] # "Released")

\* No two groups have the same slot of a node, by container or by lease, although
\* allocation chooses slots from an index it read before its transaction, and a
\* reconciliation takes leases back.
OneGroupPerSlot ==
    \A g, h \in Groups : g # h =>
        \A i \in Tasks(g) \cap Tasks(h) :
            Occupies(g, i) /\ Occupies(h, i) => record[g].slot[i] # record[h].slot[i]

\* A removed group is final: no operation that read it earlier, and no
\* reconciliation, brings it back.
RemovedIsFinal ==
    [][\A g \in Groups :
         (record[g] # None /\ record[g].state = "Removed") => record'[g] = record[g]]_record

Quiet(g) == \A p \in Threads : thread[p].group # g

Serving(s) == s.plan /\ s.box = "up" /\ s.guard = "armed"

\* A group recorded as running, with no operation under way, has every task
\* ready and protected: the endpoint it publishes is served.  The exception is
\* the code's own: replace_resolving_uncertainty answers with the first error
\* when its second attempt is stored and fails too, and the start is preempted
\* although it is recorded.
RunningIsReady ==
    \A g \in Groups :
        (Quiet(g) /\ g \notin unresolved /\ record[g] # None /\ record[g].state = "Running") =>
            \A i \in Tasks(g) : Serving(task[g][i])

\* A group recorded as staged, stopped or removed, with no operation under way,
\* has no container and no protection in force, and it has the plans of its
\* tasks unless it is removed.
StoppedIsQuiet ==
    \A g \in Groups :
        (Quiet(g) /\ record[g] # None /\ record[g].state \in {"Staged", "Stopped", "Removed"}) =>
            \A i \in Tasks(g) :
                task[g][i] = [Absent EXCEPT !.plan = (record[g].state # "Removed")]

\* A container is started only when every task of the earlier phases is ready.
PhasesInOrder ==
    [][\A g \in Groups : \A k \in 1..Len(Order[g]) : \A i \in Order[g][k] :
         (task[g][i].box # "up" /\ task'[g][i].box = "up") =>
             \A j \in UNION {Order[g][m] : m \in 1..(k - 1)} : Serving(task[g][j])]_task
=============================================================================
