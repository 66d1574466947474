--------------------------- MODULE GatewayProofs ---------------------------
(***************************************************************************)
(* The type invariant of Gateway, inductive together with exact ownership, *)
(* and the effects its actions have on the state the safety invariants     *)
(* relate.                                                                 *)
(***************************************************************************)
EXTENDS GatewayTypes

\* The outcome of an attempt keeps the types.
LEMMA OutcomeType ==
    ASSUME TypeOK, NEW r \in Requests,
           AttemptSucceeds(r) \/ AttemptFails(r) \/ AttemptRetries(r)
    PROVE  TypeOK'
<1>1. PICK next \in ActivePc : Outcome(r, next)
  BY DEF ActivePc, AttemptSucceeds, AttemptFails, AttemptRetries
<1>2. now' \in [Requests -> Nat] /\ HostTypeOK'
  BY <1>1, ReadClockType DEF Outcome
<1>3. PcTypeOK'
  BY Zenon, <1>1, PcType DEF Outcome, Pc
<1>4. Request[r].context \in Nat /\ Request[r].output \in Nat
  BY RequestAssumption
<1>5. \A output \in 0..Request[r].output : Request[r].context + output \in Nat
  BY <1>4
<1>6. UNCHANGED tokens \/ \E t \in Nat : tokens' = [tokens EXCEPT ![r] = t]
  BY <1>5 DEF AttemptSucceeds, AttemptFails, AttemptRetries
<1>7. tokens' \in [Requests -> Nat]
  BY Zenon, <1>6 DEF TypeOK, ThreadTypeOK
<1>8. ThreadTypeOK'
  BY <1>1, <1>2, <1>7 DEF Outcome, TypeOK, ThreadTypeOK
<1> QED
  BY <1>1, <1>2, <1>3, <1>8, Frame DEF Outcome, TypeOK

\* Closing a request without a health observation keeps the types.
LEMMA ReleasingType ==
    ASSUME TypeOK, NEW r \in Requests, CancelExecution(r) \/ CompleteWithoutClock(r)
    PROVE  TypeOK'
<1>1. ActivityTypeOK' /\ PrincipalTypeOK'
  BY ReleaseReservationType, PrincipalType DEF CancelExecution, CompleteWithoutClock
<1>2. PcTypeOK' /\ EntryTypeOK' /\ ThreadTypeOK'
  BY ReturnType DEF CancelExecution, CompleteWithoutClock, Pc, ClosedPc
<1>3. TelemetryTypeOK'
  BY CountType DEF CancelExecution, CompleteWithoutClock, Counters
<1> QED
  BY <1>1, <1>2, <1>3, Frame DEF CancelExecution, CompleteWithoutClock, TypeOK

\* Persisting a usage record keeps the collection typed.
LEMMA RecordUsageType == ASSUME TypeOK, NEW r \in Requests, RecordUsage(r) PROVE TypeOK'
<1>1. PcTypeOK' /\ EntryTypeOK' /\ ThreadTypeOK'
  BY ReturnType DEF RecordUsage, Pc, ClosedPc
<1>2. usage' \subseteq UsageRecord /\ IsFiniteSet(usage')
  <2> DEFINE u == [request |-> r, key |-> KeyOf(r), received_at |-> entry[r].received_at,
                   completed_at |-> now[r], tokens |-> tokens[r]]
  <2>1. usage \subseteq UsageRecord /\ IsFiniteSet(usage)
    BY DEF TypeOK, HostTypeOK
  <2>2. CASE UNCHANGED usage
    BY <2>1, <2>2
  <2>3. CASE KeyOf(r) # NoKey /\ usage' = usage \cup {u}
    <3>1. entry[r].received_at \in Nat /\ now[r] \in Nat /\ tokens[r] \in Nat
      BY DEF TypeOK, EntryTypeOK, Entry, ThreadTypeOK
    <3>2. u \in UsageRecord
      BY <2>3, <3>1, KeyType DEF UsageRecord
    <3> HIDE DEF u
    <3> QED
      BY <2>1, <2>3, <3>2, FS_AddElement
  <2> QED
    BY <2>2, <2>3 DEF RecordUsage
<1>3. HostTypeOK'
  BY <1>2 DEF RecordUsage, TypeOK, HostTypeOK
<1> QED
  BY <1>1, <1>3, Frame DEF RecordUsage, TypeOK

-----------------------------------------------------------------------------
(* Ownership.  Reading active_requests[r] as a route needs that r owns one,  *)
(* so the type invariant is inductive together with OwnershipExact.          *)

Sound == TypeOK /\ OwnershipExact

\* A thread whose terminal operation runs owns a route.
LEMMA ActiveGroup ==
    ASSUME Sound, NEW r \in Requests, pc[r] \in ActivePc
    PROVE  active_requests[r] \in Groups /\ now[r] \in Nat
BY DEF Sound, TypeOK, ActivityTypeOK, ThreadTypeOK, OwnershipExact

\* A failure observed on an owned route keeps the route state typed.
LEMMA RouteFailureType ==
    ASSUME Sound, NEW r \in Requests, pc[r] \in ActivePc, UNCHANGED prefix_affinity,
           \/ UNCHANGED <<failure_counts, unavailable_until>>
           \/ mark_route_failure(active_requests[r], now[r])
    PROVE  RouteTypeOK'
<1>1. TypeOK
  BY DEF Sound
<1>2. CASE UNCHANGED <<failure_counts, unavailable_until>>
  BY <1>1, <1>2 DEF TypeOK, RouteTypeOK
<1>3. CASE mark_route_failure(active_requests[r], now[r])
  <2>1. /\ failure_counts' \in [Groups -> 0..MaxBackendFailures]
        /\ unavailable_until' \in [Groups -> Nat]
    BY <1>1, <1>3, ActiveGroup, CooledDownType DEF mark_route_failure
  <2> QED
    BY <1>1, <2>1 DEF TypeOK, RouteTypeOK
<1> QED
  BY <1>2, <1>3

\* Closing a request with a failed route keeps the types.
LEMMA FailingType ==
    ASSUME Sound, NEW r \in Requests, FailExecution(r) \/ RetryFails(r)
    PROVE  TypeOK'
<1>1. TypeOK
  BY DEF Sound
<1>2. ActivityTypeOK' /\ PrincipalTypeOK'
  BY <1>1, ReleaseReservationType, PrincipalType DEF FailExecution, RetryFails
<1>3. PcTypeOK' /\ EntryTypeOK' /\ ThreadTypeOK'
  BY <1>1, ReturnType DEF FailExecution, RetryFails, Pc, ClosedPc
<1>4. TelemetryTypeOK'
  BY <1>1, CountType DEF FailExecution, RetryFails, Counters
<1>5. RouteTypeOK'
  BY RouteFailureType DEF FailExecution, RetryFails, ActivePc
<1> QED
  BY <1>1, <1>2, <1>3, <1>4, <1>5, Frame DEF FailExecution, RetryFails, TypeOK

\* Completion keeps the types: the owned route's health, the learned prefix and
\* the charged window.
LEMMA CompleteExecutionType ==
    ASSUME Sound, NEW r \in Requests, CompleteExecution(r)
    PROVE  TypeOK'
<1>1. TypeOK /\ active_requests[r] \in Groups /\ now[r] \in Nat
  BY ActiveGroup DEF Sound, CompleteExecution, ActivePc
<1>2. ActivityTypeOK' /\ PrincipalTypeOK'
  BY <1>1, ReleaseReservationType, PrincipalType DEF CompleteExecution
<1>3. PcTypeOK'
  BY Zenon, <1>1, PcType DEF CompleteExecution, Pc, ClosedPc
<1>4. TelemetryTypeOK'
  BY <1>1, CountType DEF CompleteExecution, Counters
<1>5. RouteTypeOK'
  <2>1. prefix_affinity' \in [PrefixKeys -> [group : Groups \cup {NoGroup}, deadline : Nat]]
    <3>1. CASE Request[r].prefix = NoPrefix
      BY <1>1, <3>1 DEF CompleteExecution, TypeOK, RouteTypeOK
    <3>2. CASE Request[r].prefix # NoPrefix
      BY <1>1, <3>2, AffinityType DEF CompleteExecution
    <3> QED
      BY <3>1, <3>2
  <2>2. 0 \in 0..MaxBackendFailures
    BY BoundsAssumption
  <2>3. /\ failure_counts \in [Groups -> 0..MaxBackendFailures]
        /\ unavailable_until \in [Groups -> Nat]
    BY <1>1 DEF TypeOK, RouteTypeOK
  <2>4. mark_route_success(active_requests[r])
    BY DEF CompleteExecution
  <2>5. /\ failure_counts' \in [Groups -> 0..MaxBackendFailures]
        /\ unavailable_until' \in [Groups -> Nat]
    BY <1>1, <2>2, <2>3, <2>4 DEF mark_route_success
  <2> QED
    BY <2>1, <2>5 DEF RouteTypeOK
<1>6. PolicyTypeOK'
  <2> DEFINE T == [at : Nat, tokens : Nat]
             e == [at |-> now[r], tokens |-> tokens[r]]
  <2>1. e \in T /\ \A k \in Keys : token_windows[k] \in Seq(T)
    BY <1>1 DEF TypeOK, ThreadTypeOK, PolicyTypeOK
  <2>2. token_windows' = [k \in Keys |-> IF k = KeyOf(r) THEN Append(token_windows[k], e)
                                                         ELSE token_windows[k]]
    BY DEF CompleteExecution
  <2> HIDE DEF T, e
  <2>3. \A k \in Keys : Append(token_windows[k], e) \in Seq(T)
    BY <2>1, AppendType
  <2>4. token_windows' \in [Keys -> Seq(T)]
    BY <2>1, <2>2, <2>3
  <2> QED
    BY <1>1, <2>4 DEF CompleteExecution, TypeOK, PolicyTypeOK, T
<1> QED
  BY <1>1, <1>2, <1>3, <1>4, <1>5, <1>6, Frame DEF CompleteExecution, TypeOK

\* A retry onto a sibling route keeps the types.
LEMMA RetrySelectedType == ASSUME Sound, NEW r \in Requests, RetrySelected(r) PROVE TypeOK'
<1>1. TypeOK
  BY DEF Sound
<1>2. PICK g \in Groups : reserve_route(r, g, Released(r))
  BY Zenon, SelectedIsAvailable DEF RetrySelected
<1>3. ActivityTypeOK' /\ PcTypeOK' /\ attempts' \in [Requests -> Nat]
  BY <1>1, <1>2, ReleasedType, ReserveRouteType
<1>4. TelemetryTypeOK'
  BY Zenon, <1>1, CountType DEF RetrySelected, Counters
<1>5. RouteTypeOK'
  BY Zenon, RouteFailureType DEF RetrySelected, ActivePc
<1>6. ThreadTypeOK'
  BY Zenon, <1>1, <1>3 DEF RetrySelected, TypeOK, ThreadTypeOK
<1> QED
  BY <1>1, <1>3, <1>4, <1>5, <1>6, Frame DEF RetrySelected, TypeOK

\* A retry into the queue keeps the types.
LEMMA RetryQueuedType == ASSUME Sound, NEW r \in Requests, RetryQueued(r) PROVE TypeOK'
<1>1. TypeOK
  BY DEF Sound
<1>2. QueueTypeOK' /\ PcTypeOK' /\ polls' \in [Requests -> Nat]
  BY <1>1, PushBackType DEF RetryQueued
<1>3. ActivityTypeOK'
  BY <1>1, ReleaseReservationType DEF RetryQueued
<1>4. TelemetryTypeOK'
  BY <1>1, CountType DEF RetryQueued, Counters
<1>5. RouteTypeOK'
  BY RouteFailureType DEF RetryQueued, ActivePc
<1>6. entry[r] \in Entry /\ now[r] \in Nat
  BY <1>1 DEF TypeOK, EntryTypeOK, ThreadTypeOK
<1>7. [entry[r] EXCEPT !.enqueued_at = now[r], !.was_admitted = TRUE] \in Entry
  BY Zenon, <1>6 DEF Entry
<1>8. EntryTypeOK'
  BY <1>1, <1>7 DEF RetryQueued, TypeOK, EntryTypeOK
<1>9. ThreadTypeOK'
  BY <1>1, <1>2 DEF RetryQueued, TypeOK, ThreadTypeOK
<1> QED
  BY <1>1, <1>2, <1>3, <1>4, <1>5, <1>8, <1>9, Frame DEF RetryQueued, TypeOK

\* The clock and a restart of the daemon keep the types.
LEMMA HostType == ASSUME TypeOK, Tick \/ Restart PROVE TypeOK'
<1>1. CASE Tick
  <2>1. HostTypeOK'
    BY <1>1 DEF Tick, TypeOK, HostTypeOK
  <2> QED
    BY <1>1, <2>1, Frame DEF Tick, TypeOK
<1>2. CASE Restart
  <2>1. HostTypeOK'
    BY <1>2 DEF Restart, TypeOK, HostTypeOK
  <2>2. PolicyTypeOK' /\ PrincipalTypeOK' /\ ActivityTypeOK' /\ QueueTypeOK'
    BY <1>2 DEF Restart, PolicyTypeOK, PrincipalTypeOK, ActivityTypeOK, QueueTypeOK
  <2>3. RouteTypeOK'
    <3>1. 0 \in 0..MaxBackendFailures
      BY BoundsAssumption
    <3> QED
      BY <1>2, <3>1 DEF Restart, RouteTypeOK
  <2>4. TelemetryTypeOK' /\ EntryTypeOK'
    BY <1>2 DEF Restart, TelemetryTypeOK, NoTelemetry, EntryTypeOK, Entry, NoEntry
  <2>5. PcTypeOK'
    BY <1>2 DEF Restart, PcTypeOK, Pc, ClosedPc
  <2>6. ThreadTypeOK'
    BY <1>2 DEF Restart, ThreadTypeOK
  <2> QED
    BY <2>1, <2>2, <2>3, <2>4, <2>5, <2>6 DEF TypeOK
<1> QED
  BY <1>1, <1>2

\* Every step of the gateway keeps the types.
LEMMA TypeNext == ASSUME Sound, [Next]_vars PROVE TypeOK'
<1>1. TypeOK
  BY DEF Sound
<1>2. ASSUME NEW r \in Requests, Receive(r) PROVE TypeOK'
  BY <1>1, <1>2, ReceiveType
<1>3. ASSUME NEW r \in Requests, Admission(r) PROVE TypeOK'
  BY <1>1, <1>3, BeginAdmitType, RefusalType, RecordInitialFailureType,
     CheckLoadedType, ReadRecentType, RefusePolicyType, AdmitSelectedType, AdmitQueuedType,
     AdmitRefusedType DEF Admission
<1>4. ASSUME NEW r \in Requests, Queueing(r) PROVE TypeOK'
  BY <1>1, <1>4, BeginPollType, LeaveQueueType, PollAdmittedType, PollWaitingType DEF Queueing
<1>5. ASSUME NEW r \in Requests, Execution(r) PROVE TypeOK'
  BY <1>1, <1>5, OutcomeType, ReleasingType, RecordUsageType, FailingType,
     CompleteExecutionType, RetrySelectedType, RetryQueuedType DEF Execution
<1>6. CASE UNCHANGED vars
  BY <1>1, <1>6, Frame DEF vars, TypeOK
<1> QED
  BY <1>1, <1>2, <1>3, <1>4, <1>5, <1>6, HostType DEF Next, Thread

-----------------------------------------------------------------------------
(* Effects.  Every action has one of ten effects on the state the safety     *)
(* invariants relate; the invariants are proved once per effect.             *)

SameClass(r, next) ==
    /\ pc[r] \in ActivePc <=> next \in ActivePc
    /\ pc[r] \in EntryPc <=> next \in EntryPc

\* Nothing is owned or released.
Keeps(r) ==
    /\ \E next \in Pc : SameClass(r, next) /\ pc' = [pc EXCEPT ![r] = next]
    /\ UNCHANGED <<active_requests, route_active, queue_order, queued, principal_vars>>

WithinConcurrency(r) ==
    KeyOf(r) # NoKey /\ Limited(Limits[KeyOf(r)].concurrency) =>
        principal_active[KeyOf(r)] < Limits[KeyOf(r)].concurrency

\* A request that owned nothing takes a free slot.
Admits(r) ==
    /\ pc[r] \notin ActivePc \cup EntryPc
    /\ \E g \in Groups : /\ route_active[g] < Route[g].max_active
                         /\ reserve_route(r, g, route_active)
    /\ charge_principal(r) /\ WithinConcurrency(r)
    /\ UNCHANGED <<queue_order, queued>>

\* A request that owned nothing joins the queue.
Enqueues(r) ==
    /\ pc[r] \notin ActivePc \cup EntryPc
    /\ Cardinality(queued) < MaxQueued
    /\ push_back(r)
    /\ charge_principal(r) /\ WithinConcurrency(r)
    /\ UNCHANGED <<active_requests, route_active>>

\* A queued request closes.
Leaves(r) ==
    /\ pc[r] \in EntryPc
    /\ \E next \in ClosedPc : pc' = [pc EXCEPT ![r] = next]
    /\ remove_queued_request(r)
    /\ release_principal(r)
    /\ UNCHANGED <<active_requests, route_active>>

\* A queued request takes a free slot.
Dispatches(r) ==
    /\ pc[r] \in EntryPc
    /\ \E g \in Groups : /\ route_active[g] < Route[g].max_active
                         /\ reserve_route(r, g, route_active)
    /\ remove_queued_request(r)
    /\ UNCHANGED principal_vars

\* An active request closes.
Closes(r) ==
    /\ pc[r] \in ActivePc
    /\ \E next \in ClosedPc : pc' = [pc EXCEPT ![r] = next]
    /\ release_reservation(r)
    /\ release_principal(r)
    /\ UNCHANGED <<queue_order, queued>>

\* An active request moves to another slot.
Moves(r) ==
    /\ pc[r] \in ActivePc
    /\ \E g \in Groups : /\ Released(r)[g] < Route[g].max_active
                         /\ reserve_route(r, g, Released(r))
    /\ UNCHANGED <<queue_order, queued, principal_vars>>

\* An active request goes back to the queue.
Requeues(r) ==
    /\ pc[r] \in ActivePc
    /\ Cardinality(queued) < MaxQueued
    /\ release_reservation(r)
    /\ push_back(r)
    /\ UNCHANGED principal_vars

\* No thread moves.
Idles == UNCHANGED <<pc, active_requests, route_active, queue_order, queued, principal_vars>>

Effect(r) ==
    \/ Keeps(r) \/ Admits(r) \/ Enqueues(r) \/ Leaves(r) \/ Dispatches(r)
    \/ Closes(r) \/ Moves(r) \/ Requeues(r)

\* Passing the policy leaves room under the key's concurrency limit.
LEMMA PolicyConcurrency ==
    ASSUME NEW r \in Requests, PassPolicy(r)
    PROVE  WithinConcurrency(r)
BY DEF PassPolicy, WithinLimits, WithinConcurrency

\* Admission either owns nothing or takes a slot or a queue place.
LEMMA AdmissionEffect ==
    ASSUME NEW r \in Requests, Receive(r) \/ Admission(r)
    PROVE  Effect(r)
<1> USE DEF Pc, ActivePc, EntryPc, QueuedPc, AdmittingPc, ClosedPc
<1>1. CASE Receive(r)
  BY <1>1 DEF Receive, Effect, Keeps, SameClass
<1>2. CASE BeginAdmit(r)
  BY Zenon, <1>2 DEF BeginAdmit, Effect, Keeps, SameClass
<1>3. CASE RejectAdmit(r)
  BY <1>3 DEF RejectAdmit, Return, Effect, Keeps, SameClass
<1>4. CASE CheckLoaded(r)
  BY Zenon, <1>4 DEF CheckLoaded, Effect, Keeps, SameClass
<1>5. CASE ReadRecent(r)
  BY <1>5 DEF ReadRecent, Effect, Keeps, SameClass
<1>6. CASE RefuseRecent(r)
  BY <1>6 DEF RefuseRecent, Return, Effect, Keeps, SameClass
<1>7. CASE RefusePolicy(r)
  BY <1>7 DEF RefusePolicy, Return, Effect, Keeps, SameClass
<1>8. CASE AdmitSelected(r)
  <2>1. \E g \in Groups : /\ route_active[g] < Route[g].max_active
                          /\ reserve_route(r, g, route_active)
    BY <1>8, SelectedIsAvailable DEF AdmitSelected
  <2> QED
    BY <1>8, <2>1, PolicyConcurrency DEF AdmitSelected, Effect, Admits
<1>9. CASE AdmitQueued(r)
  BY Zenon, <1>9, PolicyConcurrency DEF AdmitQueued, Effect, Enqueues
<1>10. CASE AdmitRefused(r)
  BY Zenon, <1>10 DEF AdmitRefused, Return, Effect, Keeps, SameClass
<1>11. CASE RecordInitialFailure(r)
  BY <1>11 DEF RecordInitialFailure, Return, Effect, Keeps, SameClass
<1> QED
  BY <1>1, <1>2, <1>3, <1>4, <1>5, <1>6, <1>7, <1>8, <1>9, <1>10, <1>11 DEF Admission

\* A queued thread keeps its place, closes, or takes a slot.
LEMMA QueueingEffect ==
    ASSUME NEW r \in Requests, Queueing(r)
    PROVE  Effect(r)
<1> USE DEF Pc, ActivePc, EntryPc, QueuedPc, ClosedPc
<1>1. CASE BeginPoll(r)
  BY Zenon, <1>1 DEF BeginPoll, Effect, Keeps, SameClass
<1>2. CASE PollExpired(r)
  BY <1>2 DEF PollExpired, Return, Effect, Leaves
<1>3. CASE PollAdmitted(r)
  <2>1. \E g \in Groups : /\ route_active[g] < Route[g].max_active
                          /\ reserve_route(r, g, route_active)
    BY <1>3, SelectedIsAvailable DEF PollAdmitted
  <2> QED
    BY <1>3, <2>1 DEF PollAdmitted, Effect, Dispatches
<1>4. CASE PollWaiting(r)
  BY <1>4 DEF PollWaiting, Effect, Keeps, SameClass
<1>5. CASE PollError(r)
  BY Zenon, <1>5 DEF PollError, Effect, Keeps, SameClass
<1>6. CASE FailQueue(r)
  BY <1>6 DEF FailQueue, Return, Effect, Leaves
<1>7. CASE AbandonQueue(r)
  BY Zenon, <1>7 DEF AbandonQueue, Effect, Keeps, SameClass
<1> QED
  BY <1>1, <1>2, <1>3, <1>4, <1>5, <1>6, <1>7 DEF Queueing

\* An executing thread keeps its slot, closes, moves, or goes back to the queue.
LEMMA ExecutionEffect ==
    ASSUME NEW r \in Requests, Execution(r)
    PROVE  Effect(r)
<1> USE DEF Pc, ActivePc, EntryPc, QueuedPc, ClosedPc
<1>1. CASE AttemptSucceeds(r) \/ AttemptFails(r) \/ AttemptRetries(r)
  BY <1>1 DEF AttemptSucceeds, AttemptFails, AttemptRetries, Outcome, Effect, Keeps, SameClass
<1>2. CASE CancelExecution(r) \/ CompleteWithoutClock(r)
  BY <1>2 DEF CancelExecution, CompleteWithoutClock, Return, Effect, Closes
<1>3. CASE CompleteExecution(r)
  BY Zenon, <1>3 DEF CompleteExecution, Effect, Closes
<1>4. CASE RecordUsage(r)
  BY Zenon, <1>4 DEF RecordUsage, Return, Effect, Keeps, SameClass
<1>5. CASE FailExecution(r) \/ RetryFails(r)
  BY <1>5 DEF FailExecution, RetryFails, Return, Effect, Closes
<1>6. CASE RetrySelected(r)
  <2>1. \E g \in Groups : /\ Released(r)[g] < Route[g].max_active
                          /\ reserve_route(r, g, Released(r))
    BY Zenon, <1>6, SelectedIsAvailable DEF RetrySelected
  <2> QED
    BY Zenon, <1>6, <2>1 DEF RetrySelected, Effect, Moves
<1>7. CASE RetryQueued(r)
  BY <1>7 DEF RetryQueued, Effect, Requeues
<1> QED
  BY <1>1, <1>2, <1>3, <1>4, <1>5, <1>6, <1>7 DEF Execution

\* Every step is an effect of one thread, a restart, or leaves ownership alone.
LEMMA StepEffect ==
    ASSUME [Next]_vars
    PROVE  (\E r \in Requests : Effect(r)) \/ Restart \/ Idles
<1>1. ASSUME NEW r \in Requests, Receive(r) \/ Thread(r) PROVE Effect(r)
  BY <1>1, AdmissionEffect, QueueingEffect, ExecutionEffect DEF Thread
<1>2. CASE Tick
  BY <1>2 DEF Tick, Idles
<1>3. CASE UNCHANGED vars
  BY <1>3 DEF vars, Idles
<1> QED
  BY <1>1, <1>2, <1>3 DEF Next

\* Every effect moves ownership together with the thread.
LEMMA OwnershipNext == ASSUME Sound, [Next]_vars PROVE OwnershipExact'
<1>1. /\ active_requests \in [Requests -> Groups \cup {NoGroup}] /\ pc \in [Requests -> Pc]
      /\ OwnershipExact /\ NoGroup \notin Groups
  BY SetsAssumption DEF Sound, TypeOK, ActivityTypeOK, PcTypeOK
<1>2. ASSUME NEW r \in Requests, Keeps(r) PROVE OwnershipExact'
  BY <1>1, <1>2 DEF Keeps, SameClass, OwnershipExact, EntryPc
<1>3. ASSUME NEW r \in Requests, Admits(r) PROVE OwnershipExact'
  BY <1>1, <1>3 DEF Admits, reserve_route, OwnershipExact, ActivePc, EntryPc, QueuedPc
<1>4. ASSUME NEW r \in Requests, Enqueues(r) PROVE OwnershipExact'
  BY <1>1, <1>4 DEF Enqueues, push_back, OwnershipExact, ActivePc, EntryPc, QueuedPc
<1>5. ASSUME NEW r \in Requests, Leaves(r) PROVE OwnershipExact'
  BY <1>1, <1>5
     DEF Leaves, remove_queued_request, OwnershipExact, ActivePc, EntryPc, QueuedPc, ClosedPc
<1>6. ASSUME NEW r \in Requests, Dispatches(r) PROVE OwnershipExact'
  BY <1>1, <1>6
     DEF Dispatches, reserve_route, remove_queued_request, OwnershipExact, ActivePc, EntryPc,
         QueuedPc
<1>7. ASSUME NEW r \in Requests, Closes(r) PROVE OwnershipExact'
  BY <1>1, <1>7
     DEF Closes, release_reservation, OwnershipExact, ActivePc, EntryPc, QueuedPc, ClosedPc
<1>8. ASSUME NEW r \in Requests, Moves(r) PROVE OwnershipExact'
  BY <1>1, <1>8 DEF Moves, reserve_route, OwnershipExact, ActivePc, EntryPc, QueuedPc
<1>9. ASSUME NEW r \in Requests, Requeues(r) PROVE OwnershipExact'
  BY <1>1, <1>9
     DEF Requeues, release_reservation, push_back, OwnershipExact, ActivePc, EntryPc, QueuedPc
<1>10. CASE Restart
  BY <1>10 DEF Restart, OwnershipExact, ActivePc, EntryPc, QueuedPc
<1>11. CASE Idles
  BY <1>1, <1>11 DEF Idles, OwnershipExact
<1> QED
  BY <1>2, <1>3, <1>4, <1>5, <1>6, <1>7, <1>8, <1>9, <1>10, <1>11, StepEffect DEF Effect

\* The type invariant and exact ownership hold in every state of the gateway.
THEOREM SoundAlways == Spec => []Sound
<1>1. Init => Sound
  <2>1. Init => OwnershipExact
    BY DEF Init, OwnershipExact, ActivePc, EntryPc, QueuedPc
  <2> QED
    BY <2>1, TypeInit DEF Sound
<1>2. Sound /\ [Next]_vars => Sound'
  BY TypeNext, OwnershipNext DEF Sound
<1> QED
  BY <1>1, <1>2, PTL DEF Spec

\* The type invariant of GatewayState and the execution threads.
THEOREM TypeAlways == Spec => []TypeOK
BY SoundAlways, PTL DEF Sound

\* No handler, whichever of its error paths it takes, drops a reservation or a
\* queue entry early or keeps one its thread no longer answers for, except that
\* fail_queue abandons the entry when its clock read fails.
THEOREM OwnershipAlways == Spec => []OwnershipExact
BY SoundAlways, PTL DEF Sound

=============================================================================
