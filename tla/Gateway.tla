------------------------------ MODULE Gateway ------------------------------
(***************************************************************************)
(* One gateway process: GatewayManager's admission, bounded FIFO queue,    *)
(* route reservation, retry and completion accounting, driven by one       *)
(* GatewayExecution thread per request.                                    *)
(*                                                                         *)
(* Every operation of the manager reads the clock and the route snapshot   *)
(* before it takes the state mutex, so each is a read step (which stores   *)
(* the clock sample in now[r]) followed by one atomic step per mutex       *)
(* section.  Samples are stale by the time the section runs.  A sample 0   *)
(* is a clock read that failed.                                            *)
(*                                                                         *)
(* The route snapshot is chosen where it is used: any set of healthy,      *)
(* protected routes of the model, which covers every change of route       *)
(* health between the read and the mutex section.                          *)
(*                                                                         *)
(* A request identity is fresh entropy drawn for each request, so          *)
(* require_new_request refuses none of them.                               *)
(***************************************************************************)
EXTENDS Integers, FiniteSets, Sequences, Functions

CONSTANTS
    Requests,            \* request identities, one execution thread each
    Keys,                \* API keys
    Groups,              \* placement groups, the routes of the snapshot
    PrefixKeys,          \* (model, prefix digest) pairs
    Request,             \* Request[r]: model, key, context, output, max_queue, prefix
    Limits,              \* Limits[k]: context, requests, concurrency, tokens
    Route,               \* Route[g]: model, max_context, max_active
    NoKey, NoPrefix, NoLimit, NoGroup,
    RollingWindow,       \* ROLLING_WINDOW_MILLISECONDS
    MaxQueued,           \* MAX_QUEUED_REQUESTS
    MaxBackendFailures,  \* MAX_BACKEND_FAILURES
    CooldownUnit,        \* the 1_000 ms a first failure costs
    MaxCooldown,         \* MAX_BACKEND_COOLDOWN_MILLISECONDS
    PrefixLifetime,      \* PREFIX_AFFINITY_MILLISECONDS
    MaxPrefixes,         \* MAX_PREFIX_AFFINITY_ENTRIES
    MaxAttempts,         \* MAX_EXECUTION_ATTEMPTS
    MaxWaitCycles,       \* MAX_QUEUE_WAIT_CYCLES
    MaxTime,             \* bound of the model: the last instant of the clock
    MaxClockFaults,      \* bound of the model: failed clock reads
    MaxRestarts          \* bound of the model: process restarts

VARIABLES
    \* the host and the persisted usage collection
    time, usage, clock_faults, restarts,
    \* GatewayState, under the manager's mutex
    loaded_keys, request_windows, token_windows,
    principal_active, principal_reserved_tokens,
    route_active, failure_counts, unavailable_until, prefix_affinity,
    active_requests, queue_order, queued, telemetry,
    \* the execution threads: program counter, clock sample, usage read from
    \* the store, the request's queue entry or reservation, attempts, polls,
    \* exact tokens of the attempt that completed
    pc, now, recent, entry, attempts, polls, tokens

host_vars == <<time, usage, clock_faults, restarts>>
policy_vars == <<loaded_keys, request_windows, token_windows>>
principal_vars == <<principal_active, principal_reserved_tokens>>
route_vars == <<failure_counts, unavailable_until, prefix_affinity>>
thread_vars == <<now, recent, attempts, polls, tokens>>
vars == <<host_vars, policy_vars, principal_vars, route_active, route_vars,
          active_requests, queue_order, queued, telemetry, pc, entry, thread_vars>>

-----------------------------------------------------------------------------
(* Requests, limits and routes *)

KeyOf(r) == Request[r].key
RequestsOf(k) == {r \in Requests : KeyOf(r) = k}

\* GatewayRequest::token_demand.
TokenDemand(r) == Request[r].context + Request[r].output

Limited(limit) == limit # NoLimit

\* Tokens a request reserves: its demand when its key has a token limit.
ReservedTokens(r) ==
    IF KeyOf(r) # NoKey /\ Limited(Limits[KeyOf(r)].tokens) THEN TokenDemand(r) ELSE 0

Minus(a, b) == IF a > b THEN a - b ELSE 0

\* The bounded exponential cooldown after the f-th failure in a row.
Cooldown(f) ==
    LET doubled == 2 ^ (f - 1) * CooldownUnit
    IN  IF doubled < MaxCooldown THEN doubled ELSE MaxCooldown

\* Active requests own route capacity; queued requests hold a ticket for a queue
\* entry.  Both own one unit of their key's concurrency and their token
\* reservation.  An abandoned entry has no thread any more: fail_queue consumed
\* the ticket and returned before it removed the entry.
ActivePc == {"forwarding", "completing", "failing", "retrying"}
QueuedPc == {"waiting", "polling", "failing_queue"}
EntryPc == QueuedPc \cup {"abandoned"}
AdmittingPc == {"received", "loading", "reading", "committing", "refused"}
ClosedPc == {"idle", "recording", "done", "lost"}
Pc == ActivePc \cup EntryPc \cup AdmittingPc \cup ClosedPc

UsageRecord == [request : Requests, key : Keys,
                received_at : Nat, completed_at : Nat, tokens : Nat]

ASSUME SetsAssumption ==
    /\ IsFiniteSet(Requests)
    /\ NoKey \notin Keys
    /\ NoGroup \notin Groups
    /\ NoPrefix \notin PrefixKeys

ASSUME RequestAssumption ==
    Request \in [Requests -> [model : STRING, key : Keys \cup {NoKey}, context : Nat,
                              output : Nat, max_queue : Nat, prefix : PrefixKeys \cup {NoPrefix}]]

ASSUME LimitsAssumption ==
    /\ NoLimit \notin Nat
    /\ Limits \in [Keys -> [context : Nat \cup {NoLimit}, requests : Nat \cup {NoLimit},
                            concurrency : Nat \cup {NoLimit}, tokens : Nat \cup {NoLimit}]]

ASSUME RouteAssumption ==
    Route \in [Groups -> [model : STRING, max_context : Nat, max_active : Nat]]

ASSUME BoundsAssumption ==
    /\ MaxBackendFailures \in Nat \ {0}
    /\ {RollingWindow, MaxQueued, CooldownUnit, MaxCooldown, PrefixLifetime, MaxPrefixes,
        MaxAttempts, MaxWaitCycles, MaxTime, MaxClockFaults, MaxRestarts} \subseteq Nat

ASSUME CooldownAssumption ==
    \A f \in 1..MaxBackendFailures : Cooldown(f) \in Nat

-----------------------------------------------------------------------------
(* Mutex-section helpers *)

Count(counter) == telemetry' = [telemetry EXCEPT ![counter] = @ + 1]

\* Mutant of release_principal: the concurrency unit is not returned.
release_principal_TokensOnly(r) ==
    /\ UNCHANGED principal_active
    /\ principal_reserved_tokens' =
         [k \in Keys |-> IF k = KeyOf(r)
                           THEN Minus(principal_reserved_tokens[k], ReservedTokens(r))
                           ELSE principal_reserved_tokens[k]]

\* release_principal: saturating release of concurrency and reserved tokens.
release_principal(r) ==
    /\ principal_active' =
         [k \in Keys |-> IF k = KeyOf(r) THEN Minus(principal_active[k], 1)
                                         ELSE principal_active[k]]
    /\ principal_reserved_tokens' =
         [k \in Keys |-> IF k = KeyOf(r)
                           THEN Minus(principal_reserved_tokens[k], ReservedTokens(r))
                           ELSE principal_reserved_tokens[k]]

\* The two live reservations admit_principal takes once every limit holds.
charge_principal(r) ==
    /\ principal_active' =
         [k \in Keys |-> IF k = KeyOf(r) THEN principal_active[k] + 1
                                         ELSE principal_active[k]]
    /\ principal_reserved_tokens' =
         [k \in Keys |-> IF k = KeyOf(r)
                           THEN principal_reserved_tokens[k] + ReservedTokens(r)
                           ELSE principal_reserved_tokens[k]]

\* A deque after its expired front entries are popped: the entries are not in
\* time order, because samples are taken outside the mutex, so an expired entry
\* behind a live one stays.
PopExpired(window, times, cutoff) ==
    LET popped == Cardinality({i \in DOMAIN times : \A j \in 1..i : times[j] <= cutoff})
    IN  SubSeq(window, popped + 1, Len(window))

Cutoff(r) == Minus(now[r], RollingWindow)

\* load_recent_usage: what the store returned must lie inside the window.
RecentIsValid(r) ==
    \A i \in DOMAIN recent[r] :
        /\ recent[r][i].received_at >= Cutoff(r)
        /\ recent[r][i].completed_at <= now[r]

\* The key's windows after loading and expiry, as admit_principal sees them.
RequestWindow(r) ==
    LET k == KeyOf(r)
        loaded == IF k \in loaded_keys THEN request_windows[k]
                  ELSE request_windows[k] \o [i \in DOMAIN recent[r] |-> recent[r][i].received_at]
    IN  PopExpired(loaded, loaded, Cutoff(r))

TokenWindow(r) ==
    LET k == KeyOf(r)
        loaded == IF k \in loaded_keys THEN token_windows[k]
                  ELSE token_windows[k] \o
                         [i \in DOMAIN recent[r] |-> [at |-> recent[r][i].completed_at,
                                                      tokens |-> recent[r][i].tokens]]
    IN  PopExpired(loaded, [i \in DOMAIN loaded |-> loaded[i].at], Cutoff(r))

TokensIn(window) == FoldFunction(+, 0, [i \in DOMAIN window |-> window[i].tokens])

\* Mutant of WithinLimits: the tokens of live requests are not counted.
WithinLimits_IgnoringReserved(r) ==
    LET k == KeyOf(r)
        l == Limits[k]
    IN  /\ Limited(l.context) => Request[r].context <= l.context
        /\ Limited(l.requests) => Len(RequestWindow(r)) < l.requests
        /\ Limited(l.concurrency) => principal_active[k] < l.concurrency
        /\ Limited(l.tokens) => TokensIn(TokenWindow(r)) + TokenDemand(r) <= l.tokens

\* admit_principal: context, request-rate, concurrency and token-rate limits.
WithinLimits(r) ==
    LET k == KeyOf(r)
        l == Limits[k]
    IN  /\ Limited(l.context) => Request[r].context <= l.context
        /\ Limited(l.requests) => Len(RequestWindow(r)) < l.requests
        /\ Limited(l.concurrency) => principal_active[k] < l.concurrency
        /\ Limited(l.tokens) =>
             TokensIn(TokenWindow(r)) + principal_reserved_tokens[k] + TokenDemand(r)
               <= l.tokens

SetWindows(r, requests) ==
    /\ loaded_keys' = loaded_keys \cup {KeyOf(r)}
    /\ request_windows' = [request_windows EXCEPT ![KeyOf(r)] = requests]
    /\ token_windows' = [token_windows EXCEPT ![KeyOf(r)] = TokenWindow(r)]

\* The policy part of admit for a request that passes it: a relayed request has
\* no principal on the child.
PassPolicy(r) ==
    \/ KeyOf(r) = NoKey /\ UNCHANGED policy_vars
    \/ /\ KeyOf(r) # NoKey
       /\ RecentIsValid(r)
       /\ WithinLimits(r)
       /\ SetWindows(r, Append(RequestWindow(r), now[r]))

-----------------------------------------------------------------------------
(* select_route over a snapshot of healthy protected routes.  The activity   *)
(* and cooldown maps are arguments because a retry selects after releasing   *)
(* its reservation and cooling its route down.                               *)

Snapshots(r) == SUBSET {g \in Groups : Route[g].model = Request[r].model}

Routable(r, routes, until) ==
    {g \in routes : Route[g].max_context >= TokenDemand(r) /\ until[g] <= now[r]}

\* Mutant of Available: one reservation beyond the capacity.
Available_OffByOne(r, routes, active, until) ==
    {g \in Routable(r, routes, until) : active[g] <= Route[g].max_active}

Available(r, routes, active, until) ==
    {g \in Routable(r, routes, until) : active[g] < Route[g].max_active}

IsBusy(r, routes, active, until) ==
    /\ Routable(r, routes, until) # {}
    /\ Available(r, routes, active, until) = {}

\* Routes that hold the request's prefix: those whose snapshot advertises it
\* and the learned one while its affinity lasts.
HoldsPrefix(r, g, warm) ==
    /\ Request[r].prefix # NoPrefix
    /\ \/ g \in warm
       \/ /\ prefix_affinity[Request[r].prefix].deadline > now[r]
          /\ prefix_affinity[Request[r].prefix].group = g

\* Prefix holders first, then the least normalized load.  Temperature and node
\* identity only break ties: any tied route may come first.
Precedes(r, g, h, active, warm) ==
    \/ HoldsPrefix(r, g, warm) /\ ~HoldsPrefix(r, h, warm)
    \/ /\ HoldsPrefix(r, g, warm) <=> HoldsPrefix(r, h, warm)
       /\ active[g] * Route[h].max_active < active[h] * Route[g].max_active

Selected(r, routes, active, until, warm) ==
    LET available == Available(r, routes, active, until)
    IN  {g \in available : \A h \in available : ~Precedes(r, h, g, active, warm)}

Warm(r, routes) == IF Request[r].prefix = NoPrefix THEN {{}} ELSE SUBSET routes

-----------------------------------------------------------------------------
(* Reservations and queue entries *)

NoEntry == [received_at |-> 0, enqueued_at |-> 0, queued_milliseconds |-> 0,
            was_admitted |-> FALSE]

NewEntry(r) == [NoEntry EXCEPT !.received_at = now[r], !.enqueued_at = now[r]]

Waited(r) == entry[r].queued_milliseconds + Minus(now[r], entry[r].enqueued_at)

\* reserve_route: active ownership of g on top of the activity map active.
reserve_route(r, g, active) ==
    /\ active_requests' = [active_requests EXCEPT ![r] = g]
    /\ route_active' = [active EXCEPT ![g] = @ + 1]
    /\ attempts' = [attempts EXCEPT ![r] = @ + 1]
    /\ pc' = [pc EXCEPT ![r] = "forwarding"]

\* The tail of the FIFO queue.
push_back(r) ==
    /\ queue_order' = Append(queue_order, r)
    /\ queued' = queued \cup {r}
    /\ polls' = [polls EXCEPT ![r] = 0]
    /\ pc' = [pc EXCEPT ![r] = "waiting"]

\* Mutant of remove_queued_request: the front of the FIFO index leaves, whoever it is.
remove_queued_request_PopsFront(r) ==
    /\ queue_order' = Tail(queue_order)
    /\ queued' = queued \ {r}

\* Identities are unique in the queue (QueueIndexExact), so retaining every other
\* identity removes one position.
remove_queued_request(r) ==
    LET p == CHOOSE i \in DOMAIN queue_order : queue_order[i] = r
    IN  /\ queue_order' = [i \in 1..(Len(queue_order) - 1) |->
                             IF i < p THEN queue_order[i] ELSE queue_order[i + 1]]
        /\ queued' = queued \ {r}

\* release_reservation: the activity map without r's reservation.
Released(r) == [route_active EXCEPT ![active_requests[r]] = Minus(@, 1)]

release_reservation(r) ==
    /\ active_requests' = [active_requests EXCEPT ![r] = NoGroup]
    /\ route_active' = Released(r)

\* Mutant of Failures: the count passes its bound.
Failures_Unbounded(g) == [failure_counts EXCEPT ![g] = @ + 1]

\* mark_route_failure: the failure counts and deadlines after g fails at n.
Failures(g) ==
    [failure_counts EXCEPT ![g] = IF @ < MaxBackendFailures THEN @ + 1 ELSE @]

CooledDown(g, n) == [unavailable_until EXCEPT ![g] = n + Cooldown(Failures(g)[g])]

mark_route_failure(g, n) ==
    /\ failure_counts' = Failures(g)
    /\ unavailable_until' = CooledDown(g, n)

mark_route_success(g) ==
    /\ failure_counts' = [failure_counts EXCEPT ![g] = 0]
    /\ unavailable_until' = [unavailable_until EXCEPT ![g] = 0]

\* record_prefix_affinity: expire, insert, evict the oldest beyond the bound.
record_prefix_affinity(r, g) ==
    LET p == Request[r].prefix
        none == [group |-> NoGroup, deadline |-> 0]
        kept == [q \in PrefixKeys |->
                   IF prefix_affinity[q].deadline > now[r] THEN prefix_affinity[q] ELSE none]
        stored == [kept EXCEPT ![p] = [group |-> g, deadline |-> now[r] + PrefixLifetime]]
        live == {q \in PrefixKeys : stored[q].deadline > 0}
        oldest == CHOOSE q \in live : \A o \in live : stored[q].deadline <= stored[o].deadline
    IN  prefix_affinity' =
          IF Cardinality(live) > MaxPrefixes THEN [stored EXCEPT ![oldest] = none] ELSE stored

\* A thread that returns to its caller drops its locals.
Return(r, end) ==
    /\ pc' = [pc EXCEPT ![r] = end]
    /\ entry' = [entry EXCEPT ![r] = NoEntry]
    /\ now' = [now EXCEPT ![r] = 0]
    /\ recent' = [recent EXCEPT ![r] = <<>>]
    /\ attempts' = [attempts EXCEPT ![r] = 0]
    /\ polls' = [polls EXCEPT ![r] = 0]
    /\ tokens' = [tokens EXCEPT ![r] = 0]

\* A clock read: the current instant, or a failure while the budget lasts.
ReadClock(r) ==
    \/ /\ now' = [now EXCEPT ![r] = time]
       /\ UNCHANGED clock_faults
    \/ /\ clock_faults < MaxClockFaults
       /\ now' = [now EXCEPT ![r] = 0]
       /\ clock_faults' = clock_faults + 1

-----------------------------------------------------------------------------
(* Admission: admit_public on a main, admit_relay on a child, then admit *)

\* record_received, before authentication or any policy runs.
Receive(r) ==
    /\ pc[r] = "idle"
    /\ pc' = [pc EXCEPT ![r] = "received"]
    /\ Count("received")
    /\ UNCHANGED <<host_vars, policy_vars, principal_vars, route_active, route_vars,
                   active_requests, queue_order, queued, entry, thread_vars>>

\* The caller is authenticated and admit samples the clock.
BeginAdmit(r) ==
    /\ pc[r] = "received"
    /\ now' = [now EXCEPT ![r] = time]
    /\ pc' = [pc EXCEPT ![r] = IF KeyOf(r) = NoKey THEN "committing" ELSE "loading"]
    /\ UNCHANGED <<host_vars, policy_vars, principal_vars, route_active, route_vars,
                   active_requests, queue_order, queued, telemetry, entry,
                   recent, attempts, polls, tokens>>

\* Wrong role, denied credential, or a clock, route or usage provider failure
\* before the admission section.
RejectAdmit(r) ==
    /\ pc[r] \in {"received", "loading", "reading"}
    /\ Return(r, "refused")
    /\ UNCHANGED <<host_vars, policy_vars, principal_vars, route_active, route_vars,
                   active_requests, queue_order, queued, telemetry>>

\* record_initial_failure: a refused admission counts one unrouted failure, in a
\* mutex section after the one that refused it.
RecordInitialFailure(r) ==
    /\ pc[r] = "refused"
    /\ Return(r, "done")
    /\ Count("failed")
    /\ UNCHANGED <<host_vars, policy_vars, principal_vars, route_active, route_vars,
                   active_requests, queue_order, queued>>

\* First mutex section of admit: is the key's window already loaded?
CheckLoaded(r) ==
    /\ pc[r] = "loading"
    /\ pc' = [pc EXCEPT ![r] = IF KeyOf(r) \in loaded_keys THEN "committing" ELSE "reading"]
    /\ UNCHANGED <<host_vars, policy_vars, principal_vars, route_active, route_vars,
                   active_requests, queue_order, queued, telemetry, entry, thread_vars>>

\* usage.recent: the store filters by completion time, in completion order.
UsageSince(k, since) == {u \in usage : u.key = k /\ u.completed_at >= since}

ReadRecent(r) ==
    /\ pc[r] = "reading"
    /\ LET found == UsageSince(KeyOf(r), Cutoff(r))
       IN  \E s \in [1..Cardinality(found) -> found] :
             /\ \A i, j \in DOMAIN s : i < j => /\ s[i] # s[j]
                                                /\ s[i].completed_at <= s[j].completed_at
             /\ recent' = [recent EXCEPT ![r] = s]
    /\ pc' = [pc EXCEPT ![r] = "committing"]
    /\ UNCHANGED <<host_vars, policy_vars, principal_vars, route_active, route_vars,
                   active_requests, queue_order, queued, telemetry, entry,
                   now, attempts, polls, tokens>>

\* The admission section when the loaded usage lies outside the window.
RefuseRecent(r) ==
    /\ pc[r] = "committing"
    /\ KeyOf(r) # NoKey
    /\ ~RecentIsValid(r)
    /\ Return(r, "refused")
    /\ UNCHANGED <<host_vars, policy_vars, principal_vars, route_active, route_vars,
                   active_requests, queue_order, queued, telemetry>>

\* A limit refuses the request: the window stays loaded and pruned.
RefusePolicy(r) ==
    /\ pc[r] = "committing"
    /\ KeyOf(r) # NoKey
    /\ RecentIsValid(r)
    /\ ~WithinLimits(r)
    /\ SetWindows(r, RequestWindow(r))
    /\ Return(r, "refused")
    /\ UNCHANGED <<host_vars, principal_vars, route_active, route_vars,
                   active_requests, queue_order, queued, telemetry>>

\* Policy passes and a route has capacity.
AdmitSelected(r) ==
    /\ pc[r] = "committing"
    /\ PassPolicy(r)
    /\ charge_principal(r)
    /\ \E routes \in Snapshots(r) : \E warm \in Warm(r, routes) :
         \E g \in Selected(r, routes, route_active, unavailable_until, warm) :
           reserve_route(r, g, route_active)
    /\ entry' = [entry EXCEPT ![r] = [NewEntry(r) EXCEPT !.enqueued_at = 0]]
    /\ recent' = [recent EXCEPT ![r] = <<>>]
    /\ Count("admitted")
    /\ UNCHANGED <<host_vars, route_vars, queue_order, queued, now, polls, tokens>>

\* Policy passes and every routable route is busy: join the queue.
AdmitQueued(r) ==
    /\ pc[r] = "committing"
    /\ PassPolicy(r)
    /\ charge_principal(r)
    /\ \E routes \in Snapshots(r) : IsBusy(r, routes, route_active, unavailable_until)
    /\ Request[r].max_queue > 0
    /\ Cardinality(queued) < MaxQueued
    /\ push_back(r)
    /\ entry' = [entry EXCEPT ![r] = NewEntry(r)]
    /\ recent' = [recent EXCEPT ![r] = <<>>]
    /\ UNCHANGED <<host_vars, route_active, route_vars, active_requests, telemetry,
                   now, attempts, tokens>>

\* Policy passes but no route is routable, or all are busy and the request may
\* not wait or the queue is full.  The live reservations taken by
\* admit_principal are released again; the window keeps the request.
AdmitRefused(r) ==
    /\ pc[r] = "committing"
    /\ PassPolicy(r)
    /\ \E routes \in Snapshots(r) :
         \/ Routable(r, routes, unavailable_until) = {}
         \/ /\ IsBusy(r, routes, route_active, unavailable_until)
            /\ Request[r].max_queue = 0 \/ Cardinality(queued) >= MaxQueued
    /\ Return(r, "refused")
    /\ UNCHANGED <<host_vars, principal_vars, route_active, route_vars,
                   active_requests, queue_order, queued, telemetry>>

-----------------------------------------------------------------------------
(* wait_for_reservation and poll_queue *)

\* One poll cycle samples the clock; a failed read ends the wait.
BeginPoll(r) ==
    /\ pc[r] = "waiting"
    /\ ReadClock(r)
    /\ pc' = [pc EXCEPT ![r] = IF now'[r] = 0 THEN "failing_queue" ELSE "polling"]
    /\ UNCHANGED <<time, usage, restarts, policy_vars, principal_vars, route_active,
                   route_vars, active_requests, queue_order, queued, telemetry, entry,
                   recent, attempts, polls, tokens>>

HasExpired(r) == Waited(r) > Request[r].max_queue

\* The request is the first of its model in the queue.
IsFirstOfModel(r) ==
    \A i, j \in DOMAIN queue_order :
        j < i /\ queue_order[i] = r => Request[queue_order[j]].model # Request[r].model

\* Mutant of PollExpired: the expiry is not counted.
PollExpired_Uncounted(r) ==
    /\ pc[r] = "polling"
    /\ HasExpired(r)
    /\ remove_queued_request(r)
    /\ release_principal(r)
    /\ Return(r, "done")
    /\ UNCHANGED <<host_vars, policy_vars, route_active, route_vars, active_requests, telemetry>>

PollExpired(r) ==
    /\ pc[r] = "polling"
    /\ HasExpired(r)
    /\ remove_queued_request(r)
    /\ release_principal(r)
    /\ Return(r, "done")
    /\ Count("failed")
    /\ UNCHANGED <<host_vars, policy_vars, route_active, route_vars, active_requests>>

PollAdmitted(r) ==
    /\ pc[r] = "polling"
    /\ ~HasExpired(r)
    /\ IsFirstOfModel(r)
    /\ \E routes \in Snapshots(r) : \E warm \in Warm(r, routes) :
         \E g \in Selected(r, routes, route_active, unavailable_until, warm) :
           reserve_route(r, g, route_active)
    /\ remove_queued_request(r)
    /\ entry' = [entry EXCEPT ![r] = [@ EXCEPT !.queued_milliseconds = Waited(r),
                                               !.enqueued_at = 0]]
    /\ IF entry[r].was_admitted THEN UNCHANGED telemetry ELSE Count("admitted")
    /\ UNCHANGED <<host_vars, policy_vars, principal_vars, route_vars,
                   now, recent, polls, tokens>>

\* Mutant of PollWaiting: cycles are not counted and never end the wait.
PollWaiting_Unbounded(r) ==
    /\ pc[r] = "polling"
    /\ ~HasExpired(r)
    /\ \/ ~IsFirstOfModel(r)
       \/ \E routes \in Snapshots(r) : IsBusy(r, routes, route_active, unavailable_until)
    /\ pc' = [pc EXCEPT ![r] = "waiting"]
    /\ UNCHANGED <<host_vars, policy_vars, principal_vars, route_active, route_vars,
                   active_requests, queue_order, queued, telemetry, entry, thread_vars>>

\* Waiting: another cycle, or the caller disconnected, the native wait failed,
\* or the cycle bound is reached.
PollWaiting(r) ==
    /\ pc[r] = "polling"
    /\ ~HasExpired(r)
    /\ \/ ~IsFirstOfModel(r)
       \/ \E routes \in Snapshots(r) : IsBusy(r, routes, route_active, unavailable_until)
    /\ polls' = [polls EXCEPT ![r] = @ + 1]
    /\ \/ pc' = [pc EXCEPT ![r] = "failing_queue"]
       \/ polls'[r] < MaxWaitCycles /\ pc' = [pc EXCEPT ![r] = "waiting"]
    /\ UNCHANGED <<host_vars, policy_vars, principal_vars, route_active, route_vars,
                   active_requests, queue_order, queued, telemetry, entry,
                   now, recent, attempts, tokens>>

\* The route provider fails, or no route is routable: poll_queue returns the
\* error and leaves the entry to cancel_queue_after_error.
PollError(r) ==
    /\ pc[r] = "polling"
    /\ pc' = [pc EXCEPT ![r] = "failing_queue"]
    /\ UNCHANGED <<host_vars, policy_vars, principal_vars, route_active, route_vars,
                   active_requests, queue_order, queued, telemetry, entry, thread_vars>>

\* Mutant of FailQueue: the thread answers its caller and keeps its entry.
FailQueue_KeepsEntry(r) ==
    /\ pc[r] = "failing_queue"
    /\ Return(r, "done")
    /\ Count("failed")
    /\ UNCHANGED <<host_vars, policy_vars, principal_vars, queue_order, queued,
                   route_active, route_vars, active_requests>>

\* fail_queue with a working clock.
FailQueue(r) ==
    /\ pc[r] = "failing_queue"
    /\ remove_queued_request(r)
    /\ release_principal(r)
    /\ Return(r, "done")
    /\ Count("failed")
    /\ UNCHANGED <<host_vars, policy_vars, route_active, route_vars, active_requests>>

\* fail_queue returns on a failed clock read before it takes the mutex: the
\* thread answers its caller and the entry stays in the queue.
AbandonQueue(r) ==
    /\ pc[r] = "failing_queue"
    /\ clock_faults < MaxClockFaults
    /\ clock_faults' = clock_faults + 1
    /\ pc' = [pc EXCEPT ![r] = "abandoned"]
    /\ UNCHANGED <<time, usage, restarts, policy_vars, principal_vars, route_active,
                   route_vars, active_requests, queue_order, queued, telemetry, entry,
                   thread_vars>>

-----------------------------------------------------------------------------
(* One forwarding attempt and its outcomes *)

\* The attempt returned; the terminal operation samples the clock.
Outcome(r, next) ==
    /\ pc[r] = "forwarding"
    /\ ReadClock(r)
    /\ pc' = [pc EXCEPT ![r] = next]
    /\ UNCHANGED <<time, usage, restarts, policy_vars, principal_vars, route_active,
                   route_vars, active_requests, queue_order, queued, telemetry, entry,
                   recent, attempts, polls>>

\* A complete response: input equals the admitted context, output is bounded.
AttemptSucceeds(r) ==
    /\ Outcome(r, "completing")
    /\ \E output \in 0..Request[r].output :
         tokens' = [tokens EXCEPT ![r] = Request[r].context + output]

\* Output had started, the failure is terminal, the usage is not the admitted
\* envelope, or the attempt bound is reached.
AttemptFails(r) == Outcome(r, "failing") /\ UNCHANGED tokens

\* A retryable backend failure before any output.
AttemptRetries(r) ==
    /\ attempts[r] < MaxAttempts
    /\ Outcome(r, "retrying")
    /\ UNCHANGED tokens

\* cancel_execution: the client's side failed; backend health is untouched.
CancelExecution(r) ==
    /\ pc[r] = "forwarding"
    /\ release_reservation(r)
    /\ release_principal(r)
    /\ Return(r, "done")
    /\ Count("cancelled")
    /\ UNCHANGED <<host_vars, policy_vars, route_vars, queue_order, queued>>

\* complete_request with a clock sample: capacity and quota are released, the
\* route's failures are forgotten and the exact tokens charged to the window.
CompleteExecution(r) ==
    /\ pc[r] = "completing"
    /\ now[r] # 0
    /\ release_reservation(r)
    /\ mark_route_success(active_requests[r])
    /\ IF Request[r].prefix = NoPrefix THEN UNCHANGED prefix_affinity
       ELSE record_prefix_affinity(r, active_requests[r])
    /\ release_principal(r)
    /\ token_windows' =
         [k \in Keys |-> IF k = KeyOf(r)
                           THEN Append(token_windows[k], [at |-> now[r], tokens |-> tokens[r]])
                           ELSE token_windows[k]]
    /\ Count("completed")
    /\ pc' = [pc EXCEPT ![r] = "recording"]
    /\ UNCHANGED <<host_vars, loaded_keys, request_windows, queue_order, queued, entry,
                   thread_vars>>

\* complete_request without a clock sample: everything live is released, nothing
\* is charged, and the request counts as failed.
CompleteWithoutClock(r) ==
    /\ pc[r] = "completing"
    /\ now[r] = 0
    /\ release_reservation(r)
    /\ release_principal(r)
    /\ Return(r, "done")
    /\ Count("failed")
    /\ UNCHANGED <<host_vars, policy_vars, route_vars, queue_order, queued>>

\* usage.record runs after the mutex is released, for a request with a key, and
\* may fail.
RecordUsage(r) ==
    /\ pc[r] = "recording"
    /\ \/ /\ KeyOf(r) # NoKey
          /\ usage' = usage \cup {[request |-> r, key |-> KeyOf(r),
                                   received_at |-> entry[r].received_at,
                                   completed_at |-> now[r], tokens |-> tokens[r]]}
       \/ UNCHANGED usage
    /\ Return(r, "done")
    /\ UNCHANGED <<time, clock_faults, restarts, policy_vars, principal_vars, route_active,
                   route_vars, active_requests, queue_order, queued, telemetry>>

\* fail_reservation: released even when the clock fails, cooled down otherwise.
FailExecution(r) ==
    /\ pc[r] = "failing"
    /\ release_reservation(r)
    /\ release_principal(r)
    /\ IF now[r] = 0 THEN UNCHANGED <<failure_counts, unavailable_until>>
       ELSE mark_route_failure(active_requests[r], now[r])
    /\ Return(r, "done")
    /\ Count("failed")
    /\ UNCHANGED <<host_vars, policy_vars, prefix_affinity, queue_order, queued>>

-----------------------------------------------------------------------------
(* retry_before_output *)

\* Mutant of RetrySelected: the sibling is selected before the cooldown counts.
RetrySelected_BeforeCooldown(r) ==
    /\ pc[r] = "retrying"
    /\ now[r] # 0
    /\ mark_route_failure(active_requests[r], now[r])
    /\ \E routes \in Snapshots(r) : \E warm \in Warm(r, routes) :
         \E g \in Selected(r, routes, Released(r), unavailable_until, warm) :
           reserve_route(r, g, Released(r))
    /\ Count("retried")
    /\ UNCHANGED <<host_vars, policy_vars, principal_vars, prefix_affinity,
                   queue_order, queued, entry, now, recent, polls, tokens>>

\* Mutant of RetrySelected: the sibling's admission charges the key again.
RetrySelected_ChargesAgain(r) ==
    LET until == CooledDown(active_requests[r], now[r])
    IN  /\ pc[r] = "retrying"
        /\ now[r] # 0
        /\ mark_route_failure(active_requests[r], now[r])
        /\ \E routes \in Snapshots(r) : \E warm \in Warm(r, routes) :
             \E g \in Selected(r, routes, Released(r), until, warm) :
               reserve_route(r, g, Released(r))
        /\ charge_principal(r)
        /\ Count("retried")
        /\ UNCHANGED <<host_vars, policy_vars, prefix_affinity,
                       queue_order, queued, entry, now, recent, polls, tokens>>

\* A sibling route takes over: the principal is neither released nor charged.
RetrySelected(r) ==
    LET until == CooledDown(active_requests[r], now[r])
    IN  /\ pc[r] = "retrying"
        /\ now[r] # 0
        /\ mark_route_failure(active_requests[r], now[r])
        /\ \E routes \in Snapshots(r) : \E warm \in Warm(r, routes) :
             \E g \in Selected(r, routes, Released(r), until, warm) :
               reserve_route(r, g, Released(r))
        /\ Count("retried")
        /\ UNCHANGED <<host_vars, policy_vars, principal_vars, prefix_affinity,
                       queue_order, queued, entry, now, recent, polls, tokens>>

\* Every routable sibling is busy: back to the tail of the queue, with the time
\* already queued.
RetryQueued(r) ==
    LET until == CooledDown(active_requests[r], now[r])
    IN  /\ pc[r] = "retrying"
        /\ now[r] # 0
        /\ mark_route_failure(active_requests[r], now[r])
        /\ \E routes \in Snapshots(r) : IsBusy(r, routes, Released(r), until)
        /\ Request[r].max_queue > 0
        /\ entry[r].queued_milliseconds <= Request[r].max_queue
        /\ Cardinality(queued) < MaxQueued
        /\ release_reservation(r)
        /\ push_back(r)
        /\ entry' = [entry EXCEPT ![r] = [@ EXCEPT !.enqueued_at = now[r], !.was_admitted = TRUE]]
        /\ Count("retried")
        /\ UNCHANGED <<host_vars, policy_vars, principal_vars, prefix_affinity,
                       now, recent, attempts, tokens>>

\* The clock or the route provider failed, no sibling is routable, or the queue
\* does not take the request: the retry is its terminal failure.
RetryFails(r) ==
    /\ pc[r] = "retrying"
    /\ release_reservation(r)
    /\ release_principal(r)
    /\ IF now[r] = 0 THEN UNCHANGED <<failure_counts, unavailable_until>>
       ELSE mark_route_failure(active_requests[r], now[r])
    /\ Return(r, "done")
    /\ Count("failed")
    /\ UNCHANGED <<host_vars, policy_vars, prefix_affinity, queue_order, queued>>

-----------------------------------------------------------------------------
(* The host *)

Tick ==
    /\ time < MaxTime
    /\ time' = time + 1
    /\ UNCHANGED <<usage, clock_faults, restarts, policy_vars, principal_vars, route_active,
                   route_vars, active_requests, queue_order, queued, telemetry, pc, entry,
                   thread_vars>>

NoTelemetry == [counter \in {"received", "admitted", "completed", "failed",
                             "cancelled", "retried"} |-> 0]

\* The gateway daemon dies and restarts with empty live state; threads of the
\* dead process are lost, the usage collection survives.
Restart ==
    /\ restarts < MaxRestarts
    /\ restarts' = restarts + 1
    /\ pc' = [r \in Requests |-> IF pc[r] = "idle" THEN "idle" ELSE "lost"]
    /\ loaded_keys' = {}
    /\ request_windows' = [k \in Keys |-> <<>>]
    /\ token_windows' = [k \in Keys |-> <<>>]
    /\ principal_active' = [k \in Keys |-> 0]
    /\ principal_reserved_tokens' = [k \in Keys |-> 0]
    /\ route_active' = [g \in Groups |-> 0]
    /\ failure_counts' = [g \in Groups |-> 0]
    /\ unavailable_until' = [g \in Groups |-> 0]
    /\ prefix_affinity' = [p \in PrefixKeys |-> [group |-> NoGroup, deadline |-> 0]]
    /\ active_requests' = [r \in Requests |-> NoGroup]
    /\ queue_order' = <<>>
    /\ queued' = {}
    /\ telemetry' = NoTelemetry
    /\ entry' = [r \in Requests |-> NoEntry]
    /\ now' = [r \in Requests |-> 0]
    /\ recent' = [r \in Requests |-> <<>>]
    /\ attempts' = [r \in Requests |-> 0]
    /\ polls' = [r \in Requests |-> 0]
    /\ tokens' = [r \in Requests |-> 0]
    /\ UNCHANGED <<time, usage, clock_faults>>

Init ==
    /\ time = 1
    /\ usage = {}
    /\ clock_faults = 0
    /\ restarts = 0
    /\ pc = [r \in Requests |-> "idle"]
    /\ loaded_keys = {}
    /\ request_windows = [k \in Keys |-> <<>>]
    /\ token_windows = [k \in Keys |-> <<>>]
    /\ principal_active = [k \in Keys |-> 0]
    /\ principal_reserved_tokens = [k \in Keys |-> 0]
    /\ route_active = [g \in Groups |-> 0]
    /\ failure_counts = [g \in Groups |-> 0]
    /\ unavailable_until = [g \in Groups |-> 0]
    /\ prefix_affinity = [p \in PrefixKeys |-> [group |-> NoGroup, deadline |-> 0]]
    /\ active_requests = [r \in Requests |-> NoGroup]
    /\ queue_order = <<>>
    /\ queued = {}
    /\ telemetry = NoTelemetry
    /\ entry = [r \in Requests |-> NoEntry]
    /\ now = [r \in Requests |-> 0]
    /\ recent = [r \in Requests |-> <<>>]
    /\ attempts = [r \in Requests |-> 0]
    /\ polls = [r \in Requests |-> 0]
    /\ tokens = [r \in Requests |-> 0]

Admission(r) ==
    \/ BeginAdmit(r) \/ RejectAdmit(r) \/ CheckLoaded(r) \/ ReadRecent(r)
    \/ RefuseRecent(r) \/ RefusePolicy(r) \/ RecordInitialFailure(r)
    \/ AdmitSelected(r) \/ AdmitQueued(r) \/ AdmitRefused(r)

Queueing(r) ==
    \/ BeginPoll(r) \/ PollExpired(r) \/ PollAdmitted(r) \/ PollWaiting(r) \/ PollError(r)
    \/ FailQueue(r) \/ AbandonQueue(r)

Execution(r) ==
    \/ AttemptSucceeds(r) \/ AttemptFails(r) \/ AttemptRetries(r) \/ CancelExecution(r)
    \/ CompleteExecution(r) \/ CompleteWithoutClock(r) \/ RecordUsage(r) \/ FailExecution(r)
    \/ RetrySelected(r) \/ RetryQueued(r) \/ RetryFails(r)

Thread(r) == Admission(r) \/ Queueing(r) \/ Execution(r)

Next ==
    \/ \E r \in Requests : Receive(r) \/ Thread(r)
    \/ Tick
    \/ Restart

Spec == Init /\ [][Next]_vars

\* The host schedules every execution thread; nothing forces a caller to send a
\* request, the clock to fail, or the daemon to restart.
FairSpec == Spec /\ \A r \in Requests : WF_vars(Thread(r))

-----------------------------------------------------------------------------
(* Properties *)

Entry == [received_at : Nat, enqueued_at : Nat, queued_milliseconds : Nat,
          was_admitted : BOOLEAN]

HostTypeOK ==
    /\ time \in Nat /\ clock_faults \in Nat /\ restarts \in Nat
    /\ usage \subseteq UsageRecord /\ IsFiniteSet(usage)

PolicyTypeOK ==
    /\ loaded_keys \subseteq Keys
    /\ request_windows \in [Keys -> Seq(Nat)]
    /\ token_windows \in [Keys -> Seq([at : Nat, tokens : Nat])]

PrincipalTypeOK ==
    /\ principal_active \in [Keys -> Nat]
    /\ principal_reserved_tokens \in [Keys -> Nat]

ActivityTypeOK ==
    /\ route_active \in [Groups -> Nat]
    /\ active_requests \in [Requests -> Groups \cup {NoGroup}]

RouteTypeOK ==
    /\ failure_counts \in [Groups -> 0..MaxBackendFailures]
    /\ unavailable_until \in [Groups -> Nat]
    /\ prefix_affinity \in [PrefixKeys -> [group : Groups \cup {NoGroup}, deadline : Nat]]

QueueTypeOK ==
    /\ queue_order \in Seq(Requests)
    /\ queued \subseteq Requests

TelemetryTypeOK == telemetry \in [DOMAIN NoTelemetry -> Nat]
PcTypeOK == pc \in [Requests -> Pc]
EntryTypeOK == entry \in [Requests -> Entry]

ThreadTypeOK ==
    /\ now \in [Requests -> Nat]
    /\ recent \in [Requests -> Seq(UsageRecord)]
    /\ attempts \in [Requests -> Nat]
    /\ polls \in [Requests -> Nat]
    /\ tokens \in [Requests -> Nat]

\* The state of GatewayState and of the execution threads has its shape; failure
\* counts stay within MAX_BACKEND_FAILURES and every key, route and request that
\* is named anywhere is a known one.
TypeOK ==
    /\ HostTypeOK
    /\ PolicyTypeOK
    /\ PrincipalTypeOK
    /\ ActivityTypeOK
    /\ RouteTypeOK
    /\ QueueTypeOK
    /\ TelemetryTypeOK
    /\ PcTypeOK
    /\ EntryTypeOK
    /\ ThreadTypeOK

Holders(k) == {r \in RequestsOf(k) : r \in queued \/ active_requests[r] # NoGroup}
ActiveOn(g) == {r \in Requests : active_requests[r] = g}
InFlight == {r \in Requests : \/ pc[r] \in AdmittingPc
                               \/ active_requests[r] # NoGroup \/ r \in queued}

\* The FIFO index and the queue entries name the same requests, each once, within
\* the queue bound: no path of admit, poll_queue, retry_before_output or
\* fail_queue loses, duplicates or forgets one side.
QueueIndexExact ==
    /\ Range(queue_order) = queued
    /\ Len(queue_order) = Cardinality(queued)
    /\ Cardinality(queued) <= MaxQueued

\* A request owns a reservation exactly while its thread is between reserve_route
\* and the release of its terminal operation, and a queue entry exactly while its
\* thread holds the ticket: no handler drops one early, and the only path that
\* keeps one is fail_queue when its clock read fails, which abandons the entry.
OwnershipExact ==
    \A r \in Requests :
        /\ active_requests[r] # NoGroup <=> pc[r] \in ActivePc
        /\ r \in queued <=> pc[r] \in QueuedPc \/ pc[r] = "abandoned"

\* Every route's activity counter equals the requests that own a reservation on
\* it, and never exceeds the route's capacity although every thread selects from
\* a snapshot it read before it took the mutex.
RouteCapacityExact ==
    \A g \in Groups : /\ route_active[g] = Cardinality(ActiveOn(g))
                      /\ route_active[g] <= Route[g].max_active

\* Every key's concurrency counter equals its queued and active requests, however
\* they were queued, retried, expired, cancelled or completed, and stays within
\* the key's concurrency limit.
PrincipalExact ==
    \A k \in Keys :
        /\ principal_active[k] = Cardinality(Holders(k))
        /\ Limited(Limits[k].concurrency) => principal_active[k] <= Limits[k].concurrency

\* Reserved tokens are the demand of the key's live requests, and the tokens
\* charged in its window plus the reserved ones never exceed its token limit:
\* retries do not charge twice and a completion never charges more than it had
\* reserved, also after a restart has reloaded the window.
TokenBudget ==
    \A k \in Keys :
        /\ principal_reserved_tokens[k] =
             FoldFunction(+, 0, [r \in Holders(k) |-> ReservedTokens(r)])
        /\ Limited(Limits[k].tokens) =>
             TokensIn(token_windows[k]) + principal_reserved_tokens[k] <= Limits[k].tokens

\* Telemetry conservation: every received request has exactly one terminal count,
\* or is being admitted or refused, or is still queued or active.
TelemetryConserved ==
    LET closed == telemetry["completed"] + telemetry["failed"] + telemetry["cancelled"]
    IN  telemetry["received"] = closed + Cardinality(InFlight)

\* A thread never dispatches to a route that is cooling down, and in particular
\* a retry never returns to the route that has just failed it.
DispatchRespectsCooldown ==
    [][\A r \in Requests :
         attempts'[r] > attempts[r] => unavailable_until'[active_requests'[r]] <= time]_vars

\* Every received request is answered, whatever the routes, the other requests and
\* the queue do: a thread does not wait forever behind an entry that nobody polls
\* any more, because its own poll cycles are bounded.
EveryRequestEnds ==
    \A r \in Requests : pc[r] = "received" ~> pc[r] \in {"done", "lost", "abandoned"}

\* The persisted window reconstructs after a restart: a record the store returns
\* for the window, because it completed inside it, passes load_recent_usage's
\* check of its start.
RecentStartsInWindow ==
    \A r \in Requests : pc[r] = "committing" =>
        \A i \in DOMAIN recent[r] : recent[r][i].received_at >= Cutoff(r)
=============================================================================
