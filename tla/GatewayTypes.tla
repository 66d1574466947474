---------------------------- MODULE GatewayTypes ----------------------------
(***************************************************************************)
(* Every action of Gateway keeps the type invariant, for every set of      *)
(* requests, keys and routes and every value of the bounds.  The actions   *)
(* that read the route a request owns are in GatewayProofs.                *)
(***************************************************************************)
EXTENDS Gateway, FiniteSetTheorems, TLAPS

(* Operators *)

\* The saturating subtraction the handlers release with stays a natural number.
LEMMA MinusType == \A a, b \in Nat : Minus(a, b) \in Nat
BY DEF Minus

\* Pushing onto a window or onto the queue keeps it a sequence.
LEMMA AppendType ==
    ASSUME NEW S, NEW s \in Seq(S), NEW e \in S
    PROVE  Append(s, e) \in Seq(S)
OBVIOUS

\* A function on 1..n is a sequence.
LEMMA FunctionIsSeq ==
    ASSUME NEW S, NEW n \in Nat, NEW f \in [1..n -> S]
    PROVE  f \in Seq(S)
OBVIOUS

\* Popping expired entries off the front of a deque leaves a sequence.
LEMMA PopExpiredType ==
    ASSUME NEW S, NEW w \in Seq(S), NEW times, DOMAIN times = 1..Len(w), NEW cutoff
    PROVE  PopExpired(w, times, cutoff) \in Seq(S)
<1> DEFINE P == {i \in DOMAIN times : \A j \in 1..i : times[j] <= cutoff}
<1>1. IsFiniteSet(1..Len(w)) /\ Cardinality(1..Len(w)) = Len(w)
  BY FS_Interval
<1>2. P \in SUBSET (1..Len(w))
  OBVIOUS
<1>3. Cardinality(P) \in Nat /\ Cardinality(P) <= Len(w)
  BY <1>1, <1>2, FS_Subset, FS_CardinalityType
<1> HIDE DEF P
<1>4. SubSeq(w, Cardinality(P) + 1, Len(w)) \in Seq(S)
  BY <1>3
<1> QED
  BY <1>4 DEF PopExpired, P

\* A request's demand and its token reservation are natural numbers.
LEMMA DemandType ==
    ASSUME NEW r \in Requests
    PROVE  TokenDemand(r) \in Nat /\ ReservedTokens(r) \in Nat
<1>1. Request[r].context \in Nat /\ Request[r].output \in Nat
  BY RequestAssumption
<1>2. TokenDemand(r) \in Nat
  BY <1>1 DEF TokenDemand
<1> QED
  BY <1>2 DEF ReservedTokens

\* A request that is not relayed carries a known key.
LEMMA KeyType == \A r \in Requests : KeyOf(r) # NoKey => KeyOf(r) \in Keys
BY RequestAssumption DEF KeyOf

\* select_route only returns a route of the snapshot with a free slot whose
\* cooldown is over at the thread's clock sample.
LEMMA SelectedIsAvailable ==
    ASSUME NEW r \in Requests, NEW routes \in Snapshots(r), NEW active, NEW until, NEW warm,
           NEW g \in Selected(r, routes, active, until, warm)
    PROVE  g \in Groups /\ active[g] < Route[g].max_active /\ until[g] <= now[r]
BY DEF Selected, Available, Routable, Snapshots

-----------------------------------------------------------------------------
(* Types of the mutex-section helpers *)

\* What an action leaves alone keeps its type.
LEMMA Frame ==
    ASSUME TypeOK
    PROVE  /\ UNCHANGED host_vars => HostTypeOK'
           /\ UNCHANGED policy_vars => PolicyTypeOK'
           /\ UNCHANGED principal_vars => PrincipalTypeOK'
           /\ UNCHANGED route_active /\ UNCHANGED active_requests => ActivityTypeOK'
           /\ UNCHANGED route_vars => RouteTypeOK'
           /\ UNCHANGED queue_order /\ UNCHANGED queued => QueueTypeOK'
           /\ UNCHANGED telemetry => TelemetryTypeOK'
           /\ UNCHANGED pc => PcTypeOK'
           /\ UNCHANGED entry => EntryTypeOK'
           /\ UNCHANGED thread_vars => ThreadTypeOK'
<1>1. UNCHANGED host_vars => HostTypeOK'
  BY DEF TypeOK, HostTypeOK, host_vars
<1>2. UNCHANGED policy_vars => PolicyTypeOK'
  BY DEF TypeOK, PolicyTypeOK, policy_vars
<1>3. UNCHANGED principal_vars => PrincipalTypeOK'
  BY DEF TypeOK, PrincipalTypeOK, principal_vars
<1>4. UNCHANGED route_active /\ UNCHANGED active_requests => ActivityTypeOK'
  BY DEF TypeOK, ActivityTypeOK
<1>5. UNCHANGED route_vars => RouteTypeOK'
  BY DEF TypeOK, RouteTypeOK, route_vars
<1>6. UNCHANGED queue_order /\ UNCHANGED queued => QueueTypeOK'
  BY DEF TypeOK, QueueTypeOK
<1>7. UNCHANGED telemetry => TelemetryTypeOK'
  BY DEF TypeOK, TelemetryTypeOK
<1>8. UNCHANGED pc => PcTypeOK'
  BY DEF TypeOK, PcTypeOK
<1>9. UNCHANGED entry => EntryTypeOK'
  BY DEF TypeOK, EntryTypeOK
<1>10. UNCHANGED thread_vars => ThreadTypeOK'
  BY DEF TypeOK, ThreadTypeOK, thread_vars
<1> QED
  BY <1>1, <1>2, <1>3, <1>4, <1>5, <1>6, <1>7, <1>8, <1>9, <1>10

Counters == {"received", "admitted", "completed", "failed", "cancelled", "retried"}

\* Counting an outcome keeps the counters natural numbers.
LEMMA CountType ==
    ASSUME TypeOK, NEW c \in Counters, Count(c)
    PROVE  TelemetryTypeOK'
BY DEF TypeOK, TelemetryTypeOK, Count, NoTelemetry, Counters

\* A thread moves to a known program counter.
LEMMA PcType ==
    ASSUME TypeOK, NEW r \in Requests, NEW next \in Pc, pc' = [pc EXCEPT ![r] = next]
    PROVE  PcTypeOK'
BY DEF TypeOK, PcTypeOK

\* A thread that returns leaves typed locals behind.
LEMMA ReturnType ==
    ASSUME TypeOK, NEW r \in Requests, NEW end \in Pc, Return(r, end)
    PROVE  PcTypeOK' /\ EntryTypeOK' /\ ThreadTypeOK'
<1>1. PcTypeOK'
  BY Zenon, PcType DEF Return
<1>2. EntryTypeOK'
  BY DEF TypeOK, EntryTypeOK, Return, NoEntry, Entry
<1>3. ThreadTypeOK'
  <2> USE DEF TypeOK, ThreadTypeOK, Return
  <2>1. now' \in [Requests -> Nat]
    OBVIOUS
  <2>2. recent' \in [Requests -> Seq(UsageRecord)]
    OBVIOUS
  <2>3. attempts' \in [Requests -> Nat]
    OBVIOUS
  <2>4. polls' \in [Requests -> Nat]
    OBVIOUS
  <2>5. tokens' \in [Requests -> Nat]
    OBVIOUS
  <2> QED
    BY <2>1, <2>2, <2>3, <2>4, <2>5
<1> QED
  BY <1>1, <1>2, <1>3

\* release_principal and charge_principal keep the key counters natural numbers.
LEMMA PrincipalType ==
    ASSUME TypeOK, NEW r \in Requests, release_principal(r) \/ charge_principal(r)
    PROVE  PrincipalTypeOK'
<1>1. ReservedTokens(r) \in Nat
  BY DemandType
<1>2. CASE release_principal(r)
  <2>1. \A k \in Keys : /\ Minus(principal_active[k], 1) \in Nat
                        /\ Minus(principal_reserved_tokens[k], ReservedTokens(r)) \in Nat
    BY Zenon, <1>1, MinusType DEF TypeOK, PrincipalTypeOK
  <2> QED
    BY <1>2, <2>1 DEF TypeOK, PrincipalTypeOK, release_principal
<1>3. CASE charge_principal(r)
  <2>1. \A k \in Keys : /\ principal_active[k] + 1 \in Nat
                        /\ principal_reserved_tokens[k] + ReservedTokens(r) \in Nat
    BY <1>1 DEF TypeOK, PrincipalTypeOK
  <2> QED
    BY <1>3, <2>1 DEF TypeOK, PrincipalTypeOK, charge_principal
<1> QED
  BY <1>2, <1>3

\* The windows admit_principal works on, loaded from the store or not, are
\* sequences of instants and of charged tokens.
LEMMA WindowsType ==
    ASSUME TypeOK, NEW r \in Requests, KeyOf(r) # NoKey
    PROVE  /\ KeyOf(r) \in Keys
           /\ RequestWindow(r) \in Seq(Nat)
           /\ TokenWindow(r) \in Seq([at : Nat, tokens : Nat])
<1> DEFINE k == KeyOf(r)
           n == Len(recent[r])
           T == [at : Nat, tokens : Nat]
           rf == [i \in DOMAIN recent[r] |-> recent[r][i].received_at]
           tf == [i \in DOMAIN recent[r] |-> [at |-> recent[r][i].completed_at,
                                              tokens |-> recent[r][i].tokens]]
           rs == IF k \in loaded_keys THEN request_windows[k] ELSE request_windows[k] \o rf
           ts == IF k \in loaded_keys THEN token_windows[k] ELSE token_windows[k] \o tf
<1>1. k \in Keys
  BY KeyType
<1>2. /\ request_windows[k] \in Seq(Nat)
      /\ token_windows[k] \in Seq(T)
      /\ recent[r] \in Seq(UsageRecord)
  BY <1>1 DEF TypeOK, PolicyTypeOK, ThreadTypeOK
<1>3. n \in Nat /\ DOMAIN recent[r] = 1..n
  BY <1>2
<1>4. \A i \in 1..n : recent[r][i] \in UsageRecord
  BY <1>2, <1>3
<1>5. rf \in [1..n -> Nat]
  BY <1>3, <1>4 DEF UsageRecord
<1>6. tf \in [1..n -> T]
  BY <1>3, <1>4 DEF UsageRecord
<1> HIDE DEF rf, tf, T, n, k
<1>7. rf \in Seq(Nat) /\ tf \in Seq(T)
  BY <1>3, <1>5, <1>6, FunctionIsSeq
<1>8. rs \in Seq(Nat) /\ ts \in Seq(T)
  BY <1>2, <1>7
<1> HIDE DEF rs, ts
<1>9. PopExpired(rs, rs, Cutoff(r)) \in Seq(Nat)
  BY <1>8, PopExpiredType
<1>10. PopExpired(ts, [i \in DOMAIN ts |-> ts[i].at], Cutoff(r)) \in Seq(T)
  BY <1>8, PopExpiredType
<1> QED
  BY Zenon, <1>1, <1>9, <1>10 DEF RequestWindow, TokenWindow, rs, ts, rf, tf, T, k

\* Storing a key's windows keeps the policy state typed.
LEMMA SetWindowsType ==
    ASSUME TypeOK, NEW r \in Requests, KeyOf(r) # NoKey, NEW s \in Seq(Nat), SetWindows(r, s)
    PROVE  PolicyTypeOK'
<1>1. KeyOf(r) \in Keys /\ TokenWindow(r) \in Seq([at : Nat, tokens : Nat])
  BY WindowsType
<1>2. loaded_keys' \subseteq Keys
  BY <1>1 DEF TypeOK, PolicyTypeOK, SetWindows
<1>3. request_windows' \in [Keys -> Seq(Nat)]
  BY <1>1 DEF TypeOK, PolicyTypeOK, SetWindows
<1>4. token_windows' \in [Keys -> Seq([at : Nat, tokens : Nat])]
  BY <1>1 DEF TypeOK, PolicyTypeOK, SetWindows
<1> QED
  BY <1>2, <1>3, <1>4 DEF PolicyTypeOK

\* A request that passes the policy leaves typed windows.
LEMMA PassPolicyType ==
    ASSUME TypeOK, NEW r \in Requests, PassPolicy(r)
    PROVE  PolicyTypeOK'
<1>1. CASE KeyOf(r) = NoKey
  BY <1>1, Frame DEF PassPolicy
<1>2. CASE KeyOf(r) # NoKey
  <2>1. RequestWindow(r) \in Seq(Nat)
    BY <1>2, WindowsType
  <2>2. now[r] \in Nat
    BY DEF TypeOK, ThreadTypeOK
  <2>3. Append(RequestWindow(r), now[r]) \in Seq(Nat)
    BY <2>1, <2>2, AppendType
  <2> QED
    BY Zenon, <1>2, <2>3, SetWindowsType DEF PassPolicy
<1> QED
  BY <1>1, <1>2

\* reserve_route keeps the activity map and the thread typed.
LEMMA ReserveRouteType ==
    ASSUME TypeOK, NEW r \in Requests, NEW g \in Groups, NEW active \in [Groups -> Nat],
           reserve_route(r, g, active)
    PROVE  ActivityTypeOK' /\ PcTypeOK' /\ attempts' \in [Requests -> Nat]
<1>1. active_requests' \in [Requests -> Groups \cup {NoGroup}]
  BY DEF TypeOK, ActivityTypeOK, reserve_route
<1>2. route_active' \in [Groups -> Nat]
  BY DEF reserve_route
<1>3. attempts' \in [Requests -> Nat]
  BY DEF TypeOK, ThreadTypeOK, reserve_route
<1>4. PcTypeOK'
  BY Zenon, PcType DEF reserve_route, Pc, ActivePc
<1> QED
  BY <1>1, <1>2, <1>3, <1>4 DEF ActivityTypeOK

\* push_back keeps the queue typed.
LEMMA PushBackType ==
    ASSUME TypeOK, NEW r \in Requests, push_back(r)
    PROVE  QueueTypeOK' /\ PcTypeOK' /\ polls' \in [Requests -> Nat]
<1>1. queue_order' \in Seq(Requests) /\ queued' \subseteq Requests
  BY AppendType DEF TypeOK, QueueTypeOK, push_back
<1>2. polls' \in [Requests -> Nat]
  BY DEF TypeOK, ThreadTypeOK, push_back
<1>3. PcTypeOK'
  BY Zenon, PcType DEF push_back, Pc, EntryPc, QueuedPc
<1> QED
  BY <1>1, <1>2, <1>3 DEF QueueTypeOK

\* remove_queued_request keeps the queue typed.
LEMMA RemoveQueuedType ==
    ASSUME TypeOK, NEW r \in Requests, remove_queued_request(r)
    PROVE  QueueTypeOK'
<1> DEFINE p == CHOOSE i \in DOMAIN queue_order : queue_order[i] = r
           n == Len(queue_order)
           f == [i \in 1..(n - 1) |-> IF i < p THEN queue_order[i] ELSE queue_order[i + 1]]
<1>1. n \in Nat /\ \A i \in 1..n : queue_order[i] \in Requests
  BY DEF TypeOK, QueueTypeOK
<1>2. queue_order' = f /\ queued' = queued \ {r}
  BY DEF remove_queued_request
<1> HIDE DEF p, n
<1>3. \A i \in 1..(n - 1) : i \in 1..n /\ i + 1 \in 1..n
  BY <1>1
<1>4. f \in [1..(n - 1) -> Requests]
  BY <1>1, <1>3
<1> HIDE DEF f
<1>5. PICK m \in Nat : 1..(n - 1) = 1..m
  <2>1. CASE n = 0
    <3>1. 1..(n - 1) = 1..0
      BY <2>1
    <3> QED
      BY Zenon, <3>1
  <2>2. CASE n # 0
    BY <1>1, <2>2
  <2> QED
    BY <2>1, <2>2
<1>6. f \in Seq(Requests)
  BY Zenon, <1>4, <1>5, FunctionIsSeq
<1>7. queued \ {r} \subseteq Requests
  BY DEF TypeOK, QueueTypeOK
<1> QED
  BY <1>2, <1>6, <1>7 DEF QueueTypeOK

\* The activity map without one reservation is an activity map.
LEMMA ReleasedType ==
    ASSUME TypeOK, NEW r \in Requests
    PROVE  Released(r) \in [Groups -> Nat]
BY Zenon, MinusType DEF TypeOK, ActivityTypeOK, Released

\* release_reservation keeps the activity state typed.
LEMMA ReleaseReservationType ==
    ASSUME TypeOK, NEW r \in Requests, release_reservation(r)
    PROVE  ActivityTypeOK'
<1>1. route_active' \in [Groups -> Nat]
  BY ReleasedType DEF release_reservation
<1>2. active_requests' \in [Requests -> Groups \cup {NoGroup}]
  BY DEF TypeOK, ActivityTypeOK, release_reservation
<1> QED
  BY <1>1, <1>2 DEF ActivityTypeOK

\* A failure keeps the count within its bound and cools the route down until a
\* natural instant.
LEMMA CooledDownType ==
    ASSUME TypeOK, NEW g \in Groups, NEW n \in Nat
    PROVE  /\ Failures(g) \in [Groups -> 0..MaxBackendFailures]
           /\ CooledDown(g, n) \in [Groups -> Nat]
<1>1. MaxBackendFailures \in Nat \ {0}
  BY BoundsAssumption
<1>2. failure_counts \in [Groups -> 0..MaxBackendFailures] /\ unavailable_until \in [Groups -> Nat]
  BY DEF TypeOK, RouteTypeOK
<1>3. Failures(g) \in [Groups -> 0..MaxBackendFailures] /\ Failures(g)[g] \in 1..MaxBackendFailures
  BY <1>1, <1>2 DEF Failures
<1>4. Cooldown(Failures(g)[g]) \in Nat
  BY <1>3, CooldownAssumption
<1>5. n + Cooldown(Failures(g)[g]) \in Nat
  BY <1>4
<1> QED
  BY <1>2, <1>3, <1>5 DEF CooledDown

\* record_prefix_affinity keeps the affinity map typed.
LEMMA AffinityType ==
    ASSUME TypeOK, NEW r \in Requests, NEW g \in Groups, record_prefix_affinity(r, g)
    PROVE  prefix_affinity' \in [PrefixKeys -> [group : Groups \cup {NoGroup}, deadline : Nat]]
<1> DEFINE A == [group : Groups \cup {NoGroup}, deadline : Nat]
           none == [group |-> NoGroup, deadline |-> 0]
           kept == [q \in PrefixKeys |->
                      IF prefix_affinity[q].deadline > now[r] THEN prefix_affinity[q] ELSE none]
           new == [group |-> g, deadline |-> now[r] + PrefixLifetime]
           stored == [kept EXCEPT ![Request[r].prefix] = new]
           live == {q \in PrefixKeys : stored[q].deadline > 0}
           oldest == CHOOSE q \in live :
                       \A o \in live : stored[q].deadline <= stored[o].deadline
<1>1. now[r] \in Nat /\ PrefixLifetime \in Nat
  BY BoundsAssumption DEF TypeOK, ThreadTypeOK
<1>2. none \in A /\ new \in A
  BY <1>1
<1>3. prefix_affinity \in [PrefixKeys -> A]
  BY DEF TypeOK, RouteTypeOK
<1> HIDE DEF A, none, new
<1>4. kept \in [PrefixKeys -> A]
  BY <1>2, <1>3
<1> HIDE DEF kept
<1>5. stored \in [PrefixKeys -> A]
  BY Zenon, <1>2, <1>4
<1> HIDE DEF stored
<1>6. [stored EXCEPT ![oldest] = none] \in [PrefixKeys -> A]
  BY Zenon, <1>2, <1>5
<1>7. prefix_affinity' = IF Cardinality(live) > MaxPrefixes
                           THEN [stored EXCEPT ![oldest] = none] ELSE stored
  BY DEF record_prefix_affinity, stored, kept, new, none
<1> QED
  BY <1>5, <1>6, <1>7 DEF A

-----------------------------------------------------------------------------
(* The type invariant *)

\* The initial state of GatewayManager is typed.
THEOREM TypeInit == Init => TypeOK
<1> SUFFICES ASSUME Init PROVE TypeOK
  OBVIOUS
<1>1. HostTypeOK
  BY FS_EmptySet DEF Init, HostTypeOK
<1>2. PolicyTypeOK /\ PrincipalTypeOK /\ ActivityTypeOK /\ QueueTypeOK
  BY DEF Init, PolicyTypeOK, PrincipalTypeOK, ActivityTypeOK, QueueTypeOK
<1>3. RouteTypeOK
  BY BoundsAssumption DEF Init, RouteTypeOK
<1>4. TelemetryTypeOK /\ PcTypeOK /\ EntryTypeOK
  BY DEF Init, TelemetryTypeOK, NoTelemetry, PcTypeOK, Pc, ClosedPc, EntryTypeOK, Entry, NoEntry
<1>5. ThreadTypeOK
  BY DEF Init, ThreadTypeOK
<1> QED
  BY <1>1, <1>2, <1>3, <1>4, <1>5 DEF TypeOK

\* Counting the request keeps the types.
LEMMA ReceiveType == ASSUME TypeOK, NEW r \in Requests, Receive(r) PROVE TypeOK'
<1>1. TelemetryTypeOK'
  BY CountType DEF Receive, Counters
<1>2. PcTypeOK'
  BY Zenon, PcType DEF Receive, Pc, AdmittingPc
<1> QED
  BY <1>1, <1>2, Frame DEF Receive, TypeOK

\* Sampling the clock keeps the types.
LEMMA BeginAdmitType == ASSUME TypeOK, NEW r \in Requests, BeginAdmit(r) PROVE TypeOK'
<1>1. \E next \in Pc : pc' = [pc EXCEPT ![r] = next]
  BY Zenon DEF BeginAdmit, Pc, AdmittingPc
<1>2. PcTypeOK'
  BY Zenon, <1>1, PcType
<1>3. now' \in [Requests -> Nat]
  BY DEF BeginAdmit, TypeOK, HostTypeOK, ThreadTypeOK
<1>4. ThreadTypeOK'
  BY <1>3 DEF BeginAdmit, TypeOK, ThreadTypeOK
<1> QED
  BY <1>2, <1>4, Frame DEF BeginAdmit, TypeOK

\* The refusals that leave the policy alone keep the types.
LEMMA RefusalType ==
    ASSUME TypeOK, NEW r \in Requests, RejectAdmit(r) \/ RefuseRecent(r)
    PROVE  TypeOK'
<1>1. PcTypeOK' /\ EntryTypeOK' /\ ThreadTypeOK'
  BY ReturnType DEF RejectAdmit, RefuseRecent, Pc, AdmittingPc
<1> QED
  BY <1>1, Frame DEF RejectAdmit, RefuseRecent, TypeOK

\* Counting a refused admission keeps the types.
LEMMA RecordInitialFailureType ==
    ASSUME TypeOK, NEW r \in Requests, RecordInitialFailure(r)
    PROVE  TypeOK'
<1>1. TelemetryTypeOK'
  BY CountType DEF RecordInitialFailure, Counters
<1>2. PcTypeOK' /\ EntryTypeOK' /\ ThreadTypeOK'
  BY ReturnType DEF RecordInitialFailure, Pc, ClosedPc
<1> QED
  BY <1>1, <1>2, Frame DEF RecordInitialFailure, TypeOK

\* Looking up whether the window is loaded keeps the types.
LEMMA CheckLoadedType == ASSUME TypeOK, NEW r \in Requests, CheckLoaded(r) PROVE TypeOK'
<1>1. \E next \in Pc : pc' = [pc EXCEPT ![r] = next]
  BY Zenon DEF CheckLoaded, Pc, AdmittingPc
<1>2. PcTypeOK'
  BY Zenon, <1>1, PcType
<1> QED
  BY <1>2, Frame DEF CheckLoaded, TypeOK

\* What the usage store returns is a sequence of its records.
LEMMA ReadRecentType == ASSUME TypeOK, NEW r \in Requests, ReadRecent(r) PROVE TypeOK'
<1> DEFINE found == UsageSince(KeyOf(r), Cutoff(r))
<1>1. PcTypeOK'
  BY Zenon, PcType DEF ReadRecent, Pc, AdmittingPc
<1>2. found \subseteq usage /\ usage \subseteq UsageRecord /\ IsFiniteSet(usage)
  BY DEF TypeOK, HostTypeOK, UsageSince
<1>3. PICK s \in [1..Cardinality(found) -> found] : recent' = [recent EXCEPT ![r] = s]
  BY Zenon DEF ReadRecent
<1> HIDE DEF found
<1>4. Cardinality(found) \in Nat
  BY <1>2, FS_Subset, FS_CardinalityType
<1>5. s \in [1..Cardinality(found) -> UsageRecord]
  BY <1>2
<1>6. s \in Seq(UsageRecord)
  BY <1>4, <1>5, FunctionIsSeq
<1>7. recent' \in [Requests -> Seq(UsageRecord)]
  BY <1>3, <1>6 DEF TypeOK, ThreadTypeOK
<1>8. ThreadTypeOK'
  BY <1>7 DEF ReadRecent, TypeOK, ThreadTypeOK
<1> QED
  BY <1>1, <1>8, Frame DEF ReadRecent, TypeOK

\* A refused limit stores typed windows.
LEMMA RefusePolicyType == ASSUME TypeOK, NEW r \in Requests, RefusePolicy(r) PROVE TypeOK'
<1>1. PcTypeOK' /\ EntryTypeOK' /\ ThreadTypeOK'
  BY ReturnType DEF RefusePolicy, Pc, AdmittingPc
<1>2. RequestWindow(r) \in Seq(Nat)
  BY WindowsType DEF RefusePolicy
<1>3. PolicyTypeOK'
  BY <1>2, SetWindowsType DEF RefusePolicy
<1> QED
  BY <1>1, <1>3, Frame DEF RefusePolicy, TypeOK

\* A fresh queue entry or reservation is typed.
LEMMA NewEntryType ==
    ASSUME TypeOK, NEW r \in Requests
    PROVE  NewEntry(r) \in Entry /\ [NewEntry(r) EXCEPT !.enqueued_at = 0] \in Entry
BY Zenon DEF TypeOK, ThreadTypeOK, NewEntry, NoEntry, Entry

\* Admission onto a route keeps the types.
LEMMA AdmitSelectedType == ASSUME TypeOK, NEW r \in Requests, AdmitSelected(r) PROVE TypeOK'
<1>1. PICK g \in Groups : reserve_route(r, g, route_active)
  BY SelectedIsAvailable DEF AdmitSelected
<1>2. route_active \in [Groups -> Nat]
  BY DEF TypeOK, ActivityTypeOK
<1>3. ActivityTypeOK' /\ PcTypeOK' /\ attempts' \in [Requests -> Nat]
  BY <1>1, <1>2, ReserveRouteType
<1>4. TelemetryTypeOK'
  BY CountType DEF AdmitSelected, Counters
<1>5. PrincipalTypeOK' /\ PolicyTypeOK'
  BY PrincipalType, PassPolicyType DEF AdmitSelected
<1>6. EntryTypeOK'
  BY NewEntryType DEF AdmitSelected, TypeOK, EntryTypeOK
<1>7. recent' \in [Requests -> Seq(UsageRecord)]
  BY DEF AdmitSelected, TypeOK, ThreadTypeOK
<1>8. ThreadTypeOK'
  BY <1>3, <1>7 DEF AdmitSelected, TypeOK, ThreadTypeOK
<1> QED
  BY <1>3, <1>4, <1>5, <1>6, <1>8, Frame DEF AdmitSelected, TypeOK

\* Admission into the queue keeps the types.
LEMMA AdmitQueuedType == ASSUME TypeOK, NEW r \in Requests, AdmitQueued(r) PROVE TypeOK'
<1>1. /\ PassPolicy(r) /\ charge_principal(r) /\ push_back(r)
      /\ entry' = [entry EXCEPT ![r] = NewEntry(r)]
      /\ recent' = [recent EXCEPT ![r] = <<>>]
      /\ UNCHANGED <<host_vars, route_active, route_vars, active_requests, telemetry,
                     now, attempts, tokens>>
  BY Zenon DEF AdmitQueued
<1>2. QueueTypeOK' /\ PcTypeOK' /\ polls' \in [Requests -> Nat]
  BY Zenon, <1>1, PushBackType
<1>3. PrincipalTypeOK' /\ PolicyTypeOK'
  BY Zenon, <1>1, PrincipalType, PassPolicyType
<1>4. EntryTypeOK'
  BY Zenon, <1>1, NewEntryType DEF TypeOK, EntryTypeOK
<1>5. recent' \in [Requests -> Seq(UsageRecord)]
  BY <1>1 DEF TypeOK, ThreadTypeOK
<1>6. ThreadTypeOK'
  BY <1>1, <1>2, <1>5 DEF TypeOK, ThreadTypeOK
<1> QED
  BY <1>1, <1>2, <1>3, <1>4, <1>6, Frame DEF TypeOK

\* A refusal for want of capacity keeps the types.
LEMMA AdmitRefusedType == ASSUME TypeOK, NEW r \in Requests, AdmitRefused(r) PROVE TypeOK'
<1>1. PcTypeOK' /\ EntryTypeOK' /\ ThreadTypeOK'
  BY Zenon, ReturnType DEF AdmitRefused, Pc, AdmittingPc
<1>2. PolicyTypeOK'
  BY Zenon, PassPolicyType DEF AdmitRefused
<1> QED
  BY Zenon, <1>1, <1>2, Frame DEF AdmitRefused, TypeOK

\* A clock read, failed or not, yields a natural sample.
LEMMA ReadClockType ==
    ASSUME TypeOK, NEW r \in Requests, ReadClock(r), UNCHANGED <<time, usage, restarts>>
    PROVE  now' \in [Requests -> Nat] /\ HostTypeOK'
<1>1. now \in [Requests -> Nat] /\ time \in Nat /\ clock_faults \in Nat
  BY DEF TypeOK, ThreadTypeOK, HostTypeOK
<1>2. \E t \in Nat : now' = [now EXCEPT ![r] = t]
  BY <1>1 DEF ReadClock
<1>3. now' \in [Requests -> Nat]
  BY <1>1, <1>2
<1>4. clock_faults' \in Nat
  BY <1>1 DEF ReadClock
<1> QED
  BY <1>3, <1>4 DEF TypeOK, HostTypeOK

\* Beginning a poll keeps the types.
LEMMA BeginPollType == ASSUME TypeOK, NEW r \in Requests, BeginPoll(r) PROVE TypeOK'
<1>1. \E next \in Pc : pc' = [pc EXCEPT ![r] = next]
  BY Zenon DEF BeginPoll, Pc, EntryPc, QueuedPc
<1>2. PcTypeOK'
  BY Zenon, <1>1, PcType
<1>3. now' \in [Requests -> Nat] /\ HostTypeOK'
  BY ReadClockType DEF BeginPoll
<1>4. ThreadTypeOK'
  BY <1>3 DEF BeginPoll, TypeOK, ThreadTypeOK
<1> QED
  BY <1>2, <1>3, <1>4, Frame DEF BeginPoll, TypeOK

\* Leaving the queue by expiry or failure keeps the types.
LEMMA LeaveQueueType ==
    ASSUME TypeOK, NEW r \in Requests, PollExpired(r) \/ FailQueue(r)
    PROVE  TypeOK'
<1>1. TelemetryTypeOK'
  BY CountType DEF PollExpired, FailQueue, Counters
<1>2. PcTypeOK' /\ EntryTypeOK' /\ ThreadTypeOK'
  BY ReturnType DEF PollExpired, FailQueue, Pc, ClosedPc
<1>3. QueueTypeOK' /\ PrincipalTypeOK'
  BY RemoveQueuedType, PrincipalType DEF PollExpired, FailQueue
<1> QED
  BY <1>1, <1>2, <1>3, Frame DEF PollExpired, FailQueue, TypeOK

\* Dispatch from the queue keeps the types.
LEMMA PollAdmittedType == ASSUME TypeOK, NEW r \in Requests, PollAdmitted(r) PROVE TypeOK'
<1>1. PICK g \in Groups : reserve_route(r, g, route_active)
  BY SelectedIsAvailable DEF PollAdmitted
<1>2. route_active \in [Groups -> Nat]
  BY DEF TypeOK, ActivityTypeOK
<1>3. ActivityTypeOK' /\ PcTypeOK' /\ attempts' \in [Requests -> Nat]
  BY <1>1, <1>2, ReserveRouteType
<1>4. TelemetryTypeOK'
  <2>1. CASE entry[r].was_admitted
    BY <2>1, Frame DEF PollAdmitted
  <2>2. CASE ~entry[r].was_admitted
    BY <2>2, CountType DEF PollAdmitted, Counters
  <2> QED
    BY <2>1, <2>2
<1>5. QueueTypeOK'
  BY RemoveQueuedType DEF PollAdmitted
<1>6. entry[r] \in Entry /\ now[r] \in Nat
  BY DEF TypeOK, EntryTypeOK, ThreadTypeOK
<1>7. Waited(r) \in Nat
  <2>1. entry[r].queued_milliseconds \in Nat /\ entry[r].enqueued_at \in Nat
    BY <1>6 DEF Entry
  <2>2. Minus(now[r], entry[r].enqueued_at) \in Nat
    BY Zenon, <1>6, <2>1, MinusType
  <2> QED
    BY <2>1, <2>2 DEF Waited
<1>8. [entry[r] EXCEPT !.queued_milliseconds = Waited(r), !.enqueued_at = 0] \in Entry
  BY Zenon, <1>6, <1>7 DEF Entry
<1>9. EntryTypeOK'
  <2> DEFINE e == [entry[r] EXCEPT !.queued_milliseconds = Waited(r), !.enqueued_at = 0]
  <2>1. entry' = [entry EXCEPT ![r] = e]
    BY DEF PollAdmitted
  <2> HIDE DEF e
  <2> QED
    BY <1>8, <2>1 DEF TypeOK, EntryTypeOK, e
<1>10. ThreadTypeOK'
  BY <1>3 DEF PollAdmitted, TypeOK, ThreadTypeOK
<1> QED
  BY <1>3, <1>4, <1>5, <1>9, <1>10, Frame DEF PollAdmitted, TypeOK

\* A cycle that waits, fails or abandons the ticket keeps the types.
LEMMA PollWaitingType ==
    ASSUME TypeOK, NEW r \in Requests, PollWaiting(r) \/ PollError(r) \/ AbandonQueue(r)
    PROVE  TypeOK'
<1>1. \E next \in Pc : pc' = [pc EXCEPT ![r] = next]
  BY DEF PollWaiting, PollError, AbandonQueue, Pc, EntryPc, QueuedPc
<1>2. PcTypeOK'
  BY Zenon, <1>1, PcType
<1>3. CASE PollWaiting(r)
  <2>1. polls' \in [Requests -> Nat]
    BY <1>3 DEF PollWaiting, TypeOK, ThreadTypeOK
  <2>2. ThreadTypeOK'
    BY <1>3, <2>1 DEF PollWaiting, TypeOK, ThreadTypeOK
  <2> QED
    BY <1>2, <1>3, <2>2, Frame DEF PollWaiting, TypeOK
<1>4. CASE PollError(r)
  BY <1>2, <1>4, Frame DEF PollError, TypeOK
<1>5. CASE AbandonQueue(r)
  <2>1. HostTypeOK'
    BY <1>5 DEF AbandonQueue, TypeOK, HostTypeOK
  <2> QED
    BY <1>2, <1>5, <2>1, Frame DEF AbandonQueue, TypeOK
<1> QED
  BY <1>3, <1>4, <1>5
=============================================================================
