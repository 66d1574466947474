-------------------------- MODULE GatewayCapacity --------------------------
(***************************************************************************)
(* Route capacity and key concurrency are exact: every counter that admits *)
(* requests equals the requests that own what it counts.                   *)
(***************************************************************************)
EXTENDS GatewayProofs

(* Route capacity *)

\* One more element counts one more.
LEMMA CountAdd ==
    ASSUME NEW S, IsFiniteSet(S), NEW x, x \notin S
    PROVE  /\ IsFiniteSet(S \cup {x})
           /\ Cardinality(S) \in Nat
           /\ Cardinality(S \cup {x}) = Cardinality(S) + 1
BY FS_AddElement, FS_CardinalityType

\* One element fewer counts one fewer.
LEMMA CountRemove ==
    ASSUME NEW S, IsFiniteSet(S), NEW x \in S
    PROVE  /\ Cardinality(S) \in Nat \ {0}
           /\ Cardinality(S \ {x}) = Cardinality(S) - 1
<1>1. /\ IsFiniteSet(S \ {x})
      /\ Cardinality(S \ {x}) = Cardinality(S) - 1
  BY FS_RemoveElement
<1>2. Cardinality(S) \in Nat /\ Cardinality(S \ {x}) \in Nat
  BY <1>1, FS_CardinalityType
<1> QED
  BY <1>1, <1>2

\* The owners of a route are finitely many.
LEMMA ActiveOnFinite == \A g : IsFiniteSet(ActiveOn(g))
<1>1. \A g : ActiveOn(g) \subseteq Requests
  BY DEF ActiveOn
<1> QED
  BY <1>1, SetsAssumption, FS_Subset

\* Reserving a free slot keeps every counter exact and within its capacity.
LEMMA ReserveCapacity ==
    ASSUME Sound, RouteCapacityExact, NEW r \in Requests, active_requests[r] = NoGroup,
           NEW g \in Groups, route_active[g] < Route[g].max_active,
           reserve_route(r, g, route_active)
    PROVE  RouteCapacityExact'
<1>1. /\ active_requests \in [Requests -> Groups \cup {NoGroup}]
      /\ route_active \in [Groups -> Nat]
      /\ NoGroup \notin Groups /\ Route[g].max_active \in Nat
  BY SetsAssumption, RouteAssumption DEF Sound, TypeOK, ActivityTypeOK
<1>2. /\ active_requests' = [active_requests EXCEPT ![r] = g]
      /\ route_active' = [route_active EXCEPT ![g] = @ + 1]
  BY DEF reserve_route
<1> SUFFICES ASSUME NEW h \in Groups
             PROVE  /\ route_active'[h] = Cardinality(ActiveOn(h)')
                    /\ route_active'[h] <= Route[h].max_active
  BY DEF RouteCapacityExact
<1>3. route_active[h] = Cardinality(ActiveOn(h)) /\ route_active[h] <= Route[h].max_active
  BY DEF RouteCapacityExact
<1>4. CASE h = g
  <2>1. r \notin ActiveOn(g) /\ ActiveOn(g)' = ActiveOn(g) \cup {r}
    BY <1>1, <1>2 DEF ActiveOn
  <2>2. Cardinality(ActiveOn(g) \cup {r}) = Cardinality(ActiveOn(g)) + 1
    BY <2>1, ActiveOnFinite, CountAdd
  <2> QED
    BY <1>1, <1>2, <1>3, <1>4, <2>1, <2>2
<1>5. CASE h # g
  <2>1. ActiveOn(h)' = ActiveOn(h)
    BY <1>1, <1>2, <1>5 DEF ActiveOn
  <2> QED
    BY <1>1, <1>2, <1>3, <1>5, <2>1
<1> QED
  BY <1>4, <1>5

\* The activity map without r's reservation counts the other owners.
LEMMA ReleasedExact ==
    ASSUME Sound, RouteCapacityExact, NEW r \in Requests, active_requests[r] \in Groups
    PROVE  \A h \in Groups : /\ Released(r)[h] = Cardinality(ActiveOn(h) \ {r})
                             /\ Released(r)[h] <= Route[h].max_active
<1>1. route_active \in [Groups -> Nat] /\ \A h \in Groups : Route[h].max_active \in Nat
  BY RouteAssumption DEF Sound, TypeOK, ActivityTypeOK
<1> SUFFICES ASSUME NEW h \in Groups
             PROVE  /\ Released(r)[h] = Cardinality(ActiveOn(h) \ {r})
                    /\ Released(r)[h] <= Route[h].max_active
  OBVIOUS
<1>2. route_active[h] = Cardinality(ActiveOn(h)) /\ route_active[h] <= Route[h].max_active
  BY DEF RouteCapacityExact
<1>3. CASE h = active_requests[r]
  <2>1. Released(r)[h] = Minus(route_active[h], 1)
    BY <1>1, <1>3 DEF Released
  <2>2. r \in ActiveOn(h)
    BY <1>3 DEF ActiveOn
  <2>3. /\ Cardinality(ActiveOn(h)) \in Nat \ {0}
        /\ Cardinality(ActiveOn(h) \ {r}) = Cardinality(ActiveOn(h)) - 1
    BY <2>2, ActiveOnFinite, CountRemove
  <2> QED
    BY <1>1, <1>2, <2>1, <2>3 DEF Minus
<1>4. CASE h # active_requests[r]
  <2>1. Released(r)[h] = route_active[h]
    BY <1>1, <1>4 DEF Released
  <2>2. ActiveOn(h) \ {r} = ActiveOn(h)
    BY <1>4 DEF ActiveOn
  <2> QED
    BY <1>2, <2>1, <2>2
<1> QED
  BY <1>3, <1>4

\* Releasing a reservation keeps every counter exact.
LEMMA ReleaseCapacity ==
    ASSUME Sound, RouteCapacityExact, NEW r \in Requests, active_requests[r] \in Groups,
           release_reservation(r)
    PROVE  RouteCapacityExact'
<1>1. /\ active_requests \in [Requests -> Groups \cup {NoGroup}] /\ NoGroup \notin Groups
      /\ active_requests' = [active_requests EXCEPT ![r] = NoGroup]
      /\ route_active' = Released(r)
  BY SetsAssumption DEF Sound, TypeOK, ActivityTypeOK, release_reservation
<1>2. \A h \in Groups : ActiveOn(h)' = ActiveOn(h) \ {r}
  BY <1>1 DEF ActiveOn
<1> QED
  BY <1>1, <1>2, ReleasedExact DEF RouteCapacityExact

\* Moving a reservation keeps every counter exact, the old route's included when
\* the request comes back to it.
LEMMA MoveCapacity ==
    ASSUME Sound, RouteCapacityExact, NEW r \in Requests, active_requests[r] \in Groups,
           NEW g \in Groups, Released(r)[g] < Route[g].max_active,
           reserve_route(r, g, Released(r))
    PROVE  RouteCapacityExact'
<1>1. /\ active_requests \in [Requests -> Groups \cup {NoGroup}]
      /\ Route[g].max_active \in Nat
  BY RouteAssumption DEF Sound, TypeOK, ActivityTypeOK
<1>2. Released(r) \in [Groups -> Nat]
  BY ReleasedType DEF Sound
<1>3. /\ active_requests' = [active_requests EXCEPT ![r] = g]
      /\ route_active' = [Released(r) EXCEPT ![g] = @ + 1]
  BY DEF reserve_route
<1> SUFFICES ASSUME NEW h \in Groups
             PROVE  /\ route_active'[h] = Cardinality(ActiveOn(h)')
                    /\ route_active'[h] <= Route[h].max_active
  BY DEF RouteCapacityExact
<1>4. /\ Released(r)[h] = Cardinality(ActiveOn(h) \ {r})
      /\ Released(r)[h] <= Route[h].max_active
  BY ReleasedExact
<1>5. CASE h = g
  <2>1. ActiveOn(g)' = (ActiveOn(g) \ {r}) \cup {r}
    BY <1>1, <1>3 DEF ActiveOn
  <2>2. IsFiniteSet(ActiveOn(g) \ {r})
    BY ActiveOnFinite, FS_RemoveElement
  <2>3. Cardinality((ActiveOn(g) \ {r}) \cup {r}) = Cardinality(ActiveOn(g) \ {r}) + 1
    BY <2>2, CountAdd
  <2> QED
    BY <1>1, <1>2, <1>3, <1>4, <1>5, <2>1, <2>3
<1>6. CASE h # g
  <2>1. ActiveOn(h)' = ActiveOn(h) \ {r}
    BY <1>1, <1>3, <1>6 DEF ActiveOn
  <2> QED
    BY <1>2, <1>3, <1>4, <1>6, <2>1
<1> QED
  BY <1>5, <1>6

\* Every effect keeps the activity counters exact and within capacity.
LEMMA CapacityNext ==
    ASSUME Sound, RouteCapacityExact, [Next]_vars
    PROVE  RouteCapacityExact'
<1>1. /\ OwnershipExact
      /\ active_requests \in [Requests -> Groups \cup {NoGroup}]
  BY DEF Sound, TypeOK, ActivityTypeOK
<1>2. ASSUME UNCHANGED <<active_requests, route_active>> PROVE RouteCapacityExact'
  BY <1>2 DEF RouteCapacityExact, ActiveOn
<1>3. ASSUME NEW r \in Requests, Keeps(r) \/ Enqueues(r) \/ Leaves(r)
      PROVE  RouteCapacityExact'
  BY <1>2, <1>3 DEF Keeps, Enqueues, Leaves
<1>4. ASSUME NEW r \in Requests, Admits(r) \/ Dispatches(r) PROVE RouteCapacityExact'
  <2>1. active_requests[r] = NoGroup
    BY <1>1, <1>4 DEF Admits, Dispatches, OwnershipExact, ActivePc, EntryPc, QueuedPc
  <2> QED
    BY <1>4, <2>1, ReserveCapacity DEF Admits, Dispatches
<1>5. ASSUME NEW r \in Requests, Closes(r) \/ Requeues(r) PROVE RouteCapacityExact'
  BY <1>5, ActiveGroup, ReleaseCapacity DEF Closes, Requeues
<1>6. ASSUME NEW r \in Requests, Moves(r) PROVE RouteCapacityExact'
  BY <1>6, ActiveGroup, MoveCapacity DEF Moves
<1>7. CASE Restart
  <2>1. \A g \in Groups : ActiveOn(g)' = {}
    BY <1>7, SetsAssumption DEF Restart, ActiveOn
  <2>2. \A g \in Groups : Route[g].max_active \in Nat
    BY RouteAssumption
  <2>3. \A g \in Groups : route_active'[g] = 0
    BY <1>7 DEF Restart
  <2>4. Cardinality({}) = 0
    BY FS_EmptySet
  <2> QED
    BY <2>1, <2>2, <2>3, <2>4 DEF RouteCapacityExact
<1>8. CASE Idles
  BY <1>2, <1>8 DEF Idles
<1> QED
  BY <1>3, <1>4, <1>5, <1>6, <1>7, <1>8, StepEffect DEF Effect

\* No route ever serves more requests than its capacity, and its counter never
\* drifts from its owners, for any number of threads, routes and retries.
THEOREM CapacityAlways == Spec => []RouteCapacityExact
<1>1. Init => RouteCapacityExact
  <2> SUFFICES ASSUME Init PROVE RouteCapacityExact
    OBVIOUS
  <2>1. \A g \in Groups : ActiveOn(g) = {}
    BY SetsAssumption DEF Init, ActiveOn
  <2>2. \A g \in Groups : Route[g].max_active \in Nat
    BY RouteAssumption
  <2>3. \A g \in Groups : route_active[g] = 0
    BY DEF Init
  <2>4. Cardinality({}) = 0
    BY FS_EmptySet
  <2> QED
    BY <2>1, <2>2, <2>3, <2>4 DEF RouteCapacityExact
<1>2. Sound /\ RouteCapacityExact /\ [Next]_vars => RouteCapacityExact'
  BY CapacityNext
<1> QED
  BY <1>1, <1>2, SoundAlways, PTL DEF Spec

-----------------------------------------------------------------------------
(* Key concurrency *)

\* By exact ownership, the holders of a key are the threads that are active or
\* queued.
Holding(k) == {r \in RequestsOf(k) : pc[r] \in ActivePc \cup EntryPc}

\* The holders of a key are finitely many and known from the threads alone.
LEMMA HoldersAreHolding ==
    ASSUME OwnershipExact, NEW k
    PROVE  Holders(k) = Holding(k) /\ IsFiniteSet(Holding(k))
<1>1. Holders(k) = Holding(k)
  BY DEF OwnershipExact, Holders, Holding, RequestsOf, EntryPc
<1>2. Holding(k) \subseteq Requests
  BY DEF Holding, RequestsOf
<1> QED
  BY <1>1, <1>2, SetsAssumption, FS_Subset

\* PrincipalExact in terms of the threads.
ConcurrencyExact ==
    \A k \in Keys : /\ principal_active[k] = Cardinality(Holding(k))
                    /\ Limited(Limits[k].concurrency) =>
                         principal_active[k] <= Limits[k].concurrency

\* A thread that keeps its class keeps every key's holders.
LEMMA HoldingKept ==
    ASSUME pc \in [Requests -> Pc], NEW r \in Requests, NEW next,
           pc' = [pc EXCEPT ![r] = next],
           pc[r] \in ActivePc \cup EntryPc <=> next \in ActivePc \cup EntryPc, NEW k
    PROVE  Holding(k)' = Holding(k)
BY DEF Holding, RequestsOf

\* A thread that comes to hold adds itself to its key only.
LEMMA HoldingAdds ==
    ASSUME pc \in [Requests -> Pc], NEW r \in Requests, NEW next,
           pc' = [pc EXCEPT ![r] = next],
           pc[r] \notin ActivePc \cup EntryPc, next \in ActivePc \cup EntryPc, NEW k
    PROVE  /\ KeyOf(r) = k => r \notin Holding(k) /\ Holding(k)' = Holding(k) \cup {r}
           /\ KeyOf(r) # k => Holding(k)' = Holding(k)
BY DEF Holding, RequestsOf

\* A thread that stops holding removes itself from its key only.
LEMMA HoldingRemoves ==
    ASSUME pc \in [Requests -> Pc], NEW r \in Requests, NEW next,
           pc' = [pc EXCEPT ![r] = next],
           pc[r] \in ActivePc \cup EntryPc, next \notin ActivePc \cup EntryPc, NEW k
    PROVE  /\ KeyOf(r) = k => r \in Holding(k) /\ Holding(k)' = Holding(k) \ {r}
           /\ KeyOf(r) # k => Holding(k)' = Holding(k)
BY DEF Holding, RequestsOf

\* A concurrency limit that is set is a natural number.
LEMMA ConcurrencyLimitType ==
    \A k \in Keys : Limited(Limits[k].concurrency) => Limits[k].concurrency \in Nat
BY LimitsAssumption DEF Limited

\* admit_principal charges the key exactly when the thread comes to hold.
LEMMA ChargeConcurrency ==
    ASSUME Sound, ConcurrencyExact, NEW r \in Requests, NEW next \in ActivePc \cup EntryPc,
           pc[r] \notin ActivePc \cup EntryPc, pc' = [pc EXCEPT ![r] = next],
           charge_principal(r), WithinConcurrency(r)
    PROVE  ConcurrencyExact'
<1>1. /\ pc \in [Requests -> Pc] /\ OwnershipExact
      /\ principal_active \in [Keys -> Nat]
  BY DEF Sound, TypeOK, PcTypeOK, PrincipalTypeOK
<1> SUFFICES ASSUME NEW k \in Keys
             PROVE  /\ principal_active'[k] = Cardinality(Holding(k)')
                    /\ Limited(Limits[k].concurrency) =>
                         principal_active'[k] <= Limits[k].concurrency
  BY DEF ConcurrencyExact
<1>2. /\ principal_active[k] = Cardinality(Holding(k))
      /\ Limited(Limits[k].concurrency) => principal_active[k] <= Limits[k].concurrency
  BY DEF ConcurrencyExact
<1>3. CASE KeyOf(r) = k
  <2>1. principal_active'[k] = principal_active[k] + 1
    BY <1>3 DEF charge_principal
  <2>2. r \notin Holding(k) /\ Holding(k)' = Holding(k) \cup {r}
    BY Zenon, <1>1, <1>3, HoldingAdds
  <2>3. Cardinality(Holding(k) \cup {r}) = Cardinality(Holding(k)) + 1
    BY <1>1, <2>2, HoldersAreHolding, CountAdd
  <2>4. Limited(Limits[k].concurrency) => principal_active[k] < Limits[k].concurrency
    BY <1>3, SetsAssumption DEF WithinConcurrency
  <2>5. Limited(Limits[k].concurrency) => principal_active'[k] <= Limits[k].concurrency
    BY <1>1, <2>1, <2>4, ConcurrencyLimitType
  <2> QED
    BY <1>2, <2>1, <2>2, <2>3, <2>5
<1>4. CASE KeyOf(r) # k
  <2>1. principal_active'[k] = principal_active[k]
    BY <1>4 DEF charge_principal
  <2>2. Holding(k)' = Holding(k)
    BY Zenon, <1>1, <1>4, HoldingAdds
  <2> QED
    BY <1>2, <2>1, <2>2
<1> QED
  BY <1>3, <1>4

\* release_principal returns the unit exactly when the thread stops holding; its
\* saturation never hides a second release.
LEMMA ReleaseConcurrency ==
    ASSUME Sound, ConcurrencyExact, NEW r \in Requests, NEW next \in ClosedPc,
           pc[r] \in ActivePc \cup EntryPc, pc' = [pc EXCEPT ![r] = next],
           release_principal(r)
    PROVE  ConcurrencyExact'
<1>1. /\ pc \in [Requests -> Pc] /\ OwnershipExact
      /\ principal_active \in [Keys -> Nat]
      /\ next \notin ActivePc \cup EntryPc
  BY DEF Sound, TypeOK, PcTypeOK, PrincipalTypeOK, ClosedPc, ActivePc, EntryPc, QueuedPc
<1> SUFFICES ASSUME NEW k \in Keys
             PROVE  /\ principal_active'[k] = Cardinality(Holding(k)')
                    /\ Limited(Limits[k].concurrency) =>
                         principal_active'[k] <= Limits[k].concurrency
  BY DEF ConcurrencyExact
<1>2. /\ principal_active[k] = Cardinality(Holding(k))
      /\ Limited(Limits[k].concurrency) => principal_active[k] <= Limits[k].concurrency
  BY DEF ConcurrencyExact
<1>3. CASE KeyOf(r) = k
  <2>1. principal_active'[k] = Minus(principal_active[k], 1)
    BY <1>3 DEF release_principal
  <2>2. r \in Holding(k) /\ Holding(k)' = Holding(k) \ {r}
    BY Zenon, <1>1, <1>3, HoldingRemoves
  <2>3. /\ Cardinality(Holding(k)) \in Nat \ {0}
        /\ Cardinality(Holding(k) \ {r}) = Cardinality(Holding(k)) - 1
    BY <1>1, <2>2, HoldersAreHolding, CountRemove
  <2>4. principal_active'[k] = principal_active[k] - 1
    BY <1>2, <2>1, <2>3 DEF Minus
  <2>5. Limited(Limits[k].concurrency) => principal_active'[k] <= Limits[k].concurrency
    BY <1>1, <1>2, <2>4, ConcurrencyLimitType
  <2> QED
    BY <1>2, <2>2, <2>3, <2>4, <2>5
<1>4. CASE KeyOf(r) # k
  <2>1. principal_active'[k] = principal_active[k]
    BY <1>4 DEF release_principal
  <2>2. Holding(k)' = Holding(k)
    BY Zenon, <1>1, <1>4, HoldingRemoves
  <2> QED
    BY <1>2, <2>1, <2>2
<1> QED
  BY <1>3, <1>4

\* Every effect keeps the concurrency counters exact and within their limits.
LEMMA ConcurrencyNext ==
    ASSUME Sound, ConcurrencyExact, [Next]_vars
    PROVE  ConcurrencyExact'
<1>1. pc \in [Requests -> Pc]
  BY DEF Sound, TypeOK, PcTypeOK
<1>2. ASSUME NEW r \in Requests, NEW next, pc' = [pc EXCEPT ![r] = next],
             pc[r] \in ActivePc \cup EntryPc <=> next \in ActivePc \cup EntryPc,
             UNCHANGED principal_vars
      PROVE  ConcurrencyExact'
  <2>1. \A k \in Keys : Holding(k)' = Holding(k)
    BY Zenon, <1>1, <1>2, HoldingKept
  <2> QED
    BY <1>2, <2>1 DEF ConcurrencyExact, principal_vars
<1>3. ASSUME NEW r \in Requests, Keeps(r) PROVE ConcurrencyExact'
  BY Zenon, <1>2, <1>3 DEF Keeps, SameClass
<1>4. ASSUME NEW r \in Requests, Dispatches(r) \/ Moves(r) PROVE ConcurrencyExact'
  BY <1>2, <1>4 DEF Dispatches, Moves, reserve_route, ActivePc
<1>5. ASSUME NEW r \in Requests, Requeues(r) PROVE ConcurrencyExact'
  BY Zenon, <1>2, <1>5 DEF Requeues, push_back, EntryPc, QueuedPc
<1>6. ASSUME NEW r \in Requests, Admits(r) PROVE ConcurrencyExact'
  <2>1. pc' = [pc EXCEPT ![r] = "forwarding"] /\ "forwarding" \in ActivePc
    BY <1>6 DEF Admits, reserve_route, ActivePc
  <2> QED
    BY Zenon, <1>6, <2>1, ChargeConcurrency DEF Admits
<1>7. ASSUME NEW r \in Requests, Enqueues(r) PROVE ConcurrencyExact'
  <2>1. pc' = [pc EXCEPT ![r] = "waiting"] /\ "waiting" \in EntryPc
    BY <1>7 DEF Enqueues, push_back, EntryPc, QueuedPc
  <2> QED
    BY Zenon, <1>7, <2>1, ChargeConcurrency DEF Enqueues
<1>8. ASSUME NEW r \in Requests, Leaves(r) \/ Closes(r) PROVE ConcurrencyExact'
  BY <1>8, ReleaseConcurrency DEF Leaves, Closes
<1>9. CASE Restart
  <2>1. \A k \in Keys : Holding(k)' = {}
    BY <1>9 DEF Restart, Holding, RequestsOf, ActivePc, EntryPc, QueuedPc
  <2>2. \A k \in Keys : principal_active'[k] = 0
    BY <1>9 DEF Restart
  <2>3. Cardinality({}) = 0
    BY FS_EmptySet
  <2>4. \A k \in Keys : Limited(Limits[k].concurrency) => 0 <= Limits[k].concurrency
    BY ConcurrencyLimitType
  <2> QED
    BY Zenon, <2>1, <2>2, <2>3, <2>4 DEF ConcurrencyExact
<1>10. CASE Idles
  BY <1>10 DEF Idles, ConcurrencyExact, Holding, RequestsOf, principal_vars
<1> QED
  BY <1>3, <1>4, <1>5, <1>6, <1>7, <1>8, <1>9, <1>10, StepEffect DEF Effect

\* A key's concurrency counter is the number of its live requests and never
\* exceeds its limit, for any number of keys, requests and interleavings.
THEOREM PrincipalAlways == Spec => []PrincipalExact
<1>1. Init => ConcurrencyExact
  <2> SUFFICES ASSUME Init PROVE ConcurrencyExact
    OBVIOUS
  <2>1. \A k \in Keys : Holding(k) = {}
    BY DEF Init, Holding, RequestsOf, ActivePc, EntryPc, QueuedPc
  <2>2. \A k \in Keys : principal_active[k] = 0
    BY DEF Init
  <2>3. Cardinality({}) = 0
    BY FS_EmptySet
  <2>4. \A k \in Keys : Limited(Limits[k].concurrency) => 0 <= Limits[k].concurrency
    BY ConcurrencyLimitType
  <2> QED
    BY <2>1, <2>2, <2>3, <2>4 DEF ConcurrencyExact
<1>2. Sound /\ ConcurrencyExact /\ [Next]_vars => ConcurrencyExact'
  BY ConcurrencyNext
<1>3. Sound /\ ConcurrencyExact => PrincipalExact
  BY HoldersAreHolding DEF Sound, ConcurrencyExact, PrincipalExact
<1> QED
  BY <1>1, <1>2, <1>3, SoundAlways, PTL DEF Spec
=============================================================================
