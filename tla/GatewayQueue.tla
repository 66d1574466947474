---------------------------- MODULE GatewayQueue ----------------------------
(***************************************************************************)
(* The FIFO index and the queue entries agree, and no dispatch reaches a   *)
(* route that is cooling down.                                             *)
(***************************************************************************)
EXTENDS GatewayCapacity

(* The queue and its index *)

\* The index names no request twice.
NamesOnce == \A i, j \in 1..Len(queue_order) : queue_order[i] = queue_order[j] => i = j

QueueExact == QueueIndexExact /\ NamesOnce

\* The requests an index names are the values at its positions.
LEMMA RangeMembers == \A s : Range(s) = {s[i] : i \in DOMAIN s}
BY DEF Range

\* push_back of a request that has no entry keeps the index exact.
LEMMA PushBackExact ==
    ASSUME TypeOK, QueueExact, NEW r \in Requests, r \notin queued,
           Cardinality(queued) < MaxQueued, push_back(r)
    PROVE  QueueExact'
<1> DEFINE n == Len(queue_order)
           t == Append(queue_order, r)
<1>1. /\ queue_order \in Seq(Requests) /\ n \in Nat /\ DOMAIN queue_order = 1..n
      /\ queued \subseteq Requests /\ MaxQueued \in Nat
  BY BoundsAssumption DEF TypeOK, QueueTypeOK
<1>2. queue_order' = t /\ queued' = queued \cup {r}
  BY DEF push_back
<1>3. /\ Len(t) = n + 1 /\ DOMAIN t = 1..(n + 1)
      /\ \A i \in 1..n : t[i] = queue_order[i]
      /\ t[n + 1] = r
  BY <1>1
<1>4. /\ \A i \in 1..n : queue_order[i] \in queued
      /\ \A x \in queued : \E i \in 1..n : queue_order[i] = x
      /\ n = Cardinality(queued)
  BY <1>1, RangeMembers DEF QueueExact, QueueIndexExact
<1>5. IsFiniteSet(queued)
  BY <1>1, SetsAssumption, FS_Subset
<1>6. Cardinality(queued \cup {r}) = n + 1
  BY <1>4, <1>5, CountAdd
<1> HIDE DEF n, t
<1>7. {t[i] : i \in 1..(n + 1)} = queued \cup {r}
  <2>1. ASSUME NEW i \in 1..(n + 1) PROVE t[i] \in queued \cup {r}
    <3>1. CASE i = n + 1
      BY <1>3, <3>1
    <3>2. CASE i # n + 1
      <4>1. i \in 1..n
        BY <1>1, <3>2
      <4> QED
        BY <1>3, <1>4, <4>1
    <3> QED
      BY <3>1, <3>2
  <2>2. ASSUME NEW x \in queued \cup {r} PROVE \E i \in 1..(n + 1) : t[i] = x
    <3>1. CASE x = r
      BY <1>1, <1>3, <3>1
    <3>2. CASE x \in queued
      <4>1. PICK i \in 1..n : queue_order[i] = x
        BY <1>4, <3>2
      <4>2. i \in 1..(n + 1) /\ t[i] = x
        BY <1>1, <1>3, <4>1
      <4> QED
        BY <4>2
    <3> QED
      BY <3>1, <3>2
  <2> QED
    BY <2>1, <2>2
<1>8. \A i, j \in 1..(n + 1) : t[i] = t[j] => i = j
  <2> SUFFICES ASSUME NEW i \in 1..(n + 1), NEW j \in 1..(n + 1), t[i] = t[j] PROVE i = j
    OBVIOUS
  <2>1. i \in 1..n \/ i = n + 1
    BY <1>1
  <2>2. j \in 1..n \/ j = n + 1
    BY <1>1
  <2>3. \A m \in 1..n : t[m] # r
    BY <1>3, <1>4
  <2>4. i \in 1..n /\ j \in 1..n => i = j
    BY <1>3 DEF QueueExact, NamesOnce, n
  <2> QED
    BY <1>3, <2>1, <2>2, <2>3, <2>4
<1>9. Range(queue_order') = queued' /\ Len(queue_order') = n + 1
  BY <1>2, <1>3, <1>7, RangeMembers
<1>10. NamesOnce'
  BY <1>2, <1>8, <1>9 DEF NamesOnce
<1>11. Cardinality(queued') = n + 1 /\ n + 1 <= MaxQueued
  BY <1>1, <1>2, <1>4, <1>6
<1> QED
  BY <1>9, <1>10, <1>11 DEF QueueExact, QueueIndexExact

\* remove_queued_request of a request that has an entry keeps the index exact.
LEMMA RemoveExact ==
    ASSUME TypeOK, QueueExact, NEW r \in queued, remove_queued_request(r)
    PROVE  QueueExact'
<1> DEFINE n == Len(queue_order)
           p == CHOOSE i \in DOMAIN queue_order : queue_order[i] = r
           f == [i \in 1..(n - 1) |-> IF i < p THEN queue_order[i] ELSE queue_order[i + 1]]
<1>1. /\ queue_order \in Seq(Requests) /\ n \in Nat /\ DOMAIN queue_order = 1..n
      /\ queued \subseteq Requests /\ MaxQueued \in Nat
  BY BoundsAssumption DEF TypeOK, QueueTypeOK
<1>2. queue_order' = f /\ queued' = queued \ {r}
  BY DEF remove_queued_request
<1>3. /\ \A i \in 1..n : queue_order[i] \in queued
      /\ \A x \in queued : \E i \in 1..n : queue_order[i] = x
      /\ n = Cardinality(queued) /\ n <= MaxQueued
  BY <1>1, RangeMembers DEF QueueExact, QueueIndexExact
<1>4. p \in 1..n /\ queue_order[p] = r
  <2>1. \E i \in DOMAIN queue_order : queue_order[i] = r
    BY <1>1, <1>3
  <2>2. p \in DOMAIN queue_order /\ queue_order[p] = r
    BY <2>1
  <2> QED
    BY <1>1, <2>2
<1>5. IsFiniteSet(queued)
  BY <1>1, SetsAssumption, FS_Subset
<1>6. Cardinality(queued \ {r}) = n - 1
  BY <1>3, <1>5, CountRemove
<1> HIDE DEF p
<1>7. n - 1 \in Nat /\ Len(f) = n - 1 /\ DOMAIN f = 1..(n - 1)
  <2>1. n - 1 \in Nat
    BY <1>1, <1>4
  <2> QED
    BY <2>1
<1>8. \A i \in 1..(n - 1) : \E m \in 1..n :
          /\ f[i] = queue_order[m] /\ m # p
          /\ i < p => m = i
          /\ ~(i < p) => m = i + 1
  <2> SUFFICES ASSUME NEW i \in 1..(n - 1)
               PROVE  \E m \in 1..n : /\ f[i] = queue_order[m] /\ m # p
                                      /\ i < p => m = i
                                      /\ ~(i < p) => m = i + 1
    OBVIOUS
  <2>1. i \in 1..n /\ i + 1 \in 1..n
    BY <1>1
  <2>2. CASE i < p
    BY <1>4, <2>1, <2>2
  <2>3. CASE ~(i < p)
    BY <1>4, <2>1, <2>3
  <2> QED
    BY <2>2, <2>3
<1>9. \A i, j \in 1..n : queue_order[i] = queue_order[j] => i = j
  BY DEF QueueExact, NamesOnce
<1>10. {f[i] : i \in 1..(n - 1)} = queued \ {r}
  <2>1. ASSUME NEW i \in 1..(n - 1) PROVE f[i] \in queued \ {r}
    <3>1. PICK m \in 1..n : f[i] = queue_order[m] /\ m # p
      BY <1>8
    <3> QED
      BY <1>3, <1>4, <1>9, <3>1
  <2>2. ASSUME NEW x \in queued \ {r} PROVE \E i \in 1..(n - 1) : f[i] = x
    <3>1. PICK m \in 1..n : queue_order[m] = x
      BY <1>3
    <3>2. m # p
      BY <1>4, <3>1
    <3>3. CASE m < p
      <4>1. m \in 1..(n - 1) /\ f[m] = x
        BY <1>1, <1>4, <3>1, <3>3
      <4> QED
        BY <4>1
    <3>4. CASE m > p
      <4>1. m - 1 \in 1..(n - 1) /\ ~(m - 1 < p) /\ (m - 1) + 1 = m
        BY <1>1, <1>4, <3>4
      <4>2. f[m - 1] = x
        BY <3>1, <4>1
      <4> QED
        BY <4>1, <4>2
    <3> QED
      BY <1>4, <3>2, <3>3, <3>4
  <2> QED
    BY <2>1, <2>2
<1>11. \A i, j \in 1..(n - 1) : f[i] = f[j] => i = j
  <2> SUFFICES ASSUME NEW i \in 1..(n - 1), NEW j \in 1..(n - 1), f[i] = f[j] PROVE i = j
    OBVIOUS
  <2> HIDE DEF f
  <2>1. PICK a \in 1..n : /\ f[i] = queue_order[a] /\ a # p
                          /\ i < p => a = i
                          /\ ~(i < p) => a = i + 1
    BY <1>8
  <2>2. PICK b \in 1..n : /\ f[j] = queue_order[b] /\ b # p
                          /\ j < p => b = j
                          /\ ~(j < p) => b = j + 1
    BY <1>8
  <2>3. a = b
    BY Zenon, <1>9, <2>1, <2>2
  <2> QED
    BY <1>1, <1>4, <2>1, <2>2, <2>3
<1> HIDE DEF n, f
<1>12. Range(queue_order') = queued' /\ Len(queue_order') = n - 1
  BY <1>2, <1>7, <1>10, RangeMembers
<1>13. NamesOnce'
  BY <1>2, <1>11, <1>12 DEF NamesOnce
<1>14. Cardinality(queued') = n - 1 /\ n - 1 <= MaxQueued
  BY <1>1, <1>2, <1>3, <1>6
<1> QED
  BY <1>12, <1>13, <1>14 DEF QueueExact, QueueIndexExact

\* Every effect keeps the queue and its index together.
LEMMA QueueNext ==
    ASSUME Sound, QueueExact, [Next]_vars
    PROVE  QueueExact'
<1>1. TypeOK /\ OwnershipExact
  BY DEF Sound
<1>2. ASSUME UNCHANGED <<queue_order, queued>> PROVE QueueExact'
  BY <1>2 DEF QueueExact, QueueIndexExact, NamesOnce
<1>3. ASSUME NEW r \in Requests, Keeps(r) \/ Admits(r) \/ Closes(r) \/ Moves(r)
      PROVE  QueueExact'
  BY Zenon, <1>2, <1>3 DEF Keeps, Admits, Closes, Moves
<1>4. ASSUME NEW r \in Requests, Enqueues(r) \/ Requeues(r) PROVE QueueExact'
  <2>1. r \notin queued
    BY Zenon, <1>1, <1>4 DEF Enqueues, Requeues, OwnershipExact, ActivePc, EntryPc, QueuedPc
  <2> QED
    BY <1>1, <1>4, <2>1, PushBackExact DEF Enqueues, Requeues
<1>5. ASSUME NEW r \in Requests, Leaves(r) \/ Dispatches(r) PROVE QueueExact'
  <2>1. r \in queued
    BY <1>1, <1>5 DEF Leaves, Dispatches, OwnershipExact, EntryPc
  <2> QED
    BY <1>1, <1>5, <2>1, RemoveExact DEF Leaves, Dispatches
<1>6. ASSUME queue_order' = <<>>, queued' = {} PROVE QueueExact'
  <2>1. Range(queue_order') = queued' /\ Len(queue_order') = 0
    BY <1>6, RangeMembers
  <2>2. Cardinality(queued') = 0 /\ 0 <= MaxQueued
    BY <1>6, FS_EmptySet, BoundsAssumption
  <2> QED
    BY <2>1, <2>2 DEF QueueExact, QueueIndexExact, NamesOnce
<1>7. CASE Restart
  BY <1>6, <1>7 DEF Restart
<1>8. CASE Idles
  BY <1>2, <1>8 DEF Idles
<1> QED
  BY <1>3, <1>4, <1>5, <1>7, <1>8, StepEffect DEF Effect

\* For any number of threads, requests and any queue bound, the FIFO index and
\* the queue entries name the same requests, each once, within MAX_QUEUED_REQUESTS.
THEOREM QueueAlways == Spec => []QueueIndexExact
<1>1. Init => QueueExact
  <2> SUFFICES ASSUME Init PROVE QueueExact
    OBVIOUS
  <2>1. Range(queue_order) = queued /\ Len(queue_order) = 0
    BY RangeMembers DEF Init
  <2>2. Cardinality(queued) = 0 /\ 0 <= MaxQueued
    BY FS_EmptySet, BoundsAssumption DEF Init
  <2> QED
    BY <2>1, <2>2 DEF QueueExact, QueueIndexExact, NamesOnce
<1>2. Sound /\ QueueExact /\ [Next]_vars => QueueExact'
  BY QueueNext
<1>3. QueueExact => QueueIndexExact
  BY DEF QueueExact
<1> QED
  BY <1>1, <1>2, <1>3, SoundAlways, PTL DEF Spec

-----------------------------------------------------------------------------
(* Cooldown *)

\* A clock sample is not from the future.
SampledBefore == \A r \in Requests : now[r] <= time

\* What a thread's step does to its clock sample.
Samples(r) ==
    /\ time' = time
    /\ \/ now' = now
       \/ now' = [now EXCEPT ![r] = time]
       \/ now' = [now EXCEPT ![r] = 0]

\* A thread samples the current instant, or drops its sample.
LEMMA ThreadSamples == ASSUME NEW r \in Requests, Receive(r) \/ Thread(r) PROVE Samples(r)
<1> USE DEF Samples, host_vars, thread_vars
<1>1. CASE Receive(r)
  BY <1>1 DEF Receive
<1>2. CASE Admission(r)
  BY <1>2 DEF Admission, BeginAdmit, RejectAdmit, RecordInitialFailure, CheckLoaded, ReadRecent,
     RefuseRecent, RefusePolicy, AdmitSelected, AdmitQueued, AdmitRefused, Return
<1>3. CASE Queueing(r)
  BY <1>3 DEF Queueing, BeginPoll, PollExpired, PollAdmitted, PollWaiting, PollError,
     FailQueue, AbandonQueue, Return, ReadClock
<1>4. CASE Execution(r)
  BY <1>4 DEF Execution, AttemptSucceeds, AttemptFails, AttemptRetries, Outcome,
     CancelExecution, CompleteExecution, CompleteWithoutClock, RecordUsage, FailExecution,
     RetrySelected, RetryQueued, RetryFails, Return, ReadClock
<1> QED
  BY <1>1, <1>2, <1>3, <1>4 DEF Thread

\* Every sample stays in the past.
LEMMA SampleNext == ASSUME TypeOK, SampledBefore, [Next]_vars PROVE SampledBefore'
<1>1. now \in [Requests -> Nat] /\ time \in Nat
  BY DEF TypeOK, ThreadTypeOK, HostTypeOK
<1>2. ASSUME NEW r \in Requests, Receive(r) \/ Thread(r) PROVE SampledBefore'
  BY <1>1, <1>2, ThreadSamples DEF SampledBefore, Samples
<1>3. CASE Tick
  BY <1>1, <1>3 DEF Tick, SampledBefore, thread_vars
<1>4. CASE Restart
  BY <1>1, <1>4 DEF Restart, SampledBefore
<1>5. CASE UNCHANGED vars
  BY <1>5 DEF vars, host_vars, thread_vars, SampledBefore
<1> QED
  BY <1>2, <1>3, <1>4, <1>5 DEF Next

\* A thread's step that dispatches it reserves a route whose cooldown is over at
\* the thread's sample, the failure that the step itself records included.
LEMMA DispatchAvailable ==
    ASSUME TypeOK, NEW r \in Requests, Receive(r) \/ Thread(r), NEW q \in Requests,
           attempts'[q] > attempts[q]
    PROVE  /\ q = r /\ active_requests'[r] \in Groups
           /\ unavailable_until'[active_requests'[r]] <= now[r]
<1>1. /\ attempts \in [Requests -> Nat]
      /\ active_requests \in [Requests -> Groups \cup {NoGroup}]
  BY DEF TypeOK, ThreadTypeOK, ActivityTypeOK
<1>2. /\ attempts' # attempts
      /\ ~\E x, end : Return(x, end)
  <2>1. attempts' # attempts
    BY <1>1
  <2>2. ASSUME NEW x, NEW end, Return(x, end) PROVE FALSE
    BY <1>1, <2>2 DEF Return
  <2> QED
    BY <2>1, <2>2
<1>3. AdmitSelected(r) \/ PollAdmitted(r) \/ RetrySelected(r)
  <2> USE DEF thread_vars
  <2>1. CASE Receive(r)
    BY Zenon, <1>2, <2>1 DEF Receive
  <2>2. CASE Admission(r)
    BY Zenon, <1>2, <2>2 DEF Admission, BeginAdmit, RejectAdmit, RecordInitialFailure,
       CheckLoaded, ReadRecent, RefuseRecent, RefusePolicy, AdmitQueued, AdmitRefused
  <2>3. CASE Queueing(r)
    BY Zenon, <1>2, <2>3 DEF Queueing, BeginPoll, PollExpired, PollWaiting, PollError,
       FailQueue, AbandonQueue
  <2>4. CASE Execution(r)
    BY <1>2, <2>4 DEF Execution, AttemptSucceeds, AttemptFails, AttemptRetries, Outcome,
       CancelExecution, CompleteExecution, CompleteWithoutClock, RecordUsage, FailExecution,
       RetryQueued, RetryFails
  <2> QED
    BY Zenon, <2>1, <2>2, <2>3, <2>4 DEF Thread
<1>4. ASSUME NEW g \in Groups, NEW active, reserve_route(r, g, active)
      PROVE  q = r /\ active_requests'[r] = g
  <2>1. /\ attempts' = [attempts EXCEPT ![r] = @ + 1]
        /\ active_requests' = [active_requests EXCEPT ![r] = g]
    BY <1>4 DEF reserve_route
  <2> QED
    BY <1>1, <2>1
<1>5. CASE AdmitSelected(r) \/ PollAdmitted(r)
  <2>1. unavailable_until' = unavailable_until
    BY <1>5 DEF AdmitSelected, PollAdmitted, route_vars
  <2>2. PICK routes \in Snapshots(r) : \E warm \in Warm(r, routes) :
          \E g \in Selected(r, routes, route_active, unavailable_until, warm) :
            reserve_route(r, g, route_active)
    BY <1>5 DEF AdmitSelected, PollAdmitted
  <2>3. PICK warm \in Warm(r, routes) :
          \E g \in Selected(r, routes, route_active, unavailable_until, warm) :
            reserve_route(r, g, route_active)
    BY Zenon, <2>2
  <2>4. PICK g \in Selected(r, routes, route_active, unavailable_until, warm) :
          reserve_route(r, g, route_active)
    BY Zenon, <2>3
  <2>5. g \in Groups /\ unavailable_until[g] <= now[r]
    BY Zenon, <2>4, SelectedIsAvailable
  <2> QED
    BY Zenon, <1>4, <2>1, <2>4, <2>5
<1>6. CASE RetrySelected(r)
  <2> DEFINE until == CooledDown(active_requests[r], now[r])
  <2>1. unavailable_until' = until
    BY Zenon, <1>6 DEF RetrySelected, mark_route_failure
  <2>2. PICK routes \in Snapshots(r) : \E warm \in Warm(r, routes) :
          \E g \in Selected(r, routes, Released(r), until, warm) :
            reserve_route(r, g, Released(r))
    BY Zenon, <1>6 DEF RetrySelected
  <2> HIDE DEF until
  <2>3. PICK warm \in Warm(r, routes) : \E g \in Selected(r, routes, Released(r), until, warm) :
          reserve_route(r, g, Released(r))
    BY Zenon, <2>2
  <2>4. PICK g \in Selected(r, routes, Released(r), until, warm) :
          reserve_route(r, g, Released(r))
    BY Zenon, <2>3
  <2>5. g \in Groups /\ until[g] <= now[r]
    BY Zenon, <2>4, SelectedIsAvailable
  <2> QED
    BY Zenon, <1>4, <2>1, <2>4, <2>5
<1> QED
  BY Zenon, <1>3, <1>5, <1>6

\* For any routes, cooldowns and interleavings, no step dispatches a request to a
\* route that is cooling down; a retry never returns to the route that failed it.
THEOREM CooldownRespected == Spec => DispatchRespectsCooldown
<1> DEFINE A == \A r \in Requests :
          attempts'[r] > attempts[r] => unavailable_until'[active_requests'[r]] <= time
<1>1. Init => SampledBefore
  BY DEF Init, SampledBefore
<1>2. Sound /\ SampledBefore /\ [Next]_vars => SampledBefore'
  BY SampleNext DEF Sound
<1>3. Sound /\ SampledBefore /\ [Next]_vars => [A]_vars
  <2> SUFFICES ASSUME Sound, SampledBefore, Next, NEW q \in Requests, attempts'[q] > attempts[q]
               PROVE  unavailable_until'[active_requests'[q]] <= time
    OBVIOUS
  <2>1. TypeOK /\ attempts \in [Requests -> Nat] /\ time \in Nat /\ now \in [Requests -> Nat]
    BY DEF Sound, TypeOK, ThreadTypeOK, HostTypeOK
  <2>2. ASSUME NEW r \in Requests, Receive(r) \/ Thread(r)
        PROVE  unavailable_until'[active_requests'[q]] <= time
    <3>1. /\ q = r /\ active_requests'[r] \in Groups
          /\ unavailable_until'[active_requests'[r]] <= now[r]
      BY <2>1, <2>2, DispatchAvailable
    <3>2. unavailable_until' \in [Groups -> Nat]
      BY TypeNext DEF TypeOK, RouteTypeOK
    <3> QED
      BY <2>1, <3>1, <3>2 DEF SampledBefore
  <2>3. CASE Tick \/ Restart
    BY <2>1, <2>3 DEF Tick, Restart, thread_vars
  <2> QED
    BY <2>2, <2>3 DEF Next
<1>4. Spec => []SampledBefore
  BY <1>1, <1>2, SoundAlways, PTL DEF Spec
<1> HIDE DEF A
<1>5. Spec => [][A]_vars
  BY <1>3, <1>4, SoundAlways, PTL DEF Spec
<1> QED
  BY <1>5 DEF A, DispatchRespectsCooldown

=============================================================================
