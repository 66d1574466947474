----------------------------- MODULE MCGateway -----------------------------
(***************************************************************************)
(* Small instances of Gateway.  Every instance bounds the clock, the clock *)
(* faults and the restarts in its configuration.                           *)
(***************************************************************************)
EXTENDS Gateway, TLC

CONSTANTS r1, r2, r3, k1, g1, g2, p1, p2

Public(key, queue, prefix) ==
    [model |-> "m", key |-> key, context |-> 1, output |-> 1,
     max_queue |-> queue, prefix |-> prefix]

Slot(active) == [model |-> "m", max_context |-> 4, max_active |-> active]

\* Three requests of one key and one model share one slot, across a restart of the
\* daemon; r3 may not wait.
QueueRequest == (r1 :> Public(k1, 1, NoPrefix)) @@ (r2 :> Public(k1, 1, NoPrefix)) @@
                (r3 :> Public(k1, 0, NoPrefix))
QueueLimits == k1 :> [context |-> NoLimit, requests |-> NoLimit, concurrency |-> 2, tokens |-> 4]
QueueRoute == g1 :> Slot(1)

\* Three requests of one key and two routes to retry on.  A snapshot may show one
\* route only, so that two requests can be queued behind the third.
RetryRequest == [r \in {r1, r2, r3} |-> Public(k1, 1, NoPrefix)]
RetryLimits == k1 :> [context |-> 1, requests |-> NoLimit, concurrency |-> 3, tokens |-> 6]
RetryRoute == (g1 :> Slot(1)) @@ (g2 :> Slot(1))

\* A child gateway: three relayed requests, without a principal, that may wait for
\* one slot; two carry prefixes.  A waiting thread whose clock fails leaves its
\* entry behind at the head of the queue.
Relayed(prefix) ==
    [model |-> "m", key |-> NoKey, context |-> 1, output |-> 1, max_queue |-> 1,
     prefix |-> prefix]
RelayRequest == (r1 :> Relayed(p1)) @@ (r2 :> Relayed(p2)) @@ (r3 :> Relayed(NoPrefix))
RelayLimits == [k \in {} |-> {}]

\* Requests that the instance does not tell apart.
QueueSymmetry == Permutations({r1, r2})
RetrySymmetry == Permutations({r1, r2, r3})
=============================================================================
