----------------------------- MODULE MCDatabase -----------------------------
(* Instances of Database for TLC: two records, the transactions the stores *)
(* of the node send (create, replace, replace two together, delete).       *)
EXTENDS Database, TLC

CONSTANTS r1, r2, k1, k2, k3, a, b, c1, c2, c3, m1, m2

Of(op, payload, policy) == [op |-> op, payload |-> payload, policy |-> policy]

\* Create a record; replace it; replace or create two records in one
\* transaction; delete what was read; an unconditional write.
AllTemplates ==
    { r1 :> Of("save", a, "missing"),
      r1 :> Of("save", b, "exact"),
      r1 :> Of("delete", None, "exact"),
      (r1 :> Of("save", b, "exact")) @@ (r2 :> Of("save", b, "any")) }

\* A pair of records, one created and one written unconditionally; a write of the
\* second one whose condition still holds when it comes twice.
PairTemplates ==
    { (r1 :> Of("save", a, "missing")) @@ (r2 :> Of("save", a, "any")),
      r2 :> Of("save", b, "any") }

\* Two callers of one process; a third of another process on the same file.
Shared == (c1 :> m1) @@ (c2 :> m1)
TwoProcesses == (c1 :> m1) @@ (c2 :> m1) @@ (c3 :> m2)

\* Keys are interchangeable; so are the callers of one process.
SharedSymmetry == Permutations(Keys) \cup Permutations(Clients)
=============================================================================
