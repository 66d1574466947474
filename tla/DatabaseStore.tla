--------------------------- MODULE DatabaseStore ---------------------------
(***************************************************************************)
(* What DatabaseManager promises: a map of revisioned records that changes *)
(* only by whole transactions.  A transaction names one idempotency key,   *)
(* is applied at most once under that key, and is applied only in a state  *)
(* in which the revision condition of each of its commands holds.          *)
(***************************************************************************)
EXTENDS Naturals

CONSTANTS
    Ids,       \* record identities, of any collection
    Keys,      \* idempotency keys
    Payloads,  \* encoded records
    None,      \* no stored result, and the payload of no record
    MaxRevision \* the largest revision a column holds (2^63 - 1)

ASSUME RevisionAssumption == MaxRevision \in Nat \ {0}

VARIABLES
    records,     \* li_database_records
    idempotency  \* li_database_idempotency

store_vars == <<records, idempotency>>

\* A record that does not exist has revision 0; stored revisions are positive.
Absent == [revision |-> 0, payload |-> None]

StoredRecord == {Absent} \cup [revision : 1..MaxRevision, payload : Payloads]

Condition == [policy : {"any", "missing"}, revision : {0}]
               \cup [policy : {"exact"}, revision : 1..MaxRevision]

Command == [op : {"save"}, payload : Payloads, expected : Condition]
             \cup [op : {"delete"}, payload : {None}, expected : Condition]

\* A transaction: one command for each of its targets.
Transactions == UNION {[targets -> Command] : targets \in (SUBSET Ids) \ {{}}}

\* Mutant: an exact condition accepts any later revision.
RevisionHolds_AtLeast(expected, revision) ==
    \/ expected.policy = "any"
    \/ expected.policy = "missing" /\ revision = 0
    \/ expected.policy = "exact" /\ revision >= expected.revision

\* require_revision.
RevisionHolds(expected, revision) ==
    \/ expected.policy = "any"
    \/ expected.policy = "missing" /\ revision = 0
    \/ expected.policy = "exact" /\ revision = expected.revision

\* Mutant: the successor of a revision is not checked.
CommandHolds_Unchecked(command, stored) ==
    /\ RevisionHolds(command.expected, stored.revision)
    /\ command.op = "delete" => stored.revision # 0

\* save_record accepts a revision that meets its condition and has a successor;
\* delete_record needs a record to delete.
CommandHolds(command, stored) ==
    /\ RevisionHolds(command.expected, stored.revision)
    /\ IF command.op = "save" THEN stored.revision < MaxRevision
                              ELSE stored.revision # 0

\* A deleted row leaves nothing behind: the next creation starts at 1 again.
CommandResult(command, stored) ==
    IF command.op = "delete" THEN Absent
    ELSE [revision |-> stored.revision + 1, payload |-> command.payload]

\* The commit that is returned for a target: a deletion reports the revision
\* after the deleted one.
CommitOf(command, stored) ==
    [mutation |-> IF command.op = "delete" THEN "deleted"
                  ELSE IF stored.revision = 0 THEN "created" ELSE "updated",
     revision |-> stored.revision + 1]

TransactionHolds(commands, state) ==
    \A i \in DOMAIN commands : CommandHolds(commands[i], state[i])

Commits(commands, state) ==
    [i \in DOMAIN commands |-> CommitOf(commands[i], state[i])]

\* The records after a transaction, in a state in which it holds.
After(commands, state) ==
    [i \in Ids |-> IF i \in DOMAIN commands THEN CommandResult(commands[i], state[i])
                                            ELSE state[i]]

\* li_database_idempotency rows: the digest of a transaction, taken as the
\* transaction itself, and its encoded commits.  The digest also binds the order of
\* the commands; targets are distinct and every caller builds its commands in one
\* fixed order, so the function from targets to commands determines it.
Row(commands, state) == [digest |-> commands, commits |-> Commits(commands, state)]

\* Mutant: the replay result replaces an existing row.
Apply_Upsert(key, commands) ==
    /\ TransactionHolds(commands, records)
    /\ records' = After(commands, records)
    /\ idempotency' = [idempotency EXCEPT ![key] = Row(commands, records)]

\* The immediate transaction of execute_command and execute_transaction: every
\* command, and the replay result under a key that has none.
Apply(key, commands) ==
    /\ idempotency[key] = None
    /\ TransactionHolds(commands, records)
    /\ records' = After(commands, records)
    /\ idempotency' = [idempotency EXCEPT ![key] = Row(commands, records)]

CommitLists ==
    UNION {[targets -> [mutation : {"created", "updated", "deleted"},
                        revision : 1..(MaxRevision + 1)]] : targets \in (SUBSET Ids) \ {{}}}
Rows == [digest : Transactions, commits : CommitLists]

ASSUME NoneAssumption == None \notin Payloads /\ None \notin Rows

StoreInit ==
    /\ records = [i \in Ids |-> Absent]
    /\ idempotency = [k \in Keys |-> None]

StoreNext ==
    \E key \in Keys, commands \in Transactions : Apply(key, commands)

StoreSpec == StoreInit /\ [][StoreNext]_store_vars
=============================================================================
