------------------------------ MODULE Database ------------------------------
(***************************************************************************)
(* core/database: DatabaseManager and its writer thread.                   *)
(*                                                                         *)
(* Clients (the stores of the node's other managers) read committed state  *)
(* through short-lived connections and send each transaction through the   *)
(* bounded queue of the manager of their process.  The manager's one       *)
(* writer takes a message, looks its idempotency key up, and only then     *)
(* opens the immediate SQLite transaction that applies the commands and    *)
(* stores the replay result; it sends the post-commit events and answers.  *)
(* Several managers may have the same file open.  A process may stop       *)
(* between any two of these steps; its clients then do not know whether    *)
(* their transaction was applied, and may send it again.                   *)
(*                                                                         *)
(* A single command is a transaction of one target.  Timestamps, record    *)
(* versions and schema checks are left out.                                *)
(***************************************************************************)
EXTENDS DatabaseStore, Sequences, FiniteSets

CONSTANTS
    Managers,      \* processes that have the database open
    Clients,       \* callers
    ManagerOf,     \* the process of each caller
    Templates,     \* the shapes of transaction the callers send
    QueueCapacity  \* configuration.write_queue_capacity()

\* A template is a transaction whose exact revisions are still to be filled in.
Shape == [op : {"save"}, payload : Payloads, policy : {"any", "missing", "exact"}]
           \cup [op : {"delete"}, payload : {None}, policy : {"any", "missing", "exact"}]

ASSUME ManagerAssumption == ManagerOf \in [Clients -> Managers]
ASSUME CapacityAssumption == QueueCapacity \in Nat \ {0}
ASSUME TemplateAssumption ==
    Templates \subseteq UNION {[targets -> Shape] : targets \in (SUBSET Ids) \ {{}}}

VARIABLES
    queue,    \* the messages each writer has not taken
    writer,   \* what each writer is doing
    client,   \* what each caller is doing
    seen,     \* the revision each caller last read of each record
    log,      \* history: the committed transactions, in commit order
    events    \* the event stream of each manager since it was opened

vars == <<records, idempotency, queue, writer, client, seen, log, events>>

NoMessage == [client |-> None, key |-> None, commands |-> None]
NoAnswer == [kind |-> "none", commits |-> None]
Waiting == [phase |-> "recv", message |-> NoMessage, answer |-> NoAnswer]

Init ==
    /\ StoreInit
    /\ queue = [m \in Managers |-> <<>>]
    /\ writer = [m \in Managers |-> Waiting]
    /\ client = [c \in Clients |-> [phase |-> "idle", message |-> NoMessage]]
    /\ seen = [c \in Clients |-> [i \in Ids |-> [revision |-> 0, at |-> 0]]]
    /\ log = <<>>
    /\ events = [m \in Managers |-> <<>>]

-----------------------------------------------------------------------------
(* Callers.                                                                *)

\* DatabaseManager::read: one query of committed state.
Read(c, i) ==
    /\ client[c].phase = "idle"
    /\ seen' = [seen EXCEPT ![c][i] = [revision |-> records[i].revision, at |-> Len(log)]]
    /\ UNCHANGED <<records, idempotency, queue, writer, client, log, events>>

\* The command a caller builds from a template: a replacement or a deletion of
\* what it read, a creation, or an unconditional write.
CommandFor(c, i, shape) ==
    [op |-> shape.op, payload |-> shape.payload,
     expected |-> [policy |-> shape.policy,
                   revision |-> IF shape.policy = "exact" THEN seen[c][i].revision ELSE 0]]

\* An exact revision comes from a record that was read.
Usable(c, template) ==
    \A i \in DOMAIN template : template[i].policy = "exact" => seen[c][i].revision # 0

Send(c, message) ==
    LET m == ManagerOf[c] IN
    /\ Len(queue[m]) < QueueCapacity
    /\ queue' = [queue EXCEPT ![m] = Append(@, message)]
    /\ client' = [client EXCEPT ![c] = [phase |-> "waiting", message |-> message]]
    /\ UNCHANGED <<records, idempotency, writer, seen, log, events>>

\* DatabaseManager::write and write_transaction, up to the wait for the answer.
Submit(c, key, template) ==
    /\ client[c].phase = "idle"
    /\ Usable(c, template)
    /\ Send(c, [client |-> c, key |-> key,
                commands |-> [i \in DOMAIN template |-> CommandFor(c, i, template[i])]])

\* A caller that lost its process sends the same transaction again.
Resubmit(c) ==
    /\ client[c].phase = "unsure"
    /\ Send(c, client[c].message)

-----------------------------------------------------------------------------
(* The writer.                                                             *)

Error(kind) == [kind |-> kind, commits |-> None]

Answering(message, answer) ==
    [phase |-> "answer", message |-> message, answer |-> answer]

\* What the writer does with a message, given the row stored under its key.
Found(message, stored) ==
    IF stored = None
    THEN [phase |-> "transaction", message |-> message, answer |-> NoAnswer]
    ELSE IF stored.digest = message.commands
    THEN Answering(message, [kind |-> "replayed", commits |-> stored.commits])
    ELSE Answering(message, Error("idempotency_conflict"))

\* Mutant: a stored result answers every transaction of its key.
LookUp_AnyDigest(m) ==
    /\ writer[m].phase = "recv"
    /\ queue[m] # <<>>
    /\ LET message == Head(queue[m])
           stored == idempotency[message.key]
       IN  writer' = [writer EXCEPT ![m] =
               IF stored = None THEN Found(message, stored)
               ELSE Answering(message, [kind |-> "replayed", commits |-> stored.commits])]
    /\ queue' = [queue EXCEPT ![m] = Tail(@)]
    /\ UNCHANGED <<records, idempotency, client, seen, log, events>>

\* Mutant: a replay is announced again.
LookUp_Announces(m) ==
    /\ writer[m].phase = "recv"
    /\ queue[m] # <<>>
    /\ LET message == Head(queue[m])
           stored == idempotency[message.key]
       IN  /\ writer' = [writer EXCEPT ![m] = Found(message, stored)]
           /\ events' = [events EXCEPT ![m] = IF stored = None THEN @
                                              ELSE Append(@, message.key)]
    /\ queue' = [queue EXCEPT ![m] = Tail(@)]
    /\ UNCHANGED <<records, idempotency, client, seen, log>>

\* Mutant: a message with a reused key goes back to the end of the queue.
LookUp_Requeues(m) ==
    /\ writer[m].phase = "recv"
    /\ queue[m] # <<>>
    /\ LET message == Head(queue[m])
           found == Found(message, idempotency[message.key])
           reused == found.answer.kind = "idempotency_conflict"
       IN  /\ writer' = [writer EXCEPT ![m] = IF reused THEN @ ELSE found]
           /\ queue' = [queue EXCEPT ![m] = IF reused THEN Append(Tail(@), message) ELSE Tail(@)]
    /\ UNCHANGED <<records, idempotency, client, seen, log, events>>

\* Mutant: the transaction is opened without looking its key up.
LookUp_Skipped(m) ==
    /\ writer[m].phase = "recv"
    /\ queue[m] # <<>>
    /\ writer' = [writer EXCEPT ![m] = Found(Head(queue[m]), None)]
    /\ queue' = [queue EXCEPT ![m] = Tail(@)]
    /\ UNCHANGED <<records, idempotency, client, seen, log, events>>

\* run_writer receives; execute_command or execute_transaction looks the key up
\* before it opens its transaction.
LookUp(m) ==
    /\ writer[m].phase = "recv"
    /\ queue[m] # <<>>
    /\ LET message == Head(queue[m])
       IN  writer' = [writer EXCEPT ![m] = Found(message, idempotency[message.key])]
    /\ queue' = [queue EXCEPT ![m] = Tail(@)]
    /\ UNCHANGED <<records, idempotency, client, seen, log, events>>

\* The SELECT of the look-up fails, or the stored result does not decode: the
\* answer says nothing of what the key has already applied.
LookUpFails(m) ==
    /\ writer[m].phase = "recv"
    /\ queue[m] # <<>>
    /\ writer' = [writer EXCEPT ![m] = Answering(Head(queue[m]), Error("unavailable"))]
    /\ queue' = [queue EXCEPT ![m] = Tail(@)]
    /\ UNCHANGED <<records, idempotency, client, seen, log, events>>

Refuse(m, kind) ==
    /\ writer' = [writer EXCEPT ![m] = Answering(writer[m].message, Error(kind))]
    /\ UNCHANGED <<records, idempotency, queue, client, seen, log, events>>

\* The clock, the write lock or SQLite fails: the transaction is rolled back.
Fail(m) ==
    /\ writer[m].phase = "transaction"
    /\ Refuse(m, "unavailable")

\* Mutant: the commands whose conditions hold stay applied.
Reject_KeepsApplied(m) ==
    LET commands == writer[m].message.commands IN
    /\ writer[m].phase = "transaction"
    /\ ~ TransactionHolds(commands, records)
    /\ records' = [i \in Ids |-> IF i \in DOMAIN commands /\ CommandHolds(commands[i], records[i])
                                 THEN CommandResult(commands[i], records[i]) ELSE records[i]]
    /\ writer' = [writer EXCEPT ![m] = Answering(writer[m].message, Error("conflict"))]
    /\ UNCHANGED <<idempotency, queue, client, seen, log, events>>

\* A condition of some command fails: the commands applied before it are rolled
\* back with the transaction.
Reject(m) ==
    /\ writer[m].phase = "transaction"
    /\ ~ TransactionHolds(writer[m].message.commands, records)
    /\ Refuse(m, "conflict")

\* The idempotency row exists by now, written by another manager: its primary
\* key refuses the insertion and the transaction is rolled back.
Collide(m) ==
    /\ writer[m].phase = "transaction"
    /\ TransactionHolds(writer[m].message.commands, records)
    /\ idempotency[writer[m].message.key] # None
    /\ Refuse(m, "unavailable")

\* Mutant: the replay result is not stored with the commit.
Commit_Forgets(m) ==
    LET message == writer[m].message
        commits == Commits(message.commands, records)
    IN  /\ writer[m].phase = "transaction"
        /\ TransactionHolds(message.commands, records)
        /\ records' = After(message.commands, records)
        /\ writer' = [writer EXCEPT ![m] =
               Answering(message, [kind |-> "applied", commits |-> commits])]
        /\ log' = Append(log, [key |-> message.key, commands |-> message.commands,
                               commits |-> commits, read |-> seen[message.client]])
        /\ events' = [events EXCEPT ![m] = Append(@, message.key)]
        /\ UNCHANGED <<idempotency, queue, client, seen>>

\* The immediate transaction and its commit; then one event for each commit,
\* sent to a receiver that may be gone.
Commit(m) ==
    LET message == writer[m].message
        commits == Commits(message.commands, records)
    IN  /\ writer[m].phase = "transaction"
        /\ Apply(message.key, message.commands)
        /\ writer' = [writer EXCEPT ![m] =
               Answering(message, [kind |-> "applied", commits |-> commits])]
        /\ log' = Append(log, [key |-> message.key, commands |-> message.commands,
                               commits |-> commits, read |-> seen[message.client]])
        /\ events' = [events EXCEPT ![m] = Append(@, message.key)]
        /\ UNCHANGED <<queue, client, seen>>

\* response_sender.send.
Respond(m) ==
    /\ writer[m].phase = "answer"
    /\ client' = [client EXCEPT ![writer[m].message.client] =
           [phase |-> "idle", message |-> NoMessage]]
    /\ writer' = [writer EXCEPT ![m] = Waiting]
    /\ UNCHANGED <<records, idempotency, queue, seen, log, events>>

\* The process stops and the database is opened again.
Restart(m) ==
    /\ queue' = [queue EXCEPT ![m] = <<>>]
    /\ writer' = [writer EXCEPT ![m] = Waiting]
    /\ events' = [events EXCEPT ![m] = <<>>]
    /\ client' = [c \in Clients |->
           IF ManagerOf[c] = m /\ client[c].phase = "waiting"
           THEN [client[c] EXCEPT !.phase = "unsure"] ELSE client[c]]
    /\ UNCHANGED <<records, idempotency, seen, log>>

-----------------------------------------------------------------------------
ClientStep(c) ==
    \/ \E i \in Ids : Read(c, i)
    \/ \E key \in Keys, template \in Templates : Submit(c, key, template)
    \/ Resubmit(c)

WriterStep(m) ==
    \/ LookUp(m) \/ LookUpFails(m)
    \/ Fail(m) \/ Reject(m) \/ Collide(m) \/ Commit(m) \/ Respond(m)

Next ==
    \/ \E c \in Clients : ClientStep(c)
    \/ \E m \in Managers : WriterStep(m) \/ Restart(m)

Spec == Init /\ [][Next]_vars

\* A process that runs serves its queue; nothing forces a caller to write or a
\* process to stop.
LiveSpec == Spec /\ \A m \in Managers : WF_vars(WriterStep(m))

-----------------------------------------------------------------------------
(* Properties.                                                             *)

WriterPhases == {"recv", "transaction", "answer"}
ClientPhases == {"idle", "waiting", "unsure"}
AnswerKinds ==
    {"none", "applied", "replayed", "idempotency_conflict", "conflict", "unavailable"}

\* Types of the state: stored revisions stay within the column, queues within
\* the configured capacity, and a caller is waiting exactly while one message
\* of its own is queued or in its writer's hands.
TypeOK ==
    /\ records \in [Ids -> StoredRecord]
    /\ \A m \in Managers :
           /\ writer[m].phase \in WriterPhases
           /\ writer[m].answer.kind \in AnswerKinds
           /\ Len(queue[m]) <= QueueCapacity
    /\ \A c \in Clients :
           LET m == ManagerOf[c]
               queued == {n \in 1..Len(queue[m]) : queue[m][n].client = c}
               held == writer[m].phase # "recv" /\ writer[m].message.client = c
           IN  /\ client[c].phase \in ClientPhases
               /\ client[c].phase = "waiting" <=> (queued # {} \/ held)
               /\ Cardinality(queued) <= (IF held THEN 0 ELSE 1)

\* A transaction is applied at most once under its idempotency key, however
\* often it is sent again after a stop and whichever manager serves it
\* (execute_transaction, store_idempotent_transaction).
AppliedOnce ==
    \A a, b \in 1..Len(log) : log[a].key = log[b].key => a = b

\* A stored replay result is the result of the transaction that was committed
\* under that key, and every committed transaction has one.
ReplayTableExact ==
    \A k \in Keys :
        LET entries == {n \in 1..Len(log) : log[n].key = k} IN
        IF idempotency[k] = None THEN entries = {}
        ELSE \E n \in entries : /\ idempotency[k].digest = log[n].commands
                                /\ idempotency[k].commits = log[n].commits

\* The state after the first n committed transactions.
StateAfter[n \in 0..Len(log)] ==
    IF n = 0 THEN [i \in Ids |-> Absent] ELSE After(log[n].commands, StateAfter[n - 1])

\* The records are the result of the committed transactions, each taken whole
\* and in commit order: a refused, failed or interrupted transaction leaves
\* nothing behind, and each committed one met its conditions in the state it
\* found.
NoTornTransaction ==
    /\ records = StateAfter[Len(log)]
    /\ \A n \in 1..Len(log) :
           /\ TransactionHolds(log[n].commands, StateAfter[n - 1])
           /\ log[n].commits = Commits(log[n].commands, StateAfter[n - 1])

Changes(n, i) == i \in DOMAIN log[n].commands
Deletes(n, i) == Changes(n, i) /\ log[n].commands[i].op = "delete"

\* An exact-revision write replaces what its caller read: between the read and
\* the commit nobody else changed the record, unless somebody deleted it.
NoLostUpdate ==
    \A n \in 1..Len(log) : \A i \in DOMAIN log[n].commands :
        log[n].commands[i].expected.policy = "exact" =>
            LET between == (log[n].read[i].at + 1)..(n - 1) IN
            (\E k \in between : Changes(k, i)) => \E k \in between : Deletes(k, i)

\* What a caller is told is true: applied and replayed report the commits of
\* its own committed transaction.
AnswersTrue ==
    \A m \in Managers :
        writer[m].phase = "answer" /\ writer[m].answer.kind \in {"applied", "replayed"} =>
            \E n \in 1..Len(log) : /\ log[n].key = writer[m].message.key
                                   /\ log[n].commands = writer[m].message.commands
                                   /\ log[n].commits = writer[m].answer.commits

\* With one manager on the file, a caller that is told of a revision conflict knows
\* that its transaction was not applied, now or before: one that is sent again is
\* replayed or fails without a verdict, and is never judged against the revisions
\* that it has itself changed.
ConflictIsUnapplied ==
    \A m \in Managers :
        writer[m].phase = "answer" /\ writer[m].answer.kind = "conflict" =>
            idempotency[writer[m].message.key] = None

\* The event stream of a manager announces committed transactions only, in
\* commit order and each once: a replay announces nothing.
EventsFollowCommits ==
    \A m \in Managers :
        \E first \in [1..Len(events[m]) -> 1..Len(log)] :
            /\ \A a, b \in 1..Len(events[m]) : a < b => first[a] < first[b]
            /\ \A a \in 1..Len(events[m]) : log[first[a]].key = events[m][a]

\* Every write that a process accepted is answered, unless the process stops: no
\* order of the queued messages, replays, conflicts and refusals leaves a caller
\* waiting for the one writer that serves the others.
EveryWriteAnswered ==
    \A c \in Clients : client[c].phase = "waiting" ~> client[c].phase # "waiting"
=============================================================================
