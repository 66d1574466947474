--------------------------- MODULE DatabaseProofs ---------------------------
(***************************************************************************)
(* Theorems about Database, for any number of records, keys, managers and  *)
(* callers:                                                                *)
(*   - it implements DatabaseStore: the records change only by whole       *)
(*     transactions, each applied once and under its conditions;           *)
(*   - AppliedOnce and ReplayTableExact;                                   *)
(*   - AnswersTrue.                                                        *)
(* The inductive invariant is Types with ReplayInv: the replay table and   *)
(* the log name the same transactions.                                     *)
(***************************************************************************)
EXTENDS Database, TLAPS, SequenceTheorems

Message == [client : Clients, key : Keys, commands : Transactions]
Answer == [kind : AnswerKinds, commits : CommitLists \cup {None}]
Snapshot == [Ids -> [revision : 0..MaxRevision, at : Nat]]
Entry == [key : Keys, commands : Transactions, commits : CommitLists, read : Snapshot]

StoreOK ==
    /\ records \in [Ids -> StoredRecord]
    /\ idempotency \in [Keys -> Rows \cup {None}]

QueueOK == queue \in [Managers -> Seq(Message)]

WriterOK ==
    /\ writer \in [Managers -> [phase : WriterPhases, message : Message \cup {NoMessage},
                                answer : Answer]]
    /\ \A m \in Managers : writer[m].phase # "recv" => writer[m].message \in Message

ClientOK ==
    /\ client \in [Clients -> [phase : ClientPhases, message : Message \cup {NoMessage}]]
    /\ \A c \in Clients : client[c].phase # "idle" => client[c].message \in Message

SeenOK == seen \in [Clients -> Snapshot]

LogOK == log \in Seq(Entry)

Types == StoreOK /\ QueueOK /\ WriterOK /\ ClientOK /\ SeenOK /\ LogOK

-----------------------------------------------------------------------------
(* Transactions.                                                           *)

\* The commits of a transaction that holds are well formed, and so are the
\* records after it (save_record, delete_record).
LEMMA TransactionTypes ==
    ASSUME NEW commands \in Transactions, NEW state \in [Ids -> StoredRecord],
           TransactionHolds(commands, state)
    PROVE  /\ Commits(commands, state) \in CommitLists
           /\ After(commands, state) \in [Ids -> StoredRecord]
           /\ Row(commands, state) \in Rows
<1> PICK targets \in (SUBSET Ids) \ {{}} : commands \in [targets -> Command]
    BY DEF Transactions
<1>1. ASSUME NEW i \in targets
      PROVE  /\ CommitOf(commands[i], state[i]) \in
                    [mutation : {"created", "updated", "deleted"},
                     revision : 1..(MaxRevision + 1)]
             /\ CommandResult(commands[i], state[i]) \in StoredRecord
  <2> DEFINE command == commands[i]
             stored == state[i]
  <2>1. /\ command \in Command /\ stored \in StoredRecord
        /\ CommandHolds(command, stored)
        /\ MaxRevision \in Nat \ {0}
    BY RevisionAssumption DEF TransactionHolds
  <2>2. stored.revision \in 0..MaxRevision
    BY <2>1 DEF StoredRecord, Absent
  <2>3. command.op \in {"save", "delete"} /\ (command.op = "save" => command.payload \in Payloads)
    BY <2>1 DEF Command
  <2> HIDE DEF command, stored
  <2>4. CommitOf(command, stored) \in [mutation : {"created", "updated", "deleted"},
                                       revision : 1..(MaxRevision + 1)]
    BY <2>1, <2>2 DEF CommitOf
  <2>5. CommandResult(command, stored) \in StoredRecord
    BY <2>1, <2>2, <2>3 DEF CommandResult, StoredRecord, CommandHolds
  <2> QED BY <2>4, <2>5 DEF command, stored
<1>2. Commits(commands, state) \in
          [targets -> [mutation : {"created", "updated", "deleted"},
                       revision : 1..(MaxRevision + 1)]]
  BY <1>1 DEF Commits
<1>3. Commits(commands, state) \in CommitLists
  BY <1>2 DEF CommitLists
<1>4. After(commands, state) \in [Ids -> StoredRecord]
  BY <1>1 DEF After
<1>5. Row(commands, state) \in Rows
  BY <1>3 DEF Row, Rows
<1> QED BY <1>3, <1>4, <1>5

-----------------------------------------------------------------------------
(* Types.                                                                  *)

\* The initial state is well formed.
LEMMA InitTypes == Init => Types
<1> SUFFICES ASSUME Init PROVE Types
    OBVIOUS
<1> USE DEF Init, StoreInit
<1>1. StoreOK
  BY DEF StoreOK, StoredRecord
<1>2. QueueOK
  BY DEF QueueOK
<1>3. WriterOK
  BY DEF WriterOK, Waiting, WriterPhases, Answer, NoAnswer, AnswerKinds
<1>4. ClientOK
  BY DEF ClientOK, ClientPhases
<1>5. SeenOK
  BY RevisionAssumption DEF SeenOK, Snapshot
<1>6. LogOK
  BY DEF LogOK
<1> QED BY <1>1, <1>2, <1>3, <1>4, <1>5, <1>6 DEF Types

\* A message that is sent is well formed and joins the queue of its caller's
\* manager (send_command).
LEMMA SendTypes ==
    ASSUME Types, NEW c \in Clients, NEW message \in Message, Send(c, message)
    PROVE  Types'
<1> DEFINE m == ManagerOf[c]
<1>1. m \in Managers
  BY ManagerAssumption
<1>2. QueueOK'
  <2>1. queue[m] \in Seq(Message)
    BY <1>1 DEF Types, QueueOK
  <2>2. Append(queue[m], message) \in Seq(Message)
    BY <2>1
  <2> QED BY <1>1, <2>2 DEF Types, QueueOK, Send
<1>3. ClientOK'
  BY DEF Types, ClientOK, ClientPhases, Send
<1>4. StoreOK' /\ WriterOK' /\ SeenOK' /\ LogOK'
  BY DEF Types, StoreOK, WriterOK, SeenOK, LogOK, Send
<1> QED BY <1>2, <1>3, <1>4 DEF Types

\* The transaction a caller builds from a template is well formed.
LEMMA SubmittedMessage ==
    ASSUME Types, NEW c \in Clients, NEW key \in Keys, NEW template \in Templates,
           Usable(c, template)
    PROVE  [client |-> c, key |-> key,
            commands |-> [i \in DOMAIN template |-> CommandFor(c, i, template[i])]] \in Message
<1> PICK targets \in (SUBSET Ids) \ {{}} : template \in [targets -> Shape]
    BY TemplateAssumption
<1>1. ASSUME NEW i \in targets
      PROVE  CommandFor(c, i, template[i]) \in Command
  <2>1. template[i] \in Shape
    OBVIOUS
  <2>2. seen[c][i] \in [revision : 0..MaxRevision, at : Nat]
    BY DEF Types, SeenOK, Snapshot
  <2>3. template[i].policy = "exact" => seen[c][i].revision \in 1..MaxRevision
    BY <2>2, RevisionAssumption DEF Usable
  <2>4. [policy |-> template[i].policy,
         revision |-> IF template[i].policy = "exact" THEN seen[c][i].revision ELSE 0]
            \in Condition
    BY <2>1, <2>3 DEF Condition, Shape
  <2> QED BY <2>1, <2>4 DEF CommandFor, Command, Shape
<1>2. [i \in DOMAIN template |-> CommandFor(c, i, template[i])] \in [targets -> Command]
  BY <1>1
<1>3. [i \in DOMAIN template |-> CommandFor(c, i, template[i])] \in Transactions
  BY <1>2 DEF Transactions
<1> QED BY <1>3 DEF Message

\* Each step keeps the state well formed.
LEMMA NextTypes == Types /\ [Next]_vars => Types'
<1> SUFFICES ASSUME Types, [Next]_vars PROVE Types'
    OBVIOUS
<1>1. ASSUME NEW c \in Clients, NEW i \in Ids, Read(c, i) PROVE Types'
  <2>1. records[i].revision \in 0..MaxRevision
    BY RevisionAssumption DEF Types, StoreOK, StoredRecord, Absent
  <2>2. Len(log) \in Nat
    BY DEF Types, LogOK
  <2>3. SeenOK'
    BY <1>1, <2>1, <2>2 DEF Types, SeenOK, Snapshot, Read
  <2> QED BY <1>1, <2>3 DEF Read, Types, StoreOK, QueueOK, WriterOK, ClientOK, LogOK
<1>2. ASSUME NEW c \in Clients, NEW key \in Keys, NEW template \in Templates,
             Submit(c, key, template)
      PROVE  Types'
  BY <1>2, SubmittedMessage, SendTypes DEF Submit
<1>3. ASSUME NEW c \in Clients, Resubmit(c) PROVE Types'
  BY <1>3, SendTypes DEF Resubmit, Types, ClientOK
<1>4. ASSUME NEW m \in Managers, LookUp(m) \/ LookUpFails(m) PROVE Types'
  <2>1. queue[m] \in Seq(Message) /\ queue[m] # <<>>
    BY <1>4 DEF Types, QueueOK, LookUp, LookUpFails
  <2>2. Head(queue[m]) \in Message /\ Tail(queue[m]) \in Seq(Message)
    BY <2>1
  <2>3. QueueOK'
    BY <1>4, <2>2 DEF Types, QueueOK, LookUp, LookUpFails
  <2>4. idempotency[Head(queue[m]).key] \in Rows \cup {None}
    BY <2>2 DEF Types, StoreOK, Message
  <2>5. WriterOK'
    BY <1>4, <2>2, <2>4 DEF Types, WriterOK, LookUp, LookUpFails, Found, Answering, Error,
                            WriterPhases, Answer, AnswerKinds, NoAnswer, Rows
  <2> QED BY <1>4, <2>3, <2>5 DEF LookUp, LookUpFails, Types, StoreOK, ClientOK, SeenOK, LogOK
<1>5. ASSUME NEW m \in Managers, NEW kind \in AnswerKinds,
             writer[m].phase = "transaction", Refuse(m, kind)
      PROVE  Types'
  <2>1. WriterOK'
    BY <1>5 DEF Types, WriterOK, Refuse, Answering, Error, WriterPhases, Answer
  <2> QED BY <1>5, <2>1 DEF Refuse, Types, StoreOK, QueueOK, ClientOK, SeenOK, LogOK
<1>6. ASSUME NEW m \in Managers, Commit(m) PROVE Types'
  <2> DEFINE message == writer[m].message
             commits == Commits(message.commands, records)
  <2>1. message \in Message
    BY <1>6 DEF Types, WriterOK, Commit
  <2>2. message.key \in Keys /\ message.commands \in Transactions /\ message.client \in Clients
    BY <2>1 DEF Message
  <2>3. /\ commits \in CommitLists
        /\ After(message.commands, records) \in [Ids -> StoredRecord]
        /\ Row(message.commands, records) \in Rows
    BY <1>6, <2>2, TransactionTypes DEF Types, StoreOK, Commit, Apply
  <2> HIDE DEF message, commits
  <2>4. StoreOK'
    BY <1>6, <2>2, <2>3 DEF Types, StoreOK, Commit, Apply, message
  <2>5. WriterOK'
    BY <1>6, <2>1, <2>3 DEF Types, WriterOK, Commit, Answering, WriterPhases, Answer, AnswerKinds,
                            message, commits
  <2>6. [key |-> message.key, commands |-> message.commands, commits |-> commits,
         read |-> seen[message.client]] \in Entry
    BY <2>2, <2>3 DEF Entry, Types, SeenOK
  <2>7. LogOK'
    BY <1>6, <2>6 DEF Types, LogOK, Commit, message, commits
  <2> QED BY <1>6, <2>4, <2>5, <2>7 DEF Commit, Types, QueueOK, ClientOK, SeenOK
<1>7. ASSUME NEW m \in Managers, Respond(m) PROVE Types'
  <2>1. writer[m].message.client \in Clients
    BY <1>7 DEF Types, WriterOK, Respond, Message
  <2>2. ClientOK'
    BY <1>7, <2>1 DEF Types, ClientOK, Respond, ClientPhases
  <2>3. WriterOK'
    BY <1>7 DEF Types, WriterOK, Respond, Waiting, WriterPhases, Answer, NoAnswer, AnswerKinds
  <2> QED BY <1>7, <2>2, <2>3 DEF Respond, Types, StoreOK, QueueOK, SeenOK, LogOK
<1>8. ASSUME NEW m \in Managers, Restart(m) PROVE Types'
  <2>1. QueueOK'
    BY <1>8 DEF Types, QueueOK, Restart
  <2>2. ClientOK'
    BY <1>8 DEF Types, ClientOK, Restart, ClientPhases
  <2>3. WriterOK'
    BY <1>8 DEF Types, WriterOK, Restart, Waiting, WriterPhases, Answer, NoAnswer, AnswerKinds
  <2> QED BY <1>8, <2>1, <2>2, <2>3 DEF Restart, Types, StoreOK, SeenOK, LogOK
<1>9. CASE UNCHANGED vars
  BY <1>9 DEF vars, Types, StoreOK, QueueOK, WriterOK, ClientOK, SeenOK, LogOK
<1>10. "unavailable" \in AnswerKinds /\ "conflict" \in AnswerKinds
  BY DEF AnswerKinds
<1> QED
  BY <1>1, <1>2, <1>3, <1>4, <1>5, <1>6, <1>7, <1>8, <1>9, <1>10
     DEF Next, ClientStep, WriterStep, Fail, Reject, Collide

-----------------------------------------------------------------------------
(* The store.                                                              *)

\* Database implements DatabaseStore: whatever the callers, the writers and the
\* stops do, the records and the replay table change only by the atomic
\* application of one transaction, once and under its conditions
\* (execute_command, execute_transaction).
THEOREM ImplementsStore == Spec => StoreSpec
<1>1. Init => StoreInit
  BY DEF Init
<1>2. Types /\ [Next]_vars => [StoreNext]_store_vars
  <2> SUFFICES ASSUME Types, Next, ~ UNCHANGED store_vars PROVE StoreNext
      BY DEF vars, store_vars
  <2>1. PICK m \in Managers : Commit(m)
    BY Zenon DEF Next, ClientStep, WriterStep, Read, Submit, Resubmit, Send, LookUp, LookUpFails,
           Fail, Reject, Collide, Refuse, Respond, Restart, store_vars
  <2>2. writer[m].message.key \in Keys /\ writer[m].message.commands \in Transactions
    BY <2>1 DEF Types, WriterOK, Commit, Message
  <2> QED BY <2>1, <2>2 DEF StoreNext, Commit
<1> QED BY <1>1, <1>2, InitTypes, NextTypes, PTL DEF Spec, StoreSpec

-----------------------------------------------------------------------------
(* Replays.                                                                *)

ReplayInv == AppliedOnce /\ ReplayTableExact

\* Every step but a commit leaves the log and the replay table alone.
LEMMA OnlyCommitLogs ==
    [Next]_vars => \/ \E m \in Managers : Commit(m)
                   \/ UNCHANGED <<records, idempotency, log>>
BY Zenon DEF Next, ClientStep, WriterStep, Read, Submit, Resubmit, Send, LookUp, LookUpFails,
       Fail, Reject, Collide, Refuse, Respond, Restart, vars

\* What a commit does to the log: the entries stay and one is added for a key
\* that had none.
LEMMA CommitLog ==
    ASSUME Types, NEW m \in Managers, Commit(m)
    PROVE  LET message == writer[m].message IN
           /\ message \in Message
           /\ Len(log) \in Nat /\ Len(log') = Len(log) + 1
           /\ \A n \in 1..Len(log) : log'[n] = log[n]
           /\ log'[Len(log) + 1] = [key |-> message.key, commands |-> message.commands,
                                     commits |-> Commits(message.commands, records),
                                     read |-> seen[message.client]]
           /\ idempotency[message.key] = None
           /\ idempotency' = [idempotency EXCEPT ![message.key] =
                                  Row(message.commands, records)]
           /\ Row(message.commands, records) \in Rows
<1>1. writer[m].message \in Message
  BY DEF Types, WriterOK, Commit
<1>2. Row(writer[m].message.commands, records) \in Rows
  BY <1>1, TransactionTypes DEF Types, StoreOK, Commit, Apply, Message
<1>3. log \in Seq(Entry)
  BY DEF Types, LogOK
<1> QED BY <1>1, <1>2, <1>3 DEF Commit, Apply

\* The stored results and the log name the same transactions: the commit that
\* adds an entry found no result under its key and stores one in the same
\* SQLite transaction.
LEMMA NextReplay == Types /\ ReplayInv /\ [Next]_vars => ReplayInv'
<1> SUFFICES ASSUME Types, ReplayInv, [Next]_vars PROVE ReplayInv'
    OBVIOUS
<1>1. ASSUME NEW m \in Managers, Commit(m) PROVE ReplayInv'
  <2> DEFINE message == writer[m].message
             N == Len(log)
  <2>1. /\ message \in Message
        /\ N \in Nat /\ Len(log') = N + 1
        /\ \A n \in 1..N : log'[n] = log[n]
        /\ log'[N + 1] = [key |-> message.key, commands |-> message.commands,
                          commits |-> Commits(message.commands, records),
                          read |-> seen[message.client]]
        /\ idempotency[message.key] = None
        /\ idempotency' = [idempotency EXCEPT ![message.key] = Row(message.commands, records)]
        /\ Row(message.commands, records) \in Rows
    BY <1>1, CommitLog
  <2> HIDE DEF message, N
  <2>2. message.key \in Keys
    BY <2>1 DEF Message
  <2>3. \A n \in 1..N : log[n].key # message.key
    BY <2>1, <2>2 DEF ReplayInv, ReplayTableExact, N
  <2>4. AppliedOnce'
    <3> SUFFICES ASSUME NEW a \in 1..(N + 1), NEW b \in 1..(N + 1), log'[a].key = log'[b].key
                 PROVE  a = b
        BY <2>1 DEF AppliedOnce
    <3>1. CASE a \in 1..N /\ b \in 1..N
      BY <2>1, <3>1 DEF ReplayInv, AppliedOnce, N
    <3>2. CASE a = N + 1 /\ b \in 1..N
      BY <2>1, <2>3, <3>2
    <3>3. CASE a \in 1..N /\ b = N + 1
      BY <2>1, <2>3, <3>3
    <3> QED BY <2>1, <3>1, <3>2, <3>3
  <2>5. ReplayTableExact'
    <3> SUFFICES ASSUME NEW k \in Keys
                 PROVE  LET entries == {n \in 1..(N + 1) : log'[n].key = k} IN
                        IF idempotency'[k] = None THEN entries = {}
                        ELSE \E n \in entries : /\ idempotency'[k].digest = log'[n].commands
                                                /\ idempotency'[k].commits = log'[n].commits
        BY <2>1 DEF ReplayTableExact
    <3>1. CASE k = message.key
      <4>1. idempotency'[k] = Row(message.commands, records) /\ idempotency'[k] # None
        BY <2>1, <3>1, NoneAssumption DEF Types, StoreOK
      <4>2. /\ log'[N + 1].key = k
            /\ idempotency'[k].digest = log'[N + 1].commands
            /\ idempotency'[k].commits = log'[N + 1].commits
        BY <2>1, <3>1, <4>1 DEF Row
      <4> QED BY <2>1, <4>1, <4>2
    <3>2. CASE k # message.key
      <4>1. idempotency'[k] = idempotency[k]
        BY <2>1, <3>2 DEF Types, StoreOK
      <4>2. {n \in 1..(N + 1) : log'[n].key = k} = {n \in 1..N : log[n].key = k}
        BY <2>1, <3>2
      <4> QED BY <2>1, <4>1, <4>2 DEF ReplayInv, ReplayTableExact, N
    <3> QED BY <3>1, <3>2
  <2> QED BY <2>4, <2>5 DEF ReplayInv
<1>2. CASE UNCHANGED <<records, idempotency, log>>
  BY <1>2 DEF ReplayInv, AppliedOnce, ReplayTableExact
<1> QED BY <1>1, <1>2, OnlyCommitLogs

\* Initially nothing is stored and nothing was committed.
LEMMA InitReplay == Init => ReplayInv
BY DEF Init, StoreInit, ReplayInv, AppliedOnce, ReplayTableExact

\* At most one transaction is ever committed under an idempotency key, whatever
\* stops, retries and other managers of the file do.
THEOREM AtMostOnce == Spec => []AppliedOnce
<1>1. ReplayInv => AppliedOnce
  BY DEF ReplayInv
<1> QED BY <1>1, InitTypes, NextTypes, InitReplay, NextReplay, PTL DEF Spec

\* The replay table holds exactly the results of the committed transactions.
THEOREM ReplaysExact == Spec => []ReplayTableExact
<1>1. ReplayInv => ReplayTableExact
  BY DEF ReplayInv
<1> QED BY <1>1, InitTypes, NextTypes, InitReplay, NextReplay, PTL DEF Spec

-----------------------------------------------------------------------------
(* Answers.                                                                *)

\* What a writer is about to tell its caller stays true: a replay answers from
\* the table, a commit from the entry it adds.
LEMMA NextAnswers ==
    Types /\ ReplayInv /\ AnswersTrue /\ [Next]_vars => AnswersTrue'
<1> SUFFICES ASSUME Types, ReplayInv, AnswersTrue, [Next]_vars PROVE AnswersTrue'
    OBVIOUS
<1> DEFINE True(m, N) ==
        writer[m].phase = "answer" /\ writer[m].answer.kind \in {"applied", "replayed"} =>
            \E n \in 1..N : /\ log[n].key = writer[m].message.key
                            /\ log[n].commands = writer[m].message.commands
                            /\ log[n].commits = writer[m].answer.commits
<1>1. ASSUME NEW m \in Managers, Commit(m) PROVE AnswersTrue'
  <2> DEFINE message == writer[m].message
             N == Len(log)
  <2>1. /\ N \in Nat /\ Len(log') = N + 1
        /\ \A n \in 1..N : log'[n] = log[n]
        /\ log'[N + 1] = [key |-> message.key, commands |-> message.commands,
                          commits |-> Commits(message.commands, records),
                          read |-> seen[message.client]]
    BY <1>1, CommitLog
  <2>2. writer' = [writer EXCEPT ![m] =
            Answering(message, [kind |-> "applied",
                                commits |-> Commits(message.commands, records)])]
    BY <1>1 DEF Commit
  <2>3. writer'[m].message = message
        /\ writer'[m].answer.commits = Commits(message.commands, records)
    BY <2>2 DEF Answering, Types, WriterOK
  <2>4. \A o \in Managers : o # m => writer'[o] = writer[o]
    BY <2>2 DEF Types, WriterOK
  <2> HIDE DEF message, N
  <2> SUFFICES ASSUME NEW o \in Managers PROVE True(o, Len(log))'
      BY DEF AnswersTrue
  <2>5. CASE o = m
    BY <2>1, <2>3, <2>5
  <2>6. CASE o # m
    <3>1. True(o, N)
      BY DEF AnswersTrue, N
    <3> QED BY <2>1, <2>4, <2>6, <3>1
  <2> QED BY <2>5, <2>6
<1>2. ASSUME NEW m \in Managers, LookUp(m) PROVE AnswersTrue'
  <2> DEFINE message == Head(queue[m])
  <2>1. message.key \in Keys
    <3>1. queue[m] \in Seq(Message) /\ queue[m] # <<>>
      BY <1>2 DEF Types, QueueOK, LookUp
    <3>2. message \in Message
      BY <3>1
    <3> QED BY <3>2 DEF Message
  <2> DEFINE stored == idempotency[message.key]
  <2> HIDE DEF message, stored
  <2>20. writer'[m] =
             IF stored = None
             THEN [phase |-> "transaction", message |-> message, answer |-> NoAnswer]
             ELSE IF stored.digest = message.commands
             THEN Answering(message, [kind |-> "replayed", commits |-> stored.commits])
             ELSE Answering(message, Error("idempotency_conflict"))
    BY <1>2 DEF LookUp, Found, Types, WriterOK, message, stored
  <2>2. writer'[m].message = message /\ log' = log
    BY <1>2, <2>20 DEF LookUp, Answering
  <2>3. writer'[m].answer.kind \in {"applied", "replayed"} =>
            /\ stored # None
            /\ stored.digest = message.commands
            /\ writer'[m].answer.commits = stored.commits
    BY <2>20 DEF Answering, Error, NoAnswer
  <2>4. \A o \in Managers : o # m => writer'[o] = writer[o]
    BY <1>2 DEF LookUp, Types, WriterOK
  <2>5. True(m, Len(log))'
    BY <2>1, <2>2, <2>3 DEF ReplayInv, ReplayTableExact, stored
  <2>6. \A o \in Managers : o # m => True(o, Len(log))'
    BY <2>2, <2>4 DEF AnswersTrue
  <2> QED BY <2>5, <2>6 DEF AnswersTrue
<1>3. ASSUME NEW m \in Managers, NEW state, log' = log,
             writer' = [writer EXCEPT ![m] = state],
             state.phase = "answer" => state.answer.kind \notin {"applied", "replayed"}
      PROVE  AnswersTrue'
  BY <1>3 DEF AnswersTrue, Types, WriterOK
<1>4. ASSUME NEW m \in Managers, NEW kind \in {"unavailable", "conflict"}, Refuse(m, kind)
      PROVE  AnswersTrue'
  BY Zenon, <1>3, <1>4 DEF Refuse, Answering, Error
<1>5. ASSUME NEW m \in Managers, Respond(m) \/ Restart(m) PROVE AnswersTrue'
  BY <1>3, <1>5 DEF Respond, Restart, Waiting
<1>6. ASSUME NEW m \in Managers, LookUpFails(m) PROVE AnswersTrue'
  BY Zenon, <1>3, <1>6 DEF LookUpFails, Answering, Error
<1>7. CASE UNCHANGED <<writer, log>>
  BY <1>7 DEF AnswersTrue
<1> QED
  BY Zenon, <1>1, <1>2, <1>4, <1>5, <1>6, <1>7
     DEF Next, ClientStep, WriterStep, Fail, Reject, Collide, Read, Submit, Resubmit, Send, vars

\* No writer has anything to tell at first.
LEMMA InitAnswers == Init => AnswersTrue
BY DEF Init, AnswersTrue, Waiting

\* A caller that is told applied or replayed is told the commits of its own
\* committed transaction.
THEOREM AnswersAreTrue == Spec => []AnswersTrue
BY InitTypes, NextTypes, InitReplay, NextReplay, InitAnswers, NextAnswers, PTL DEF Spec
=============================================================================
