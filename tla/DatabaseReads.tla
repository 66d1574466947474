---------------------------- MODULE DatabaseReads ----------------------------
(***************************************************************************)
(* NoLostUpdate is an invariant of Database, for any number of records,    *)
(* keys, managers and callers.                                             *)
(*                                                                         *)
(* The inductive invariant says what a message in flight is: it belongs to *)
(* one waiting caller, whose reads cannot change until it is answered, so  *)
(* the exact revisions it carries are still the ones that caller read; and *)
(* that the revision of a record that is not deleted only grows.           *)
(***************************************************************************)
EXTENDS DatabaseProofs

\* What holds of the message a caller has sent.
Pending(c, message) ==
    /\ client[c].phase = "waiting"
    /\ client[c].message = message

\* Messages in flight: each is the one message of a waiting caller of the
\* manager that holds it.
InFlight ==
    /\ \A c \in Clients : client[c].phase # "idle" => client[c].message.client = c
    /\ \A m \in Managers : \A n \in 1..Len(queue[m]) :
           ManagerOf[queue[m][n].client] = m /\ Pending(queue[m][n].client, queue[m][n])
    /\ \A m \in Managers : writer[m].phase # "recv" =>
           /\ ManagerOf[writer[m].message.client] = m
           /\ Pending(writer[m].message.client, writer[m].message)
    /\ \A m \in Managers : \A a, b \in 1..Len(queue[m]) :
           queue[m][a].client = queue[m][b].client => a = b
    /\ \A m \in Managers : \A n \in 1..Len(queue[m]) :
           writer[m].phase # "recv" => queue[m][n].client # writer[m].message.client

\* The exact revisions of a message that is not answered are those its caller
\* last read.
ReadsKept ==
    \A c \in Clients : client[c].phase # "idle" =>
        \A i \in DOMAIN client[c].message.commands :
            client[c].message.commands[i].expected.policy = "exact" =>
                client[c].message.commands[i].expected.revision = seen[c][i].revision

\* A record that was not deleted since it was read has at least the revision
\* that was read, and a larger one if it was changed.
RevisionsGrow ==
    \A c \in Clients, i \in Ids :
        LET since == (seen[c][i].at + 1)..Len(log) IN
        /\ seen[c][i].at <= Len(log)
        /\ (\A k \in since : ~ Deletes(k, i)) =>
               /\ records[i].revision >= seen[c][i].revision
               /\ (\E k \in since : Changes(k, i)) => records[i].revision > seen[c][i].revision

-----------------------------------------------------------------------------
(* Messages in flight.                                                     *)

\* A caller that is not waiting has no message in flight; the one it sends
\* becomes its only one.
LEMMA SendInFlight ==
    ASSUME Types, InFlight, NEW c \in Clients, NEW message \in Message,
           message.client = c, client[c].phase # "waiting", Send(c, message)
    PROVE  InFlight'
<1> DEFINE m == ManagerOf[c]
           N == Len(queue[m])
<1>1. m \in Managers /\ queue[m] \in Seq(Message)
  BY ManagerAssumption DEF Types, QueueOK
<1>2. N \in Nat
  BY <1>1
<1>3. /\ \A o \in Managers : o # m => queue'[o] = queue[o]
      /\ queue'[m] = Append(queue[m], message)
      /\ \A d \in Clients : d # c => client'[d] = client[d]
      /\ client'[c] = [phase |-> "waiting", message |-> message]
      /\ writer' = writer
  BY <1>1 DEF Send, Types, QueueOK, ClientOK
<1>4. /\ Len(queue'[m]) = N + 1 /\ queue'[m][N + 1] = message
      /\ \A n \in 1..N : queue'[m][n] = queue[m][n]
  BY <1>1, <1>3
<1>5. \A o \in Managers : \A n \in 1..Len(queue[o]) : queue[o][n].client \in Clients
  <2> SUFFICES ASSUME NEW o \in Managers, NEW n \in 1..Len(queue[o])
               PROVE  queue[o][n].client \in Clients
      OBVIOUS
  <2>1. queue[o] \in Seq(Message)
    BY DEF Types, QueueOK
  <2>2. queue[o][n] \in Message
    BY <2>1
  <2> QED BY <2>2 DEF Message
<1>6. \A o \in Managers : \A n \in 1..Len(queue[o]) : queue[o][n].client # c
  BY DEF InFlight, Pending
<1>7. \A o \in Managers : writer[o].phase # "recv" =>
          writer[o].message.client \in Clients /\ writer[o].message.client # c
  BY DEF InFlight, Pending, Types, WriterOK, Message
<1> HIDE DEF m, N
<1>8. (\A d \in Clients : client[d].phase # "idle" => client[d].message.client = d)'
  BY <1>3 DEF InFlight
<1>9. ASSUME NEW o \in Managers, NEW n \in 1..Len(queue'[o])
      PROVE  /\ ManagerOf[queue'[o][n].client] = o
             /\ Pending(queue[o][n].client, queue[o][n])'
             /\ writer[o].phase # "recv" => queue'[o][n].client # writer[o].message.client
  <2>1. CASE o = m /\ n = N + 1
    BY <1>3, <1>4, <1>7, <2>1 DEF Pending, m
  <2>2. CASE ~ (o = m /\ n = N + 1)
    <3>1. n \in 1..Len(queue[o]) /\ queue'[o][n] = queue[o][n]
      BY <1>2, <1>3, <1>4, <2>2 DEF N
    <3> QED BY <1>3, <1>5, <1>6, <3>1 DEF InFlight, Pending
  <2> QED BY <2>1, <2>2
<1>10. ASSUME NEW o \in Managers, NEW a \in 1..Len(queue'[o]), NEW b \in 1..Len(queue'[o]),
              queue'[o][a].client = queue'[o][b].client
       PROVE  a = b
  <2>1. CASE o # m
    BY <1>3, <1>10, <2>1 DEF InFlight
  <2>2. CASE o = m
    <3>1. ASSUME NEW n \in 1..Len(queue'[m]), n # N + 1
          PROVE  n \in 1..N /\ queue'[m][n] = queue[m][n] /\ queue'[m][n].client # c
      BY <1>1, <1>2, <1>4, <1>6, <3>1 DEF N
    <3>2. queue'[m][N + 1].client = c
      BY <1>4
    <3>3. queue'[m][a].client = queue'[m][b].client /\ a \in 1..Len(queue'[m]) /\ b \in 1..Len(queue'[m])
      BY <1>10, <2>2
    <3>4. CASE a = N + 1
      BY <3>1, <3>2, <3>3, <3>4
    <3>5. CASE b = N + 1
      BY <3>1, <3>2, <3>3, <3>5
    <3>6. CASE a # N + 1 /\ b # N + 1
      <4>1. /\ a \in 1..N /\ queue'[m][a] = queue[m][a]
            /\ b \in 1..N /\ queue'[m][b] = queue[m][b]
        BY <3>1, <3>3, <3>6
      <4> QED BY <1>1, <3>3, <4>1 DEF InFlight, N
    <3> QED BY <3>4, <3>5, <3>6
  <2> QED BY <2>1, <2>2
<1>11. ASSUME NEW o \in Managers, writer[o].phase # "recv"
       PROVE  /\ ManagerOf[writer[o].message.client] = o
              /\ Pending(writer[o].message.client, writer[o].message)'
  BY <1>3, <1>7, <1>11 DEF InFlight, Pending
<1> QED BY <1>3, <1>8, <1>9, <1>10, <1>11 DEF InFlight

\* Every message in a queue names a caller, and so does a writer's.
LEMMA InFlightClients ==
    ASSUME Types
    PROVE  /\ \A m \in Managers : /\ queue[m] \in Seq(Message) /\ Len(queue[m]) \in Nat
                                  /\ \A n \in 1..Len(queue[m]) :
                                         queue[m][n] \in Message /\ queue[m][n].client \in Clients
           /\ \A m \in Managers : writer[m].phase # "recv" =>
                  writer[m].message \in Message /\ writer[m].message.client \in Clients
<1>1. ASSUME NEW m \in Managers
      PROVE  /\ queue[m] \in Seq(Message) /\ Len(queue[m]) \in Nat
             /\ \A n \in 1..Len(queue[m]) : queue[m][n] \in Message
  BY DEF Types, QueueOK
<1>2. \A x \in Message : x.client \in Clients
  BY DEF Message
<1> QED BY <1>1, <1>2 DEF Types, WriterOK

\* The messages in flight stay the ones of their waiting callers.
LEMMA NextInFlight == Types /\ InFlight /\ [Next]_vars => InFlight'
<1> SUFFICES ASSUME Types, InFlight, [Next]_vars PROVE InFlight'
    OBVIOUS
<1>1. ASSUME NEW c \in Clients, NEW key \in Keys, NEW template \in Templates,
             Submit(c, key, template)
      PROVE  InFlight'
  BY <1>1, SubmittedMessage, SendInFlight DEF Submit
<1>2. ASSUME NEW c \in Clients, Resubmit(c) PROVE InFlight'
  <2>1. client[c].message \in Message /\ client[c].message.client = c
    BY <1>2 DEF Resubmit, Types, ClientOK, InFlight
  <2> QED BY <1>2, <2>1, SendInFlight DEF Resubmit
<1>3. ASSUME NEW m \in Managers, LookUp(m) \/ LookUpFails(m) PROVE InFlight'
  <2> DEFINE N == Len(queue[m])
  <2>1. queue[m] \in Seq(Message) /\ N \in Nat /\ N > 0
    BY <1>3, InFlightClients DEF LookUp, LookUpFails
  <2>2. /\ Head(queue[m]) = queue[m][1]
        /\ Len(Tail(queue[m])) = N - 1
        /\ \A n \in 1..(N - 1) : Tail(queue[m])[n] = queue[m][n + 1]
    BY <2>1
  <2>3. /\ queue' = [queue EXCEPT ![m] = Tail(queue[m])]
        /\ client' = client
        /\ \A o \in Managers : o # m => writer'[o] = writer[o]
        /\ writer'[m].message = Head(queue[m])
    BY <1>3 DEF LookUp, LookUpFails, Found, Types, WriterOK, Answering
  <2>4. /\ \A o \in Managers : o # m => queue'[o] = queue[o]
        /\ queue'[m] = Tail(queue[m])
    BY <2>3 DEF Types, QueueOK
  <2>8. /\ Len(queue'[m]) = N - 1
        /\ \A n \in 1..(N - 1) : queue'[m][n] = queue[m][n + 1]
    BY <2>2, <2>4
  <2> HIDE DEF N
  <2>5. ASSUME NEW o \in Managers, NEW n \in 1..Len(queue'[o])
        PROVE  /\ ManagerOf[queue'[o][n].client] = o
               /\ Pending(queue[o][n].client, queue[o][n])'
               /\ writer'[o].phase # "recv" => queue'[o][n].client # writer'[o].message.client
    <3>1. CASE o # m
      BY <2>3, <2>4, <3>1 DEF InFlight, Pending
    <3>2. CASE o = m
      <4>1. n \in 1..(N - 1) /\ n + 1 \in 1..N /\ 1 \in 1..N /\ n + 1 # 1
        BY <2>1, <2>8, <3>2
      <4>2. queue'[m][n] = queue[m][n + 1] /\ writer'[m].message = queue[m][1]
        BY <2>2, <2>3, <2>8, <4>1
      <4> QED BY <2>3, <3>2, <4>1, <4>2 DEF InFlight, Pending, N
    <3> QED BY <3>1, <3>2
  <2>6. ASSUME NEW o \in Managers, NEW a \in 1..Len(queue'[o]), NEW b \in 1..Len(queue'[o]),
               queue'[o][a].client = queue'[o][b].client
        PROVE  a = b
    <3>1. CASE o # m
      BY <2>4, <2>6, <3>1 DEF InFlight
    <3>2. CASE o = m
      <4>1. /\ a \in 1..(N - 1) /\ b \in 1..(N - 1) /\ a + 1 \in 1..N /\ b + 1 \in 1..N
        BY <2>1, <2>8, <3>2
      <4>2. queue[m][a + 1].client = queue[m][b + 1].client
        BY <2>6, <2>8, <3>2, <4>1
      <4>3. a + 1 = b + 1
        BY <4>1, <4>2 DEF InFlight, N
      <4> QED BY <4>1, <4>3
    <3> QED BY <3>1, <3>2
  <2>7. ASSUME NEW o \in Managers, writer'[o].phase # "recv"
        PROVE  /\ ManagerOf[writer'[o].message.client] = o
               /\ Pending(writer[o].message.client, writer[o].message)'
    <3>1. CASE o # m
      BY <2>3, <2>7, <3>1 DEF InFlight, Pending
    <3>2. CASE o = m
      <4>1. 1 \in 1..N
        BY <2>1
      <4> QED BY <2>2, <2>3, <3>2, <4>1 DEF InFlight, Pending, N
    <3> QED BY <3>1, <3>2
  <2>9. (\A c \in Clients : client[c].phase # "idle" => client[c].message.client = c)'
    BY <2>3 DEF InFlight
  <2> QED BY <2>5, <2>6, <2>7, <2>9 DEF InFlight
<1>4. ASSUME NEW m \in Managers, NEW answer,
             writer[m].phase = "transaction",
             writer' = [writer EXCEPT ![m] = Answering(writer[m].message, answer)],
             UNCHANGED <<queue, client>>
      PROVE  InFlight'
  <2>1. \A o \in Managers : /\ writer'[o].message = writer[o].message
                            /\ writer'[o].phase # "recv" => writer[o].phase # "recv"
    BY <1>4 DEF Types, WriterOK, Answering
  <2> QED BY <1>4, <2>1 DEF InFlight, Pending
<1>5. ASSUME NEW m \in Managers, Respond(m) PROVE InFlight'
  <2> DEFINE c == writer[m].message.client
  <2>1. c \in Clients /\ ManagerOf[c] = m
    BY <1>5, InFlightClients DEF Respond, InFlight
  <2>2. /\ client'[c].phase = "idle"
        /\ \A d \in Clients : d # c => client'[d] = client[d]
        /\ writer'[m].phase = "recv"
        /\ \A o \in Managers : o # m => writer'[o] = writer[o]
        /\ queue' = queue
    BY <1>5, <2>1 DEF Respond, Types, ClientOK, WriterOK, Waiting
  <2> HIDE DEF c
  <2>3. \A o \in Managers : \A n \in 1..Len(queue[o]) : queue[o][n].client # c
    BY <1>5, <2>1 DEF InFlight, Respond, c
  <2>4. \A o \in Managers : o # m /\ writer[o].phase # "recv" => writer[o].message.client # c
    BY <2>1 DEF InFlight
  <2> QED BY <2>2, <2>3, <2>4, InFlightClients DEF InFlight, Pending
<1>6. ASSUME NEW m \in Managers, Restart(m) PROVE InFlight'
  <2>1. /\ \A o \in Managers : o # m => queue'[o] = queue[o] /\ writer'[o] = writer[o]
        /\ queue'[m] = <<>> /\ writer'[m].phase = "recv"
        /\ \A d \in Clients : ManagerOf[d] # m => client'[d] = client[d]
        /\ \A d \in Clients : /\ client'[d].message = client[d].message
                              /\ client'[d].phase # "idle" => client[d].phase # "idle"
    BY <1>6 DEF Restart, Types, QueueOK, WriterOK, ClientOK, Waiting
  <2>2. (\A c \in Clients : client[c].phase # "idle" => client[c].message.client = c)'
    <3>1. \A c \in Clients : client[c].phase # "idle" => client[c].message.client = c
      BY DEF InFlight
    <3> QED BY <2>1, <3>1
  <2>3. ASSUME NEW o \in Managers, o # m, NEW x \in Clients, ManagerOf[x] = o
        PROVE  client'[x] = client[x]
    BY <2>1, <2>3
  <2>4. ASSUME NEW o \in Managers, NEW n \in 1..Len(queue'[o])
        PROVE  /\ ManagerOf[queue'[o][n].client] = o
               /\ Pending(queue[o][n].client, queue[o][n])'
               /\ writer'[o].phase # "recv" => queue'[o][n].client # writer'[o].message.client
    <3>1. o # m
      BY <2>1
    <3> QED BY <2>1, <2>3, <3>1, InFlightClients DEF InFlight, Pending
  <2>5. ASSUME NEW o \in Managers, NEW a \in 1..Len(queue'[o]), NEW b \in 1..Len(queue'[o]),
               queue'[o][a].client = queue'[o][b].client
        PROVE  a = b
    <3>1. o # m
      BY <2>1
    <3> QED BY <2>1, <2>5, <3>1 DEF InFlight
  <2>6. ASSUME NEW o \in Managers, writer'[o].phase # "recv"
        PROVE  /\ ManagerOf[writer'[o].message.client] = o
               /\ Pending(writer[o].message.client, writer[o].message)'
    <3>1. o # m
      BY <2>1, <2>6
    <3> QED BY <2>1, <2>3, <2>6, <3>1, InFlightClients DEF InFlight, Pending
  <2> QED BY <2>2, <2>4, <2>5, <2>6 DEF InFlight
<1>7. CASE UNCHANGED <<queue, writer, client>>
  BY <1>7 DEF InFlight, Pending
<1> QED
  BY Zenon, <1>1, <1>2, <1>3, <1>4, <1>5, <1>6, <1>7
     DEF Next, ClientStep, WriterStep, Read, Fail, Reject, Collide, Refuse, Commit, vars

-----------------------------------------------------------------------------
(* Lost updates.                                                           *)

\* A caller reads only while it has no message, so the revisions it sent stay
\* the ones it last read.
LEMMA NextReadsKept == Types /\ InFlight /\ ReadsKept /\ [Next]_vars => ReadsKept'
<1> SUFFICES ASSUME Types, InFlight, ReadsKept, [Next]_vars PROVE ReadsKept'
    OBVIOUS
<1> DEFINE Kept(c) ==
        client[c].phase # "idle" =>
            \A i \in DOMAIN client[c].message.commands :
                client[c].message.commands[i].expected.policy = "exact" =>
                    client[c].message.commands[i].expected.revision = seen[c][i].revision
<1>0. \A c \in Clients : Kept(c)
  BY DEF ReadsKept
<1>1. ASSUME NEW c \in Clients, NEW i \in Ids, Read(c, i) PROVE ReadsKept'
  <2>1. client' = client /\ client[c].phase = "idle"
        /\ \A d \in Clients : d # c => seen'[d] = seen[d]
    BY <1>1 DEF Read, Types, SeenOK
  <2> QED BY <1>0, <2>1 DEF ReadsKept
<1>2. ASSUME NEW c \in Clients, NEW key \in Keys, NEW template \in Templates,
             Submit(c, key, template)
      PROVE  ReadsKept'
  <2> DEFINE commands == [i \in DOMAIN template |-> CommandFor(c, i, template[i])]
  <2>1. /\ client'[c] = [phase |-> "waiting",
                         message |-> [client |-> c, key |-> key, commands |-> commands]]
        /\ \A d \in Clients : d # c => client'[d] = client[d]
        /\ seen' = seen
    BY <1>2 DEF Submit, Send, Types, ClientOK
  <2>2. \A i \in DOMAIN commands : commands[i].expected.policy = "exact" =>
            commands[i].expected.revision = seen[c][i].revision
    BY DEF CommandFor
  <2> HIDE DEF commands
  <2>3. Kept(c)'
    BY <2>1, <2>2
  <2> QED BY <1>0, <2>1, <2>3 DEF ReadsKept
<1>3. ASSUME NEW c \in Clients, Resubmit(c) PROVE ReadsKept'
  <2>1. /\ client'[c].message = client[c].message /\ client[c].phase # "idle"
        /\ \A d \in Clients : d # c => client'[d] = client[d]
        /\ seen' = seen
    BY <1>3 DEF Resubmit, Send, Types, ClientOK
  <2> QED BY <1>0, <2>1 DEF ReadsKept
<1>4. ASSUME NEW m \in Managers, Respond(m) PROVE ReadsKept'
  <2>1. writer[m].message.client \in Clients
    BY <1>4, InFlightClients DEF Respond
  <2>2. /\ client'[writer[m].message.client].phase = "idle"
        /\ \A d \in Clients : d # writer[m].message.client => client'[d] = client[d]
        /\ seen' = seen
    BY <1>4, <2>1 DEF Respond, Types, ClientOK
  <2> QED BY <1>0, <2>2 DEF ReadsKept
<1>5. ASSUME NEW m \in Managers, Restart(m) PROVE ReadsKept'
  <2>1. /\ \A d \in Clients : client'[d].message = client[d].message
        /\ \A d \in Clients : client'[d].phase # "idle" => client[d].phase # "idle"
        /\ seen' = seen
    BY <1>5 DEF Restart, Types, ClientOK
  <2> QED BY <1>0, <2>1 DEF ReadsKept
<1>6. CASE UNCHANGED <<client, seen>>
  BY <1>6 DEF ReadsKept
<1> QED
  BY Zenon, <1>1, <1>2, <1>3, <1>4, <1>5, <1>6
     DEF Next, ClientStep, WriterStep, LookUp, LookUpFails, Fail, Reject, Collide, Refuse,
         Commit, vars

\* What a commit changes: the targets of its transaction, whose conditions it
\* found true of the revisions its caller read.
LEMMA CommitEffect ==
    ASSUME Types, InFlight, ReadsKept, NEW m \in Managers, Commit(m)
    PROVE  LET commands == writer[m].message.commands
               c == writer[m].message.client
           IN  /\ c \in Clients /\ DOMAIN commands \subseteq Ids
               /\ \A i \in DOMAIN commands :
                      commands[i].expected.policy = "exact" =>
                          records[i].revision = seen[c][i].revision
               /\ \A i \in Ids : i \notin DOMAIN commands => records'[i] = records[i]
               /\ \A i \in DOMAIN commands : commands[i].op # "delete" =>
                      records'[i].revision = records[i].revision + 1
<1> DEFINE commands == writer[m].message.commands
           c == writer[m].message.client
<1>1. /\ writer[m].phase = "transaction"
      /\ TransactionHolds(commands, records)
      /\ records' = After(commands, records)
  BY DEF Commit, Apply
<1>2. writer[m].message \in Message /\ c \in Clients
  BY <1>1, InFlightClients
<1>3. commands \in Transactions
  BY <1>2 DEF Message
<1>4. DOMAIN commands \subseteq Ids
  BY <1>3 DEF Transactions
<1>5. client[c].phase # "idle" /\ client[c].message = writer[m].message
  BY <1>1 DEF InFlight, Pending
<1>6. ASSUME NEW i \in DOMAIN commands, commands[i].expected.policy = "exact"
      PROVE  records[i].revision = seen[c][i].revision
  <2>1. commands[i].expected.revision = seen[c][i].revision
    BY <1>2, <1>5, <1>6 DEF ReadsKept
  <2>2. commands[i].expected.revision = records[i].revision
    BY <1>1, <1>6 DEF TransactionHolds, CommandHolds, RevisionHolds
  <2> QED BY <2>1, <2>2
<1>7. \A i \in Ids : i \notin DOMAIN commands => records'[i] = records[i]
  BY <1>1 DEF After
<1>8. \A i \in DOMAIN commands : commands[i].op # "delete" =>
          records'[i].revision = records[i].revision + 1
  BY <1>1, <1>4 DEF After, CommandResult
<1> QED BY <1>2, <1>4, <1>6, <1>7, <1>8

\* A record that is not deleted only moves to larger revisions.
LEMMA NextRevisionsGrow ==
    Types /\ InFlight /\ ReadsKept /\ RevisionsGrow /\ [Next]_vars => RevisionsGrow'
<1> SUFFICES ASSUME Types, InFlight, ReadsKept, RevisionsGrow, [Next]_vars
             PROVE  RevisionsGrow'
    OBVIOUS
<1>0. /\ log \in Seq(Entry) /\ Len(log) \in Nat
      /\ \A i \in Ids : records[i].revision \in Nat
      /\ \A c \in Clients, i \in Ids : seen[c][i].at \in Nat /\ seen[c][i].revision \in Nat
  BY RevisionAssumption DEF Types, LogOK, StoreOK, StoredRecord, Absent, SeenOK, Snapshot
<1>1. ASSUME NEW m \in Managers, Commit(m) PROVE RevisionsGrow'
  <2> DEFINE commands == writer[m].message.commands
             N == Len(log)
  <2>1. /\ N \in Nat /\ Len(log') = N + 1 /\ seen' = seen
        /\ \A n \in 1..N : log'[n] = log[n]
        /\ log'[N + 1].commands = commands
    BY <1>1, CommitLog DEF Commit
  <2>2. /\ \A i \in Ids : i \notin DOMAIN commands => records'[i] = records[i]
        /\ \A i \in DOMAIN commands : commands[i].op # "delete" =>
               records'[i].revision = records[i].revision + 1
    BY <1>1, CommitEffect
  <2> SUFFICES ASSUME NEW c \in Clients, NEW i \in Ids
               PROVE  LET since == (seen[c][i].at + 1)..(N + 1) IN
                      /\ seen[c][i].at <= N + 1
                      /\ (\A k \in since : ~ (Deletes(k, i)')) =>
                             /\ records'[i].revision >= seen[c][i].revision
                             /\ (\E k \in since : Changes(k, i)') =>
                                    records'[i].revision > seen[c][i].revision
      BY <2>1 DEF RevisionsGrow
  <2> HIDE DEF commands, N
  <2>3. seen[c][i].at <= N
    BY DEF RevisionsGrow, N
  <2>4. /\ (N + 1) \in (seen[c][i].at + 1)..(N + 1)
        /\ \A k \in (seen[c][i].at + 1)..N :
               k \in (seen[c][i].at + 1)..(N + 1) /\ k \in 1..N
        /\ \A k \in (seen[c][i].at + 1)..(N + 1) :
               k = N + 1 \/ k \in (seen[c][i].at + 1)..N
    BY <1>0, <2>1, <2>3
  <2>5. \A k \in 1..N : (Changes(k, i)' <=> Changes(k, i)) /\ (Deletes(k, i)' <=> Deletes(k, i))
    BY <2>1 DEF Changes, Deletes
  <2>6. ASSUME NEW k, k = N + 1
        PROVE  /\ Changes(k, i)' <=> i \in DOMAIN commands
               /\ Deletes(k, i)' <=> i \in DOMAIN commands /\ commands[i].op = "delete"
    BY <2>1, <2>6 DEF Changes, Deletes
  <2>7. /\ records[i].revision \in Nat /\ seen[c][i].revision \in Nat
        /\ (\A k \in (seen[c][i].at + 1)..N : ~ Deletes(k, i)) =>
               /\ records[i].revision >= seen[c][i].revision
               /\ (\E k \in (seen[c][i].at + 1)..N : Changes(k, i)) =>
                      records[i].revision > seen[c][i].revision
    BY <1>0 DEF RevisionsGrow, N
  <2>8. CASE \A k \in (seen[c][i].at + 1)..(N + 1) : ~ (Deletes(k, i)')
    <3>1. \A k \in (seen[c][i].at + 1)..N : ~ Deletes(k, i)
      BY <2>4, <2>5, <2>8
    <3>2. CASE i \in DOMAIN commands
      <4>1. records'[i].revision = records[i].revision + 1
        BY <2>2, <2>4, <2>6, <2>8, <3>2
      <4> QED BY <2>1, <2>3, <2>7, <3>1, <4>1, <1>0
    <3>3. CASE i \notin DOMAIN commands
      <4>1. (\E k \in (seen[c][i].at + 1)..(N + 1) : Changes(k, i)') =>
                \E k \in (seen[c][i].at + 1)..N : Changes(k, i)
        BY <2>4, <2>5, <2>6, <3>3
      <4>2. records'[i].revision = records[i].revision
        BY <2>2, <3>3
      <4> QED BY <1>0, <2>1, <2>3, <2>7, <3>1, <4>1, <4>2
    <3> QED BY <3>2, <3>3
  <2> QED BY <1>0, <2>1, <2>3, <2>8
<1>2. ASSUME NEW c \in Clients, NEW i \in Ids, Read(c, i) PROVE RevisionsGrow'
  <2>1. /\ records' = records /\ log' = log
        /\ seen'[c][i] = [revision |-> records[i].revision, at |-> Len(log)]
        /\ \A d \in Clients, j \in Ids : d # c \/ j # i => seen'[d][j] = seen[d][j]
    BY <1>2 DEF Read, Types, SeenOK, Snapshot
  <2> SUFFICES ASSUME NEW d \in Clients, NEW j \in Ids
               PROVE  LET since == (seen'[d][j].at + 1)..Len(log) IN
                      /\ seen'[d][j].at <= Len(log)
                      /\ (\A k \in since : ~ Deletes(k, j)) =>
                             /\ records[j].revision >= seen'[d][j].revision
                             /\ (\E k \in since : Changes(k, j)) =>
                                    records[j].revision > seen'[d][j].revision
      BY <2>1 DEF RevisionsGrow, Deletes, Changes
  <2>2. CASE d = c /\ j = i
    <3>1. (Len(log) + 1)..Len(log) = {}
      BY <1>0
    <3> QED BY <1>0, <2>1, <2>2, <3>1
  <2>3. CASE d # c \/ j # i
    BY <2>1, <2>3 DEF RevisionsGrow
  <2> QED BY <2>2, <2>3
<1>3. CASE UNCHANGED <<records, seen, log>>
  BY <1>3 DEF RevisionsGrow, Deletes, Changes
<1> QED
  BY Zenon, <1>1, <1>2, <1>3
     DEF Next, ClientStep, WriterStep, Submit, Resubmit, Send, LookUp, LookUpFails, Fail, Reject,
         Collide, Refuse, Respond, Restart, vars

\* A commit whose exact condition holds found the record as its caller read it,
\* or found one that was deleted and created again in between.
LEMMA NextNoLostUpdate ==
    Types /\ InFlight /\ ReadsKept /\ RevisionsGrow /\ NoLostUpdate /\ [Next]_vars
        => NoLostUpdate'
<1> SUFFICES ASSUME Types, InFlight, ReadsKept, RevisionsGrow, NoLostUpdate, [Next]_vars
             PROVE  NoLostUpdate'
    OBVIOUS
<1>1. ASSUME NEW m \in Managers, Commit(m) PROVE NoLostUpdate'
  <2> DEFINE commands == writer[m].message.commands
             c == writer[m].message.client
             N == Len(log)
  <2>1. /\ N \in Nat /\ Len(log') = N + 1
        /\ \A n \in 1..N : log'[n] = log[n]
        /\ log'[N + 1].commands = commands /\ log'[N + 1].read = seen[c]
    <3>1. /\ N \in Nat /\ Len(log') = N + 1
          /\ \A n \in 1..N : log'[n] = log[n]
          /\ log'[N + 1] = [key |-> writer[m].message.key, commands |-> commands,
                            commits |-> Commits(commands, records), read |-> seen[c]]
      BY <1>1, CommitLog
    <3> QED BY <3>1
  <2>2. /\ c \in Clients /\ DOMAIN commands \subseteq Ids
        /\ \A i \in DOMAIN commands : commands[i].expected.policy = "exact" =>
               records[i].revision = seen[c][i].revision
    BY <1>1, CommitEffect
  <2>3. \A i \in Ids : /\ records[i].revision \in Nat
                       /\ seen[c][i].at \in Nat /\ seen[c][i].revision \in Nat
    BY <2>2, RevisionAssumption DEF Types, StoreOK, StoredRecord, Absent, SeenOK, Snapshot
  <2> HIDE DEF commands, c, N
  <2>4. \A n \in 1..N : log[n].read \in Snapshot /\ DOMAIN log[n].commands \subseteq Ids
    <3> SUFFICES ASSUME NEW n \in 1..N
                 PROVE  log[n].read \in Snapshot /\ DOMAIN log[n].commands \subseteq Ids
        OBVIOUS
    <3>1. log[n] \in Entry
      BY DEF Types, LogOK, N
    <3>2. log[n].commands \in Transactions /\ log[n].read \in Snapshot
      BY <3>1 DEF Entry
    <3> QED BY <3>2 DEF Transactions
  <2>5. \A k \in 1..N, i \in Ids :
            (Changes(k, i)' <=> Changes(k, i)) /\ (Deletes(k, i)' <=> Deletes(k, i))
    BY <2>1 DEF Changes, Deletes
  <2> SUFFICES ASSUME NEW n \in 1..(N + 1), NEW i \in DOMAIN log'[n].commands,
                      log'[n].commands[i].expected.policy = "exact",
                      NEW k \in (log'[n].read[i].at + 1)..(n - 1), Changes(k, i)'
               PROVE  \E o \in (log'[n].read[i].at + 1)..(n - 1) : Deletes(o, i)'
      BY <2>1 DEF NoLostUpdate
  <2>6. CASE n \in 1..N
    <3>1. log'[n] = log[n] /\ i \in Ids /\ log[n].read[i].at \in Nat
      BY <2>1, <2>4, <2>6 DEF Snapshot
    <3>2. \A o \in (log[n].read[i].at + 1)..(n - 1) : o \in 1..N
      BY <2>1, <2>6, <3>1
    <3>3. \E o \in (log[n].read[i].at + 1)..(n - 1) : Deletes(o, i)
      BY <2>5, <2>6, <3>1, <3>2 DEF NoLostUpdate, N
    <3> QED BY <2>5, <3>1, <3>2, <3>3
  <2>7. CASE n = N + 1
    <3>1. /\ i \in DOMAIN commands /\ i \in Ids
          /\ log'[n].read[i].at = seen[c][i].at
          /\ records[i].revision = seen[c][i].revision
      BY <2>1, <2>2, <2>7
    <3>2. (log'[n].read[i].at + 1)..(n - 1) = (seen[c][i].at + 1)..N
      BY <2>1, <2>3, <2>7, <3>1
    <3>3. \A o \in (seen[c][i].at + 1)..N : o \in 1..N
      BY <2>1, <2>3, <3>1
    <3>4. \E o \in (seen[c][i].at + 1)..N : Changes(o, i)
      BY Zenon, <2>5, <3>1, <3>2, <3>3
    <3>5. \E o \in (seen[c][i].at + 1)..N : Deletes(o, i)
      BY <2>2, <2>3, <3>1, <3>4 DEF RevisionsGrow, N
    <3> QED BY Zenon, <2>5, <3>1, <3>2, <3>3, <3>5
  <2> QED BY <2>1, <2>6, <2>7
<1>2. CASE UNCHANGED log
  BY <1>2 DEF NoLostUpdate, Deletes, Changes
<1> QED BY <1>1, <1>2, OnlyCommitLogs

\* Initially no message is in flight and nothing was read or committed.
LEMMA InitReads == Init => InFlight /\ ReadsKept /\ RevisionsGrow /\ NoLostUpdate
<1> SUFFICES ASSUME Init PROVE InFlight /\ ReadsKept /\ RevisionsGrow /\ NoLostUpdate
    OBVIOUS
<1>1. Len(log) = 0 /\ \A m \in Managers : Len(queue[m]) = 0
  BY DEF Init
<1>2. InFlight /\ ReadsKept
  <2>1. /\ \A c \in Clients : client[c].phase = "idle"
        /\ \A m \in Managers : writer[m].phase = "recv"
    BY DEF Init, Waiting
  <2>2. \A m \in Managers : 1..Len(queue[m]) = {}
    BY <1>1
  <2> QED BY <2>1, <2>2 DEF InFlight, ReadsKept
<1>3. RevisionsGrow
  <2>1. \A c \in Clients, i \in Ids : /\ seen[c][i].at = 0 /\ seen[c][i].revision = 0
                                      /\ records[i].revision = 0
    BY Zenon DEF Init, StoreInit, Absent
  <2>2. 1..0 = {}
    OBVIOUS
  <2> QED BY <1>1, <2>1, <2>2 DEF RevisionsGrow
<1>4. NoLostUpdate
  BY <1>1 DEF NoLostUpdate
<1> QED BY <1>2, <1>3, <1>4

\* No exact-revision write overwrites a change its caller has not seen, unless
\* the record was deleted in between (require_revision, save_record).
THEOREM NoUpdateLost == Spec => []NoLostUpdate
BY InitTypes, NextTypes, InitReads, NextInFlight, NextReadsKept, NextRevisionsGrow,
   NextNoLostUpdate, PTL DEF Spec
==============================================================================
