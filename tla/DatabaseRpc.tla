---------------------------- MODULE DatabaseRpc -----------------------------
(***************************************************************************)
(* How a check of the rule engine is carried out: a client takes the rule  *)
(* engine's semaphore and sends the database server one request after      *)
(* another (rule_engine.h, database_queries.h); the server takes them from *)
(* a message queue, works on its arrays, and puts each answer, typed with  *)
(* the pid of the request, into a second queue (database_server.c,         *)
(* database_helper_functions.h).  RuleEngine is what the checks promise.   *)
(*                                                                         *)
(* A client is a thread of the process PidOf[c].  What it does next is a   *)
(* function of the check it makes (job) and of the answers so far (got),   *)
(* as the local variables of the C functions are.  Indices start at 1, so  *)
(* 0 stands for the answer -1.  Operations go by the names of              *)
(* database_macros.h without _OP.  The host, user and group tables do not  *)
(* change once clients run.                                                *)
(*                                                                         *)
(* The model ends when the server stops; SecureProcesses says what becomes *)
(* of the clients then.  No pid is used again here.                        *)
(***************************************************************************)
EXTENDS LabelInference, Integers, SequencesExt

CONSTANTS Pids, Files, InitProc, FileStat,
          Clients,
          Shells,              \* the clients that no monitored fork created
          PidOf,               \* the process that a client is a thread of
          UserMaps,            \* who the users of the first processes may be
          Mortal               \* the clients that may die within a check

ASSUME RpcAssumption == /\ FileStat \in [Files -> StatRecord]
                        /\ InitProc \notin Pids
                        /\ Shells \subseteq Clients
                        /\ PidOf \in [Clients -> Pids]
                        /\ UserMaps \subseteq [Pids -> Users]
                        /\ Mortal \subseteq Clients

VARIABLES all_subject_ids, all_subjects, all_object_ids, all_objects,
          server,              \* "up" or "stopped"
          semaphore,           \* the value of RULE_ENGINE_SEMAPHORE
          requests, responses, \* the two message queues
          uid,                 \* the user of each pid
          pc, job, got         \* per client: where, which check, the answers

tables == <<all_subject_ids, all_subjects, all_object_ids, all_objects>>
queues == <<requests, responses>>
clients == <<uid, pc, job, got>>
vars == <<tables, server, semaphore, queues, clients>>

Host == 1                      \* the one row of all_hosts

-----------------------------------------------------------------------------
(* The requests of each check, in order *)

Ask(op, args) == [op |-> op, args |-> args]
Done == Ask("done", <<>>)

\* Mutant of ForkRequest: the child of a known parent gets an id but no row.
ForkRequest_NoRow(self, parent, g) ==
  CASE Len(g) = 2 -> Ask("GET_SUBJECT_ID_INDEX", <<g[2], self[1], parent>>)
    [] Len(g) = 3 -> Ask("ADD_SUBJECT_ID", <<g[2], self[1], self[2]>>)
    [] Len(g) = 4 /\ g[3] = 0 -> Ask("GET_USER_ID_INDEX", self[1])
    [] Len(g) = 5 /\ g[3] = 0 -> Ask("GET_NUMBER_OF_USERS", <<>>)
    [] Len(g) = 6 /\ g[3] = 0 ->
         Ask("ADD_SUBJECT", <<g[4], [owner |-> g[5], readers |-> g[6], writers |-> {g[5]}]>>)
    [] Len(g) = 4 /\ g[3] # 0 -> Ask("COPY_SUBJECT_FDS", <<g[3], g[4]>>)
    [] OTHER -> Done

ForkRequest(self, parent, g) ==
  CASE Len(g) = 2 -> Ask("GET_SUBJECT_ID_INDEX", <<g[2], self[1], parent>>)
    [] Len(g) = 3 -> Ask("ADD_SUBJECT_ID", <<g[2], self[1], self[2]>>)
    [] Len(g) = 4 /\ g[3] = 0 -> Ask("GET_USER_ID_INDEX", self[1])
    [] Len(g) = 5 /\ g[3] = 0 -> Ask("GET_NUMBER_OF_USERS", <<>>)
    [] Len(g) = 6 /\ g[3] = 0 ->
         Ask("ADD_SUBJECT", <<g[4], [owner |-> g[5], readers |-> g[6], writers |-> {g[5]}]>>)
    [] Len(g) = 4 /\ g[3] # 0 -> Ask("GET_SUBJECT", g[3])
    [] Len(g) = 5 /\ g[3] # 0 -> Ask("ADD_SUBJECT", <<g[4], g[5]>>)
    [] Len(g) = 6 /\ g[3] # 0 -> Ask("COPY_SUBJECT_FDS", <<g[3], g[4]>>)
    [] OTHER -> Done

\* The row that file_open_check adds, from the answers of infer_file_labels.
OpenedRow(f, g) ==
  LET label == infer_file_labels([uid |-> g[6],
                                  members |-> IF Len(g) < 8 THEN {} ELSE g[8],
                                  mode |-> FileStat[f].mode])
  IN  [owner |-> g[5], readers |-> label.readers, writers |-> label.writers]

OpenRequest(f, g) ==
  CASE Len(g) = 2 -> Ask("GET_OBJECT_ID_INDEX", <<g[2], f>>)
    [] Len(g) = 3 /\ g[3] = 0 -> Ask("ADD_OBJECT_ID", <<g[2], f>>)
    [] Len(g) \in {4, 5} -> Ask("GET_USER_ID_INDEX", FileStat[f].uid)
    [] Len(g) = 6 /\ g[6] # NoUser -> Ask("GET_GROUP_ID_INDEX", FileStat[f].members)
    [] Len(g) = 7 /\ g[6] # NoUser -> Ask("GET_MEMBERS_FROM_GROUP_ID", g[7])
    [] Len(g) = 8 -> Ask("GET_NUMBER_OF_USERS", <<>>)
    [] Len(g) = 9 \/ (Len(g) = 6 /\ g[6] = NoUser) ->
         Ask("ADD_OBJECT", <<g[4], OpenedRow(f, g)>>)
    [] OTHER -> Done

\* What file_read_check and file_write_check have in common.
FileRequest(self, f, g) ==
  CASE Len(g) = 2 -> Ask("GET_SUBJECT_ID_INDEX", <<g[2], self[1], self[2]>>)
    [] Len(g) = 3 -> Ask("GET_OBJECT_ID_INDEX", <<g[2], f>>)
    [] Len(g) = 4 /\ g[4] # 0 -> Ask("GET_SUBJECT", g[3])
    [] Len(g) = 5 -> Ask("GET_OBJECT", g[4])
    [] OTHER -> Done

ReadRequest(self, f, g) ==
  IF Len(g) = 6 /\ g[5].owner \in g[6].readers
    THEN Ask("UPDATE_SUBJECT_LABEL", <<g[3], Raise(g[5], g[6])>>)
    ELSE FileRequest(self, f, g)

\* Mutant of KillRequest: the label of the sender is raised, not the peer's.
KillRequest_RaisesSender(self, peer, g) ==
  CASE Len(g) = 2 -> Ask("GET_SUBJECT_ID_INDEX", <<g[2], self[1], self[2]>>)
    [] Len(g) = 3 -> Ask("GET_SUBJECT", g[3])
    [] Len(g) = 4 -> Ask("GET_SUBJECT_ID_INDEX", <<g[2], peer[1], peer[2]>>)
    [] Len(g) = 5 -> Ask("GET_SUBJECT", g[5])
    [] Len(g) = 6 /\ g[6].owner \in g[4].readers ->
         Ask("UPDATE_SUBJECT_LABEL", <<g[3], Raise(g[6], g[4])>>)
    [] OTHER -> Done

KillRequest(self, peer, g) ==
  CASE Len(g) = 2 -> Ask("GET_SUBJECT_ID_INDEX", <<g[2], self[1], self[2]>>)
    [] Len(g) = 3 -> Ask("GET_SUBJECT", g[3])
    [] Len(g) = 4 -> Ask("GET_SUBJECT_ID_INDEX", <<g[2], peer[1], peer[2]>>)
    [] Len(g) = 5 -> Ask("GET_SUBJECT", g[5])
    [] Len(g) = 6 /\ g[6].owner \in g[4].readers ->
         Ask("UPDATE_SUBJECT_LABEL", <<g[5], Raise(g[6], g[4])>>)
    [] OTHER -> Done

\* is_rwfm_enabled comes first, before the lock, and every check then starts
\* with get_host_index.
Request(j, g) ==
  CASE Len(g) = 0 -> Ask("IS_RWFM_ENABLED", <<>>)
    [] Len(g) = 1 -> Ask("GET_HOST_INDEX", <<>>)
    [] Len(g) > 1 /\ j.check = "fork"  -> ForkRequest(j.self, j.about, g)
    [] Len(g) > 1 /\ j.check = "open"  -> OpenRequest(j.about, g)
    [] Len(g) > 1 /\ j.check = "read"  -> ReadRequest(j.self, j.about, g)
    [] Len(g) > 1 /\ j.check = "write" -> FileRequest(j.self, j.about, g)
    [] Len(g) > 1 /\ j.check = "kill"  -> KillRequest(j.self, j.about, g)

\* What the check returns once it has nothing left to ask.
WriteAllowed(sub, obj) == sub.owner \in obj.writers /\ FlowsTo(sub, obj)

Result(j, g) ==
  CASE j.check \in {"fork", "open"} -> "allowed"
    [] j.check \in {"read", "write"} /\ Len(g) = 4 -> "error"
    [] j.check \in {"read", "kill"} /\ Len(g) > 4 ->
         IF Len(g) = 7 THEN "allowed" ELSE "denied"
    [] j.check = "write" /\ Len(g) > 4 ->
         IF WriteAllowed(g[5], g[6]) THEN "allowed" ELSE "denied"

-----------------------------------------------------------------------------
(* The arrays of the server *)

\* get_subject_id_index, get_object_id_index
IndexOf(ids, id) == SelectInSeq(ids, LAMBDA x : x = id)

\* get_subject_from_sub_id_index, get_object_from_obj_id_index
RowAt(rows, index) == SelectInSeq(rows, LAMBDA row : row.index = index)

\* add_subject_id, add_object_id
AddId(ids, id) == IF IndexOf(ids, id) = 0 THEN Append(ids, id) ELSE ids

\* add_subject, add_object
AddAt(rows, index, row) ==
  IF RowAt(rows, index) = 0
    THEN Append(rows, [index |-> index, owner |-> row.owner,
                       readers |-> row.readers, writers |-> row.writers])
    ELSE rows

\* What get_subject and get_object make of a row.
Fields(row) == [owner |-> row.owner, readers |-> row.readers, writers |-> row.writers]

-----------------------------------------------------------------------------
(* The server *)

Init ==
  /\ all_subject_ids = <<>> /\ all_subjects = <<>>
  /\ all_object_ids = <<>> /\ all_objects = <<>>
  /\ server = "up" /\ semaphore = 1
  /\ requests = <<>> /\ responses = <<>>
  /\ uid \in UserMaps
  /\ pc = [c \in Clients |-> IF c \in Shells THEN "idle" ELSE "born"]
  /\ job = [c \in Clients |-> [check |-> "none"]]
  /\ got = [c \in Clients |-> <<>>]

\* write_response; read_request took r off the queue.
Respond(r, val) ==
  /\ requests' = Tail(requests)
  /\ responses' = Append(responses, [pid |-> r.pid, op |-> r.op, val |-> val])
  /\ UNCHANGED <<server, semaphore, clients>>

\* Answers that change no table.
Looked(r) ==
  CASE r.op = "IS_RWFM_ENABLED"          -> 1
    [] r.op = "GET_HOST_INDEX"           -> Host
    [] r.op = "GET_USER_ID_INDEX"        -> IF r.args \in Users THEN r.args ELSE NoUser
    [] r.op = "GET_NUMBER_OF_USERS"      -> Users
    [] r.op = "GET_GROUP_ID_INDEX"       -> r.args
    [] r.op = "GET_MEMBERS_FROM_GROUP_ID" -> r.args
    [] r.op = "GET_SUBJECT_ID_INDEX"     -> IndexOf(all_subject_ids, r.args)
    [] r.op = "GET_OBJECT_ID_INDEX"      -> IndexOf(all_object_ids, r.args)
    [] r.op = "COPY_SUBJECT_FDS"         -> 0

LookUp(r) ==
  /\ r.op \in {"IS_RWFM_ENABLED", "GET_HOST_INDEX", "GET_USER_ID_INDEX",
               "GET_NUMBER_OF_USERS", "GET_GROUP_ID_INDEX",
               "GET_MEMBERS_FROM_GROUP_ID", "GET_SUBJECT_ID_INDEX",
               "GET_OBJECT_ID_INDEX", "COPY_SUBJECT_FDS"}
  /\ Respond(r, Looked(r))
  /\ UNCHANGED tables

AddSubjectId(r) ==
  /\ r.op = "ADD_SUBJECT_ID"
  /\ all_subject_ids' = AddId(all_subject_ids, r.args)
  /\ Respond(r, IndexOf(all_subject_ids', r.args))
  /\ UNCHANGED <<all_subjects, all_object_ids, all_objects>>

AddSubject(r) ==
  /\ r.op = "ADD_SUBJECT"
  /\ all_subjects' = AddAt(all_subjects, r.args[1], r.args[2])
  /\ Respond(r, RowAt(all_subjects', r.args[1]))
  /\ UNCHANGED <<all_subject_ids, all_object_ids, all_objects>>

AddObjectId(r) ==
  /\ r.op = "ADD_OBJECT_ID"
  /\ all_object_ids' = AddId(all_object_ids, r.args)
  /\ Respond(r, IndexOf(all_object_ids', r.args))
  /\ UNCHANGED <<all_subject_ids, all_subjects, all_objects>>

AddObject(r) ==
  /\ r.op = "ADD_OBJECT"
  /\ all_objects' = AddAt(all_objects, r.args[1], r.args[2])
  /\ Respond(r, RowAt(all_objects', r.args[1]))
  /\ UNCHANGED <<all_subject_ids, all_subjects, all_object_ids>>

UpdateSubjectLabel(r) ==
  /\ r.op = "UPDATE_SUBJECT_LABEL"
  /\ all_subjects' = [all_subjects EXCEPT
                        ![RowAt(all_subjects, r.args[1])].readers = r.args[2].readers,
                        ![RowAt(all_subjects, r.args[1])].writers = r.args[2].writers]
  /\ Respond(r, 1)
  /\ UNCHANGED <<all_subject_ids, all_object_ids, all_objects>>

\* get_subject and get_object; do_operation gives up, -2, when there is no row.
Fetch(r) ==
  /\ r.op \in {"GET_SUBJECT", "GET_OBJECT"}
  /\ LET rows == IF r.op = "GET_SUBJECT" THEN all_subjects ELSE all_objects
         i    == RowAt(rows, r.args)
     IN  IF i # 0 THEN Respond(r, Fields(rows[i]))
         ELSE /\ server' = "stopped"
              /\ responses' = <<>>            \* IPC_RMID
              /\ requests' = Tail(requests)
              /\ UNCHANGED <<semaphore, clients>>
  /\ UNCHANGED tables

Serve ==
  /\ requests # <<>>
  /\ LET r == Head(requests)
     IN  \/ LookUp(r) \/ AddSubjectId(r) \/ AddSubject(r) \/ AddObjectId(r)
         \/ AddObject(r) \/ UpdateSubjectLabel(r) \/ Fetch(r)

-----------------------------------------------------------------------------
(* The clients *)

Answers(c) == [i \in DOMAIN got[c] |-> got[c][i].val]

Self(c) == <<uid[PidOf[c]], PidOf[c]>>

(***************************************************************************)
(* The checks that a client may begin: one just born registers itself      *)
(* under its parent, later the program calls wrappers as it likes.  The    *)
(* peer of a kill is a live process.                                       *)
(***************************************************************************)
Births(c) ==
  [check : {"fork"}, self : {Self(c)}, about : (Pids \ {PidOf[c]}) \cup {InitProc}]
Calls(c, peers) ==
  [check : {"open", "read", "write"}, self : {Self(c)}, about : Files]
    \cup [check : {"kill"}, self : {Self(c)}, about : {Self(d) : d \in peers}]

Begin(c) ==
  /\ pc[c] \in {"born", "idle"}
  /\ \E j \in IF pc[c] = "born" THEN Births(c)
              ELSE Calls(c, {d \in Clients : pc[d] # "dead"}) :
       job' = [job EXCEPT ![c] = j]
  /\ pc' = [pc EXCEPT ![c] = "send"]
  /\ UNCHANGED <<tables, server, semaphore, queues, got, uid>>

\* write_request
Send(c) ==
  LET r == Request(job[c], Answers(c))
  IN  /\ pc[c] = "send" /\ r # Done
      /\ requests' = Append(requests, [pid |-> PidOf[c], op |-> r.op, args |-> r.args])
      /\ pc' = [pc EXCEPT ![c] = "receive"]
      /\ UNCHANGED <<tables, server, semaphore, responses, job, got, uid>>

\* Mutant of Receive: msgrcv is called with type 0, which takes any message.
Receive_Any(c) ==
  /\ pc[c] = "receive" /\ responses # <<>>
  /\ got' = [got EXCEPT ![c] = Append(@, [op  |-> Head(responses).op,
                                          val |-> Head(responses).val])]
  /\ responses' = Tail(responses)
  /\ pc' = [pc EXCEPT ![c] = IF got[c] = <<>> THEN "lock" ELSE "send"]
  /\ UNCHANGED <<tables, server, semaphore, requests, job, uid>>

\* read_response: the oldest response for this pid
Receive(c) ==
  LET i == SelectInSeq(responses, LAMBDA r : r.pid = PidOf[c])
  IN  /\ pc[c] = "receive" /\ i # 0
      /\ got' = [got EXCEPT ![c] = Append(@, [op  |-> responses[i].op,
                                              val |-> responses[i].val])]
      /\ responses' = RemoveAt(responses, i)
      /\ pc' = [pc EXCEPT ![c] = IF got[c] = <<>> THEN "lock" ELSE "send"]
      /\ UNCHANGED <<tables, server, semaphore, requests, job, uid>>

\* Mutant of Lock: it does not wait.
Lock_NoWait(c) ==
  /\ pc[c] = "lock"
  /\ semaphore' = IF semaphore > 0 THEN semaphore - 1 ELSE 0
  /\ pc' = [pc EXCEPT ![c] = "send"]
  /\ UNCHANGED <<tables, server, queues, job, got, uid>>

Lock(c) ==
  /\ pc[c] = "lock" /\ semaphore > 0
  /\ semaphore' = semaphore - 1
  /\ pc' = [pc EXCEPT ![c] = "send"]
  /\ UNCHANGED <<tables, server, queues, job, got, uid>>

\* Mutants of Unlock: the error path posts once more; the error path returns
\* without posting.
Unlock_Twice(c) ==
  /\ pc[c] = "send" /\ Request(job[c], Answers(c)) = Done
  /\ semaphore' = semaphore + IF Result(job[c], Answers(c)) = "error" THEN 2 ELSE 1
  /\ pc' = [pc EXCEPT ![c] = "idle"]
  /\ job' = [job EXCEPT ![c] = [check |-> "none"]]
  /\ got' = [got EXCEPT ![c] = <<>>]
  /\ UNCHANGED <<tables, server, queues, uid>>

Unlock_NotOnError(c) ==
  /\ pc[c] = "send" /\ Request(job[c], Answers(c)) = Done
  /\ semaphore' = semaphore + IF Result(job[c], Answers(c)) = "error" THEN 0 ELSE 1
  /\ pc' = [pc EXCEPT ![c] = "idle"]
  /\ job' = [job EXCEPT ![c] = [check |-> "none"]]
  /\ got' = [got EXCEPT ![c] = <<>>]
  /\ UNCHANGED <<tables, server, queues, uid>>

Unlock(c) ==
  /\ pc[c] = "send" /\ Request(job[c], Answers(c)) = Done
  /\ semaphore' = semaphore + 1
  /\ pc' = [pc EXCEPT ![c] = "idle"]
  /\ job' = [job EXCEPT ![c] = [check |-> "none"]]
  /\ got' = [got EXCEPT ![c] = <<>>]
  /\ UNCHANGED <<tables, server, queues, uid>>

(***************************************************************************)
(* Nothing that the client holds is given back: not the semaphore, not the *)
(* answers under way to it.  (An idle client that dies is one that begins  *)
(* nothing more; job stays, to say what its last request was for.)         *)
(***************************************************************************)
Die(c) ==
  /\ c \in Mortal /\ pc[c] \in {"send", "receive", "lock"}
  /\ pc' = [pc EXCEPT ![c] = "dead"]
  /\ got' = [got EXCEPT ![c] = <<>>]
  /\ UNCHANGED <<tables, server, semaphore, queues, job, uid>>

Next ==
  /\ server = "up"
  /\ \/ Serve
     \/ \E c \in Clients : Begin(c) \/ Send(c) \/ Receive(c) \/ Lock(c) \/ Unlock(c)
     \/ \E c \in Clients : Die(c)

Spec == Init /\ [][Next]_vars

(***************************************************************************)
(* The server loops for ever, and a client in a check that can go on does. *)
(* When a check begins is up to the program, and nothing is assumed of the *)
(* order in which the semaphore admits its waiters.                        *)
(***************************************************************************)
FairSpec ==
  /\ Spec
  /\ WF_vars(server = "up" /\ Serve)
  /\ \A c \in Clients : WF_vars(server = "up" /\ (Send(c) \/ Receive(c) \/ Unlock(c)))

-----------------------------------------------------------------------------
(* Properties *)

(***************************************************************************)
(* The tables of RuleEngine: a subject or object is there once both its id *)
(* and its row are.                                                        *)
(***************************************************************************)
Complete(ids, rows) == {i \in DOMAIN ids : RowAt(rows, i) # 0}

SubjectTable ==
  [s \in {<<all_subject_ids[i][2], all_subject_ids[i][3]>> :
            i \in Complete(all_subject_ids, all_subjects)} |->
     Fields(all_subjects[RowAt(all_subjects, IndexOf(all_subject_ids, <<Host, s[1], s[2]>>))])]
ObjectTable ==
  [f \in {all_object_ids[i][2] : i \in Complete(all_object_ids, all_objects)} |->
     Fields(all_objects[RowAt(all_objects, IndexOf(all_object_ids, <<Host, f>>))])]

RE == INSTANCE RuleEngine WITH subjects <- SubjectTable, objects <- ObjectTable

\* The check of job j, as one step of the rule engine.
CheckOf(j) ==
  \/ j.check = "fork" /\ RE!fork_check(j.self[1], j.self[2], j.about)
  \/ j.check = "open" /\ RE!file_open_check(j.about)
  \/ j.check = "read" /\ \E ret \in RE!Results : RE!file_read_check(j.self, j.about, ret)
  \/ j.check = "write" /\ \E ret \in RE!Results : RE!file_write_check(j.self, j.about, ret)
  \/ j.check = "kill" /\ \E ret \in RE!Results : RE!kill_check(j.self, j.about, ret)

(***************************************************************************)
(* Requests and answers of several clients interleave in the queues, and a *)
(* check is a dozen of them, yet each check is one step of the rule        *)
(* engine: at add_subject, at add_object, at update_subject_label, or at   *)
(* the request that stops the server; and the tables change in no other    *)
(* way.  It implies RE!RESpec, and says that the step is the check of the  *)
(* client whose request the server works on.                               *)
(***************************************************************************)
ChecksAreAtomic ==
  /\ RE!REInit
  /\ [][/\ requests # <<>> /\ requests' = Tail(requests)
        /\ \/ UNCHANGED <<SubjectTable, ObjectTable, server>>
           \/ \E c \in Clients : PidOf[c] = Head(requests).pid /\ CheckOf(job[c])
       ]_<<tables, server>>

(***************************************************************************)
(* The types of arrays, queues and clients.                                *)
(***************************************************************************)
Rows == [index : Nat, owner : Users \cup {NoUser}, readers : UserSet, writers : UserSet]

TypeOK ==
  /\ all_subject_ids \in Seq({Host} \X Users \X Pids)
  /\ all_object_ids \in Seq({Host} \X Files)
  /\ all_subjects \in Seq(Rows) /\ all_objects \in Seq(Rows)
  /\ server \in {"up", "stopped"} /\ semaphore \in {0, 1}
  /\ \A i \in DOMAIN requests : requests[i].pid \in Pids
  /\ \A i \in DOMAIN responses : responses[i].pid \in Pids
  /\ uid \in [Pids -> Users]
  /\ pc \in [Clients -> {"born", "idle", "send", "receive", "lock", "dead"}]
  /\ \A c \in Clients : pc[c] \in {"send", "receive", "lock"} =>
                          job[c] \in Births(c) \cup Calls(c, Clients)

(***************************************************************************)
(* Each answer that a process takes off the one response queue is the      *)
(* answer to what it asked, though those for other processes, and those    *)
(* for a dead one that nobody collects, lie there too.  It is said of      *)
(* processes of one thread: two threads of a process ask is_rwfm_enabled   *)
(* outside the lock and may take each other's answers.                     *)
(***************************************************************************)
AnswersMatch ==
  \A c \in Clients : \A i \in DOMAIN got[c] :
    got[c][i].op = Request(job[c], SubSeq(Answers(c), 1, i - 1)).op

(***************************************************************************)
(* A check computes its result from copies of rows, taken some requests    *)
(* ago.  When it is about to unlock, the result is still what the tables   *)
(* say, and the label it raised has been raised.                           *)
(***************************************************************************)
Agrees(j, ret) ==
  LET sub == SubjectTable
      obj == ObjectTable
  IN  CASE j.check = "fork"  -> j.self \in DOMAIN sub
        [] j.check = "open"  -> j.about \in DOMAIN obj
        [] j.check = "read"  ->
             IF j.about \notin DOMAIN obj THEN ret = "error"
             ELSE IF sub[j.self].owner \in obj[j.about].readers
               THEN ret = "allowed" /\ FlowsTo(obj[j.about], sub[j.self])
               ELSE ret = "denied"
        [] j.check = "write" ->
             IF j.about \notin DOMAIN obj THEN ret = "error"
             ELSE ret = IF WriteAllowed(sub[j.self], obj[j.about])
                          THEN "allowed" ELSE "denied"
        [] j.check = "kill"  ->
             IF sub[j.about].owner \in sub[j.self].readers
               THEN ret = "allowed" /\ FlowsTo(sub[j.self], sub[j.about])
               ELSE ret = "denied"

ResultIsCurrent ==
  server = "up" =>
    \A c \in Clients :
      pc[c] = "send" /\ Request(job[c], Answers(c)) = Done
        => Agrees(job[c], Result(job[c], Answers(c)))

(***************************************************************************)
(* An id enters its array some requests before the row it belongs to.  No  *)
(* check ever finds one without the other, though a client may die between *)
(* the two: then nobody gets the lock any more.                            *)
(***************************************************************************)
IdsHaveRows ==
  semaphore = 1 => /\ Complete(all_subject_ids, all_subjects) = DOMAIN all_subject_ids
                   /\ Complete(all_object_ids, all_objects) = DOMAIN all_object_ids

(***************************************************************************)
(* Whoever is inside a check posts the semaphore in the end, unless that   *)
(* check stopped the server or this client itself died in it: the death of *)
(* another one excuses nobody.                                             *)
(***************************************************************************)
InCheck(c) == pc[c] \in {"send", "receive"} /\ got[c] # <<>>

LockReleased ==
  \A c \in Clients :
    InCheck(c) ~> semaphore = 1 \/ server = "stopped" \/ pc[c] = "dead"
=============================================================================
