--------------------------- MODULE SystemVProofs ----------------------------
(***************************************************************************)
(* Theorems about SystemV, for any users, processes, files, queues,        *)
(* semaphores and permissions.  Those about labels and information need    *)
(* that the kernel gives out no id again (Reuse).                          *)
(***************************************************************************)
EXTENDS SystemV, RuleEngineProofs

(***************************************************************************)
(* The inductive invariant.  Every process has a row; an id that it uses   *)
(* has one as long as the kernel has what the id is of; and remove_..._check *)
(* is only on its way for what the kernel has removed.                     *)
(***************************************************************************)
Removing(p) == pc[p] = "remove" \/ (pc[p] = "control" /\ on[p].cmd = "IPC_RMID")

CallInv(p) ==
  /\ pc[p] = "got" => on[p].id \in born
  /\ pc[p] \in {"send", "receive", "control"} => on[p].id \in ids[p] \cap Queues
  /\ pc[p] \in {"semwrite", "semop"} => on[p].id \in ids[p] \cap Semaphores
  /\ pc[p] = "remove" => on[p].id \in ids[p]

RowInv(p) ==
  /\ \A i \in ids[p] \cap DOMAIN ipcs : HasRow(i)
  /\ Removing(p) => on[p].id \notin DOMAIN ipcs

DataInv == \A i \in Ids : data[i] # {} => i \in DOMAIN ipcs /\ HasRow(i)

(***************************************************************************)
(* Told(info, readers): the readers may all read the files of info.        *)
(***************************************************************************)
Told(info, readers) == \A f \in info : readers \subseteq ReadersOf(f)

(***************************************************************************)
(* What is known is covered by the row of who knows it; what waits, or is  *)
(* on its way into or out of a queue that still exists, by the queue's.    *)
(***************************************************************************)
FlowInv(p) ==
  LET i == on[p].id
  IN  /\ Told(know[p], subjects[Sid(p)].readers)
      /\ pc[p] \in {"send", "receive"} /\ i \in DOMAIN ipcs =>
           Told(buf[p], Row(i).readers)
      /\ pc[p] \in {"semwrite", "semop"} /\ i \in DOMAIN ipcs =>
           /\ "r" \in on[p].passed => subjects[Sid(p)].readers \subseteq Row(i).readers
           /\ "w" \in on[p].passed => Told(know[p], Row(i).readers)

DataFlow == \A i \in Ids : \A msg \in data[i] : Told(msg, Row(i).readers)

Registered == \A p \in Pids : Sid(p) \in DOMAIN subjects

IpcInv == DataInv /\ \A p \in Pids : RowInv(p)
LeakInv == server = "up" /\ slips = {} => DataFlow /\ \A p \in Pids : FlowInv(p)

-----------------------------------------------------------------------------
(* The checks, and the rows of the processes *)

\* msgrcv_check and sem_read_check are reads by the rules of RuleEngine.
LEMMA IpcReadStep ==
  ASSUME REInv, NEW table, table \in [DOMAIN table -> Label], NEW s, NEW id, NEW ret,
         ipc_read_check(table, s, id, ret)
  PROVE  REStep /\ DOMAIN subjects' = DOMAIN subjects
<1>1. CASE UNCHANGED <<subjects, objects>> /\ server' \in {"up", "stopped"}
  BY <1>1, REUnchanged
<1>2. CASE /\ s \in DOMAIN subjects
           /\ \E row \in FetchedLabel(table, id) :
                /\ subjects[s].owner \in row.readers
                /\ subjects' = [subjects EXCEPT ![s] = Raise(@, row)]
                /\ UNCHANGED <<objects, server>>
  <2>1. PICK row \in FetchedLabel(table, id) :
               /\ subjects[s].owner \in row.readers
               /\ subjects' = [subjects EXCEPT ![s] = Raise(@, row)]
               /\ UNCHANGED <<objects, server>>
    BY <1>2
  <2>2. row.readers \subseteq Users /\ row.writers \subseteq Users
    BY DEF FetchedLabel, Label, UserSet
  <2>3. s[1] \in row.readers
    BY <1>2, <2>1 DEF REInv, OwnerKeepsAccess
  <2>4. DOMAIN subjects' = DOMAIN subjects
    BY <2>1
  <2>5. QED
    BY <1>2, <2>1, <2>2, <2>3, <2>4, RaiseStep
<1>3. QED
  BY <1>1, <1>2 DEF ipc_read_check, Missing, StopServer, revars

LEMMA IpcWriteStep ==
  ASSUME REInv, NEW table, NEW s, NEW id, NEW ret, ipc_write_check(table, s, id, ret)
  PROVE  REStep /\ UNCHANGED subjects
<1>1. UNCHANGED <<subjects, objects>> /\ server' \in {"up", "stopped"}
  BY DEF ipc_write_check, StopServer, revars
<1>2. QED
  BY <1>1, REUnchanged

\* What a step of any process may do to the rows of the processes.
RuleStep == REStep /\ DOMAIN subjects' = DOMAIN subjects

LEMMA SameRules ==
  ASSUME REInv, UNCHANGED revars
  PROVE  RuleStep
  BY REUnchanged DEF revars, RuleStep, REInv, RETypeOK

LEMMA SidFacts ==
  ASSUME NEW p \in Pids
  PROVE  Sid(p) \in SubjectIds /\ Sid(p)' = Sid(p) /\ User[p] \in Users
  BY SystemVAssumption DEF Sid, SubjectIds

LEMMA RulesObeyed ==
  ASSUME IpcTypeOK, REInv, [Next]_vars
  PROVE  RuleStep
<1> USE DEF IpcTypeOK
<1>1. ASSUME NEW p \in Pids, NEW q, NEW ret, msgrcv_check(Sid(p), q, ret)
      PROVE  RuleStep
  BY <1>1, IpcReadStep DEF msgrcv_check, RuleStep
<1>2. ASSUME NEW p \in Pids, NEW q, NEW ret, msgsnd_check(Sid(p), q, ret)
      PROVE  RuleStep
  BY <1>2, IpcWriteStep DEF msgsnd_check, RuleStep
<1>3. ASSUME NEW p \in Pids, NEW i, NEW ret, sem_read_check(Sid(p), i, ret)
      PROVE  RuleStep
  BY <1>3, IpcReadStep DEF sem_read_check, RuleStep
<1>4. ASSUME NEW p \in Pids, NEW i, NEW ret, sem_write_check(Sid(p), i, ret)
      PROVE  RuleStep
  BY <1>4, IpcWriteStep DEF sem_write_check, RuleStep
<1>5. ASSUME NEW p \in Pids, NEW f \in Files, ReadFile(p, f)
      PROVE  RuleStep
  <2>1. file_read_check(Sid(p), f, "allowed")
    BY <1>5 DEF ReadFile
  <2>2. DOMAIN subjects' = DOMAIN subjects
    BY <2>1 DEF file_read_check
  <2>3. QED
    BY <2>1, <2>2, SidFacts, ReadStep DEF RuleStep
<1>6. ASSUME NEW p \in Pids,
             \/ \E i \in Ids : Get(p, i)
             \/ \E q \in Queues : Msgrcv(p, q)
             \/ \E q \in Queues, cmd \in Cmds : Msgctl(p, q, cmd)
             \/ \E i \in Semaphores, cmd \in Cmds : Semctl(p, i, cmd)
             \/ GetCheck(p) \/ BadPointer(p) \/ SendMsg(p) \/ Remove(p)
             \/ SemopKernel(p) \/ Exit(p)
      PROVE  RuleStep
  <2>1. UNCHANGED revars
    BY <1>6 DEF Get, Msgrcv, Msgctl, Semctl, GetCheck, BadPointer, SendMsg, Remove,
                SemopKernel, Exit, create_msgq_check, create_sem_check, remove_msgq_check,
                remove_sem_check
  <2>2. QED
    BY <2>1, SameRules
<1>7. ASSUME NEW p \in Pids, NEW q \in Queues, Msgsnd(p, q)
      PROVE  RuleStep
  BY <1>2, <1>7 DEF Msgsnd
<1>8. ASSUME NEW p \in Pids, NEW i \in Semaphores, NEW ops \in SemOps, Semop(p, i, ops)
      PROVE  RuleStep
  BY <1>3, <1>8, SameRules DEF Semop
<1>9. ASSUME NEW p \in Pids, MsgrcvCheck(p)
      PROVE  RuleStep
  BY <1>1, <1>9, SameRules DEF MsgrcvCheck
<1>10. ASSUME NEW p \in Pids, MsgctlCheck(p)
       PROVE  RuleStep
  BY <1>1, <1>10 DEF MsgctlCheck
<1>11. ASSUME NEW p \in Pids, SemWriteCheck(p)
       PROVE  RuleStep
  BY <1>4, <1>11 DEF SemWriteCheck
<1>12. CASE UNCHANGED vars
  BY <1>12, SameRules DEF vars
<1>13. QED
  BY <1>5, <1>6, <1>7, <1>8, <1>9, <1>10, <1>11, <1>12 DEF Next

-----------------------------------------------------------------------------
(* Types *)

KernelTypeOK ==
  /\ born \subseteq Ids /\ DOMAIN ipcs \subseteq born
  /\ ipcs \in [DOMAIN ipcs -> StatRecord]
  /\ data \in [Ids -> SUBSET SUBSET Files]

States == {"idle", "got", "send", "receive", "control", "remove", "semwrite", "semop", "dead"}

ProcTypeOK ==
  /\ ids \in [Pids -> SUBSET born]
  /\ pc \in [Pids -> States]
  /\ on \in [Pids -> Call]
  /\ know \in [Pids -> SUBSET Files] /\ buf \in [Pids -> SUBSET Files]
  /\ slips \subseteq Slips
  /\ lost \in BOOLEAN

LEMMA TypeOKParts == TypeOK <=> RETypeOK /\ IpcTypeOK /\ KernelTypeOK /\ ProcTypeOK
  BY DEF TypeOK, KernelTypeOK, ProcTypeOK, States

\* The label of a new row is inferred from permissions, or from garbage in their place.
LEMMA NewLabels ==
  ASSUME KernelTypeOK, NEW p, NEW q
  PROVE  MsgqLabels(p, q) \subseteq Label /\ SemLabels \subseteq Label
<1>1. \A perm \in StatRecord : infer_file_labels(perm) \in Label
  BY InferredIsLabel
<1>2. Readable(p, q) => ipcs[q] \in StatRecord
  BY DEF Readable, KernelTypeOK
<1>3. QED
  BY <1>1, <1>2 DEF MsgqLabels, SemLabels, infer_msgq_labels, infer_sem_labels

\* The tables change only at the end of msgget and semget, and in remove_..._check.
LEMMA TableSteps ==
  ASSUME [Next]_vars
  PROVE  \/ UNCHANGED ipcvars
         \/ \E p \in Pids : GetCheck(p) \/ Remove(p)
<1>1. ASSUME NEW p \in Pids, NEW i \in Semaphores, NEW ops \in SemOps, Semop(p, i, ops)
      PROVE  UNCHANGED ipcvars
  BY <1>1 DEF Semop, sem_read_check
<1>2. ASSUME NEW p \in Pids, MsgrcvCheck(p) \/ MsgctlCheck(p) \/ SemWriteCheck(p)
      PROVE  UNCHANGED ipcvars
  BY <1>2 DEF MsgrcvCheck, MsgctlCheck, SemWriteCheck, msgrcv_check, sem_write_check
<1>3. ASSUME NEW p \in Pids, NEW q \in Queues, Msgsnd(p, q)
      PROVE  UNCHANGED ipcvars
  BY <1>3 DEF Msgsnd, msgsnd_check
<1>4. QED
  BY <1>1, <1>2, <1>3 DEF Next, vars, Get, BadPointer, SendMsg, Msgrcv, Msgctl, SemopKernel,
                          Semctl, ReadFile, Exit

LEMMA TablesTyped ==
  ASSUME IpcTypeOK, KernelTypeOK, [Next]_vars
  PROVE  IpcTypeOK'
<1>1. ASSUME NEW i \in Queues, NEW label \in Label, create_msgq_check(i, label)
      PROVE  IpcTypeOK'
  BY <1>1, AddRowType DEF create_msgq_check, IpcTypeOK
<1>2. ASSUME NEW i \in Semaphores, NEW label \in Label, create_sem_check(i, label)
      PROVE  IpcTypeOK'
  BY <1>2, AddRowType DEF create_sem_check, IpcTypeOK
<1>3. ASSUME NEW p \in Pids, GetCheck(p)
      PROVE  IpcTypeOK'
  BY <1>1, <1>2, <1>3, NewLabels DEF GetCheck
<1>4. ASSUME NEW p \in Pids, Remove(p)
      PROVE  IpcTypeOK'
  BY <1>4 DEF Remove, remove_msgq_check, remove_sem_check, WithoutRow, IpcTypeOK
<1>5. CASE UNCHANGED ipcvars
  BY <1>5 DEF ipcvars, IpcTypeOK
<1>6. QED
  BY <1>3, <1>4, <1>5, TableSteps

LEMMA KernelTyped ==
  ASSUME KernelTypeOK, ProcTypeOK, [Next]_vars
  PROVE  KernelTypeOK'
<1>1. ASSUME NEW p \in Pids, NEW i \in Ids, Get(p, i)
      PROVE  KernelTypeOK'
  <2>1. CASE UNCHANGED <<ipcs, born>>
    BY <1>1, <2>1 DEF Get, KernelTypeOK
  <2>2. CASE /\ \E mode \in Modes :
                  ipcs' = [j \in DOMAIN ipcs \cup {i} |->
                             IF j = i THEN [uid |-> User[p], members |-> {User[p]},
                                            mode |-> mode]
                                      ELSE ipcs[j]]
             /\ born' = born \cup {i}
    <3>1. \A mode \in Modes :
            [uid |-> User[p], members |-> {User[p]}, mode |-> mode] \in StatRecord
      BY SidFacts, SystemVAssumption DEF StatRecord, UserSet
    <3>2. data' = data
      BY <1>1 DEF Get
    <3>3. QED
      BY <2>2, <3>1, <3>2 DEF KernelTypeOK
  <2>3. QED
    BY <1>1, <2>1, <2>2 DEF Get
<1>2. ASSUME NEW i \in Ids, Removed(i), UNCHANGED born
      PROVE  KernelTypeOK'
  BY <1>2 DEF Removed, KernelTypeOK
<1>3. ASSUME NEW i \in Ids, NEW mode \in Modes, i \in DOMAIN ipcs,
             ipcs' = [ipcs EXCEPT ![i].mode = mode], UNCHANGED <<born, data>>
      PROVE  KernelTypeOK'
  <2>1. [ipcs[i] EXCEPT !.mode = mode] \in StatRecord
    BY <1>3, SystemVAssumption DEF KernelTypeOK, StatRecord
  <2>2. QED
    BY <1>3, <2>1 DEF KernelTypeOK
<1>4. ASSUME NEW p \in Pids, NEW q \in Queues, NEW cmd \in Cmds, Msgctl(p, q, cmd)
      PROVE  KernelTypeOK'
  BY <1>2, <1>3, <1>4 DEF Msgctl, Owned, Ids, KernelTypeOK
<1>5. ASSUME NEW p \in Pids, NEW i \in Ids, Tell(p, i), UNCHANGED <<ipcs, born>>
      PROVE  KernelTypeOK'
  <2>1. know[p] \cup UNION data[i] \subseteq Files
    BY DEF ProcTypeOK, KernelTypeOK
  <2>2. QED
    BY <1>5, <2>1 DEF Tell, KernelTypeOK
<1>6. ASSUME NEW p \in Pids, NEW i \in Semaphores, NEW cmd \in Cmds, Semctl(p, i, cmd)
      PROVE  KernelTypeOK'
  BY <1>2, <1>5, <1>6 DEF Semctl, Ids, KernelTypeOK
<1>7. ASSUME NEW p \in Pids, SemopKernel(p)
      PROVE  KernelTypeOK'
  <2>1. on[p].id \in Ids => KernelTypeOK'
    BY <1>5, <1>7 DEF SemopKernel, KernelTypeOK
  <2>2. on[p].id \notin Ids => data' = data
    BY <1>7 DEF SemopKernel, Tell, KernelTypeOK
  <2>3. QED
    BY <1>7, <2>1, <2>2 DEF SemopKernel, KernelTypeOK
<1>8. ASSUME NEW p \in Pids, SendMsg(p)
      PROVE  KernelTypeOK'
  <2>1. data[on[p].id] \cup {buf[p]} \in SUBSET SUBSET Files \/ on[p].id \notin Ids
    BY DEF KernelTypeOK, ProcTypeOK
  <2>2. data' \in [Ids -> SUBSET SUBSET Files]
    BY <1>8, <2>1 DEF SendMsg, KernelTypeOK
  <2>3. QED
    BY <1>8, <2>2 DEF SendMsg, KernelTypeOK
<1>9. ASSUME NEW p \in Pids, NEW q \in Queues, Msgrcv(p, q)
      PROVE  KernelTypeOK'
  BY <1>9 DEF Msgrcv, KernelTypeOK
<1>10. ASSUME UNCHANGED <<ipcs, born, data>>
       PROVE  KernelTypeOK'
  BY <1>10 DEF KernelTypeOK
<1>11. QED
  BY <1>1, <1>4, <1>6, <1>7, <1>8, <1>9, <1>10
     DEF Next, vars, Msgsnd, Semop, GetCheck, BadPointer, MsgrcvCheck, MsgctlCheck, Remove,
         SemWriteCheck, ReadFile, Exit

-----------------------------------------------------------------------------
(* The calls of the processes *)

CallsInv == ProcTypeOK /\ \A p \in Pids : CallInv(p)

LEMMA CallTypes ==
  /\ NoCall \in Call
  /\ \A i \in Ids : /\ CallOn(i) \in Call /\ CallOn(i).id = i
                    /\ CallOn(i).cmd = "none" /\ CallOn(i).passed = {}
                    /\ \A cmd \in Cmds : /\ [CallOn(i) EXCEPT !.cmd = cmd] \in Call
                                         /\ [CallOn(i) EXCEPT !.cmd = cmd].id = i
                                         /\ [CallOn(i) EXCEPT !.cmd = cmd].cmd = cmd
                    /\ \A ops \in SemOps :
                         /\ [CallOn(i) EXCEPT !.ops = ops] \in Call
                         /\ [CallOn(i) EXCEPT !.ops = ops].id = i
                         /\ [CallOn(i) EXCEPT !.ops = ops].ops = ops
                         /\ [CallOn(i) EXCEPT !.ops = ops].passed = {}
  BY DEF NoCall, CallOn, Call

\* Nobody but p has moved.
Alone(p) == \A r \in Pids \ {p} :
              /\ pc'[r] = pc[r] /\ on'[r] = on[r] /\ ids'[r] = ids[r]
              /\ know'[r] = know[r] /\ buf'[r] = buf[r]

LEMMA Went ==
  ASSUME ProcTypeOK, NEW p \in Pids, NEW x \in States, NEW c \in Call, Go(p, x, c)
  PROVE  /\ pc' \in [Pids -> States] /\ on' \in [Pids -> Call]
         /\ pc'[p] = x /\ on'[p] = c
         /\ \A r \in Pids \ {p} : pc'[r] = pc[r] /\ on'[r] = on[r]
  BY DEF Go, ProcTypeOK

LEMMA CallStep ==
  ASSUME CallsInv, NEW p \in Pids, Alone(p), CallInv(p)',
         pc' \in [Pids -> States], on' \in [Pids -> Call],
         born \subseteq born', ids'[p] \subseteq born', ids' \in [Pids -> SUBSET Ids],
         know' \in [Pids -> SUBSET Files], buf' \in [Pids -> SUBSET Files],
         slips' \subseteq Slips, lost' \in BOOLEAN
  PROVE  CallsInv'
<1>1. ASSUME NEW r \in Pids, r # p
      PROVE  CallInv(r)'
  BY <1>1 DEF CallsInv, CallInv, Alone
<1>2. \A r \in Pids : ids'[r] \subseteq born'
  BY DEF CallsInv, ProcTypeOK, Alone
<1>3. ProcTypeOK'
  BY <1>2 DEF ProcTypeOK
<1>4. QED
  BY <1>1, <1>3 DEF CallsInv

\* A call that has nothing pending asks for nothing.
LEMMA Idle ==
  ASSUME NEW p, pc'[p] \in {"idle", "dead"}
  PROVE  CallInv(p)'
  BY DEF CallInv

LEMMA Died ==
  ASSUME CallsInv, KernelTypeOK, NEW p \in Pids, Die(p), UNCHANGED <<born, slips>>,
         lost' \in BOOLEAN
  PROVE  Alone(p) /\ CallsInv'
<1>1. /\ pc' \in [Pids -> States] /\ on' \in [Pids -> Call]
      /\ pc'[p] = "dead"
      /\ \A r \in Pids \ {p} : pc'[r] = pc[r] /\ on'[r] = on[r]
  BY Went, CallTypes DEF Die, CallsInv, States
<1>2. /\ ids' \in [Pids -> SUBSET Ids] /\ ids'[p] = {}
      /\ know' \in [Pids -> SUBSET Files] /\ buf' \in [Pids -> SUBSET Files]
      /\ \A r \in Pids \ {p} : ids'[r] = ids[r] /\ know'[r] = know[r] /\ buf'[r] = buf[r]
  BY DEF Die, CallsInv, ProcTypeOK, KernelTypeOK
<1>3. Alone(p)
  BY <1>1, <1>2 DEF Alone
<1>4. CallInv(p)'
  BY <1>1, Idle
<1>5. slips' \subseteq Slips /\ born \subseteq born'
  BY DEF CallsInv, ProcTypeOK
<1>6. QED
  BY <1>1, <1>2, <1>3, <1>4, <1>5, CallStep

\* A step of p other than the end of msgget or semget, or of p itself.
LEMMA Moved ==
  ASSUME CallsInv, KernelTypeOK, NEW p \in Pids, NEW x \in States, NEW c \in Call,
         Go(p, x, c), UNCHANGED ids, born \subseteq born', born' \subseteq Ids,
         \/ x = "idle"
         \/ x = "got" /\ c.id \in born'
         \/ x \in {"send", "receive", "control"} /\ c.id \in ids[p] \cap Queues
         \/ x \in {"semwrite", "semop"} /\ c.id \in ids[p] \cap Semaphores
         \/ x = "remove" /\ c.id \in ids[p],
         know'[p] \subseteq Files, know' = [know EXCEPT ![p] = know'[p]],
         buf'[p] \subseteq Files, buf' = [buf EXCEPT ![p] = buf'[p]],
         slips' \subseteq Slips, lost' = lost
  PROVE  Alone(p) /\ CallsInv'
<1>1. /\ pc' \in [Pids -> States] /\ on' \in [Pids -> Call]
      /\ pc'[p] = x /\ on'[p] = c
      /\ \A r \in Pids \ {p} : pc'[r] = pc[r] /\ on'[r] = on[r]
  BY Went DEF CallsInv
<1>2. /\ ids' \in [Pids -> SUBSET Ids] /\ ids'[p] \subseteq born'
      /\ know' \in [Pids -> SUBSET Files] /\ buf' \in [Pids -> SUBSET Files]
      /\ \A r \in Pids \ {p} : know'[r] = know[r] /\ buf'[r] = buf[r]
  BY DEF CallsInv, ProcTypeOK, KernelTypeOK
<1>3. Alone(p)
  BY <1>1, <1>2 DEF Alone
<1>4. CallInv(p)'
  BY <1>1 DEF CallInv
<1>5. lost' \in BOOLEAN
  BY DEF CallsInv, ProcTypeOK
<1>6. QED
  BY <1>1, <1>2, <1>3, <1>4, <1>5, CallStep

\* A step of p in which p itself stays where it is.
LEMMA Stayed ==
  ASSUME CallsInv, KernelTypeOK, NEW p \in Pids, UNCHANGED <<pc, on, ids, buf, born>>,
         know'[p] \subseteq Files, know' = [know EXCEPT ![p] = know'[p]],
         slips' \subseteq Slips, lost' = lost
  PROVE  Alone(p) /\ CallsInv'
<1>1. \A r \in Pids \ {p} : know'[r] = know[r]
  BY DEF CallsInv, ProcTypeOK
<1>2. Alone(p)
  BY <1>1 DEF Alone
<1>3. CallInv(p)'
  BY DEF CallsInv, CallInv
<1>4. know' \in [Pids -> SUBSET Files]
  BY DEF CallsInv, ProcTypeOK
<1>5. /\ ids' \in [Pids -> SUBSET Ids] /\ ids'[p] \subseteq born' /\ lost' \in BOOLEAN
      /\ buf' \in [Pids -> SUBSET Files] /\ pc' \in [Pids -> States] /\ on' \in [Pids -> Call]
  BY DEF CallsInv, ProcTypeOK, KernelTypeOK
<1>6. QED
  BY <1>2, <1>3, <1>4, <1>5, CallStep

LEMMA GetCall ==
  ASSUME CallsInv, KernelTypeOK, NEW p \in Pids, NEW i \in Ids, Get(p, i)
  PROVE  Alone(p) /\ CallsInv'
<1>1. born \subseteq born' /\ born' \subseteq Ids /\ i \in born'
  BY DEF Get, KernelTypeOK
<1>2. Go(p, "got", CallOn(i)) /\ UNCHANGED <<ids, know, buf, slips, lost>>
  BY DEF Get
<1>3. /\ know'[p] \subseteq Files /\ know' = [know EXCEPT ![p] = know'[p]]
      /\ buf'[p] \subseteq Files /\ buf' = [buf EXCEPT ![p] = buf'[p]]
      /\ slips' \subseteq Slips
  BY <1>2 DEF CallsInv, ProcTypeOK
<1>4. CallOn(i) \in Call /\ CallOn(i).id = i /\ "got" \in States
  BY CallTypes DEF States
<1>5. QED
  BY <1>1, <1>2, <1>3, <1>4, Moved

LEMMA GetCheckCall ==
  ASSUME CallsInv, KernelTypeOK, NEW p \in Pids, GetCheck(p)
  PROVE  Alone(p) /\ CallsInv'
<1>1. /\ Go(p, "idle", NoCall) /\ buf' = [buf EXCEPT ![p] = {}]
      /\ ids' = [ids EXCEPT ![p] = @ \cup {on[p].id}]
      /\ UNCHANGED <<born, know, slips, lost>> /\ on[p].id \in born
  BY DEF GetCheck, Return, At, CallsInv, CallInv
<1>2. /\ pc' \in [Pids -> States] /\ on' \in [Pids -> Call] /\ pc'[p] = "idle"
      /\ \A r \in Pids \ {p} : pc'[r] = pc[r] /\ on'[r] = on[r]
  BY <1>1, CallTypes, Went DEF CallsInv, States
<1>3. /\ ids' \in [Pids -> SUBSET Ids] /\ ids'[p] \subseteq born'
      /\ buf' \in [Pids -> SUBSET Files] /\ know' \in [Pids -> SUBSET Files]
      /\ \A r \in Pids \ {p} : ids'[r] = ids[r] /\ buf'[r] = buf[r] /\ know'[r] = know[r]
      /\ slips' \subseteq Slips /\ lost' \in BOOLEAN
  BY <1>1 DEF CallsInv, ProcTypeOK, KernelTypeOK
<1>4. Alone(p)
  BY <1>2, <1>3 DEF Alone
<1>5. CallInv(p)'
  BY <1>2, Idle
<1>6. QED
  BY <1>1, <1>2, <1>3, <1>4, <1>5, CallStep

\* Nothing is learnt, and the buffer is as it was.
LEMMA SameMemory ==
  ASSUME CallsInv, NEW p \in Pids
  PROVE  /\ UNCHANGED know => know'[p] \subseteq Files /\ know' = [know EXCEPT ![p] = know'[p]]
         /\ UNCHANGED buf => buf'[p] \subseteq Files /\ buf' = [buf EXCEPT ![p] = buf'[p]]
         /\ UNCHANGED slips => slips' \subseteq Slips
  BY DEF CallsInv, ProcTypeOK

LEMMA Buffered ==
  ASSUME CallsInv, NEW p \in Pids, NEW b \in SUBSET Files, buf' = [buf EXCEPT ![p] = b]
  PROVE  buf'[p] \subseteq Files /\ buf' = [buf EXCEPT ![p] = buf'[p]]
  BY DEF CallsInv, ProcTypeOK

LEMMA Learnt ==
  ASSUME CallsInv, KernelTypeOK, NEW p \in Pids, NEW i \in Ids, Learn(p, i)
  PROVE  know'[p] \subseteq Files /\ know' = [know EXCEPT ![p] = know'[p]]
<1>1. UNION data[i] \subseteq Files
  BY DEF KernelTypeOK
<1>2. QED
  BY <1>1 DEF Learn, CallsInv, ProcTypeOK

LEMMA MsgsndCall ==
  ASSUME CallsInv, KernelTypeOK, NEW p \in Pids, NEW q \in Queues, Msgsnd(p, q)
  PROVE  Alone(p) /\ CallsInv'
<1>1. UNCHANGED <<born, ids, know, slips, lost>> /\ q \in ids[p] \cap Queues
      /\ born' \subseteq Ids
  BY DEF Msgsnd, KernelTypeOK
<1>2. CASE Go(p, "send", CallOn(q)) /\ buf' = [buf EXCEPT ![p] = know[p]]
  <2>1. CallOn(q) \in Call /\ CallOn(q).id = q /\ "send" \in States /\ know[p] \in SUBSET Files
    BY CallTypes DEF States, Ids, CallsInv, ProcTypeOK
  <2>2. buf'[p] \subseteq Files /\ buf' = [buf EXCEPT ![p] = buf'[p]]
    BY <1>2, <2>1, Buffered
  <2>3. QED
    BY <1>1, <1>2, <2>1, <2>2, SameMemory, Moved
<1>3. CASE UNCHANGED <<pc, on, buf>>
  BY <1>1, <1>3, SameMemory, Stayed
<1>4. QED
  BY <1>2, <1>3 DEF Msgsnd

LEMMA SendMsgCall ==
  ASSUME CallsInv, KernelTypeOK, NEW p \in Pids, SendMsg(p)
  PROVE  Alone(p) /\ CallsInv'
<1>1. /\ UNCHANGED <<born, ids, know, slips, lost>> /\ Go(p, "idle", NoCall)
      /\ buf' = [buf EXCEPT ![p] = {}] /\ born' \subseteq Ids
      /\ NoCall \in Call /\ "idle" \in States /\ {} \in SUBSET Files
  BY CallTypes DEF SendMsg, Return, KernelTypeOK, States
<1>2. buf'[p] \subseteq Files /\ buf' = [buf EXCEPT ![p] = buf'[p]]
  BY <1>1, Buffered
<1>3. QED
  BY <1>1, <1>2, SameMemory, Moved

LEMMA MsgrcvCall ==
  ASSUME CallsInv, KernelTypeOK, NEW p \in Pids, NEW q \in Queues, Msgrcv(p, q)
  PROVE  Alone(p) /\ CallsInv'
<1>1. /\ UNCHANGED <<born, ids, know, slips, lost>> /\ Go(p, "receive", CallOn(q))
      /\ q \in ids[p] \cap Queues /\ born' \subseteq Ids
      /\ CallOn(q) \in Call /\ CallOn(q).id = q /\ "receive" \in States
  BY CallTypes DEF Msgrcv, KernelTypeOK, States, Ids
<1>2. PICK msg \in data[q] : buf' = [buf EXCEPT ![p] = msg]
  BY DEF Msgrcv
<1>3. msg \in SUBSET Files
  BY DEF KernelTypeOK, Ids
<1>4. buf'[p] \subseteq Files /\ buf' = [buf EXCEPT ![p] = buf'[p]]
  BY <1>2, <1>3, Buffered
<1>5. QED
  BY <1>1, <1>4, SameMemory, Moved

LEMMA MsgrcvCheckCall ==
  ASSUME CallsInv, KernelTypeOK, NEW p \in Pids, MsgrcvCheck(p)
  PROVE  Alone(p) /\ CallsInv'
<1>1. /\ UNCHANGED <<born, ids, lost>> /\ Go(p, "idle", NoCall)
      /\ buf' = [buf EXCEPT ![p] = {}] /\ born' \subseteq Ids
      /\ NoCall \in Call /\ "idle" \in States /\ {} \in SUBSET Files
  BY CallTypes DEF MsgrcvCheck, Return, KernelTypeOK, States
<1>2. \/ UNCHANGED <<know, slips>>
      \/ /\ know' = [know EXCEPT ![p] = @ \cup buf[p]]
         /\ \E how \in {{}, {"gone"}, {"tail"}, {"empty"}} : slips' = slips \cup how
  BY DEF MsgrcvCheck, Kept, Cleared, Unnoticed
<1>3. /\ know'[p] \subseteq Files /\ know' = [know EXCEPT ![p] = know'[p]]
      /\ slips' \subseteq Slips
  BY <1>2 DEF CallsInv, ProcTypeOK, Slips
<1>4. buf'[p] \subseteq Files /\ buf' = [buf EXCEPT ![p] = buf'[p]]
  BY <1>1, Buffered
<1>5. QED
  BY <1>1, <1>3, <1>4, Moved

LEMMA MsgctlCall ==
  ASSUME CallsInv, KernelTypeOK, NEW p \in Pids, NEW q \in Queues, NEW cmd \in Cmds,
         Msgctl(p, q, cmd)
  PROVE  Alone(p) /\ CallsInv'
<1> DEFINE c == [CallOn(q) EXCEPT !.cmd = cmd]
<1>1. /\ UNCHANGED <<born, ids, know, buf, slips, lost>> /\ Go(p, "control", c)
      /\ q \in ids[p] \cap Queues /\ born' \subseteq Ids
      /\ c \in Call /\ c.id = q /\ "control" \in States
  BY CallTypes DEF Msgctl, KernelTypeOK, States, Ids
<1> HIDE DEF c
<1>2. QED
  BY <1>1, SameMemory, Moved

LEMMA MsgctlCheckCall ==
  ASSUME CallsInv, KernelTypeOK, NEW p \in Pids, MsgctlCheck(p)
  PROVE  Alone(p) /\ CallsInv'
<1>1. CASE /\ Go(p, "remove", on[p]) \/ Go(p, "idle", NoCall)
           /\ UNCHANGED <<born, ids, know, buf, slips, lost>>
  <2>1. /\ on[p] \in Call /\ NoCall \in Call /\ {"remove", "idle"} \subseteq States
        /\ on[p].id \in ids[p] /\ born' \subseteq Ids
    BY <1>1, CallTypes DEF MsgctlCheck, At, CallsInv, CallInv, ProcTypeOK, KernelTypeOK, States
  <2>2. QED
    BY <1>1, <2>1, SameMemory, Moved
<1>2. CASE Die(p) /\ UNCHANGED <<born, slips, lost>>
  BY <1>2, Died DEF CallsInv, ProcTypeOK
<1>3. QED
  BY <1>1, <1>2 DEF MsgctlCheck

LEMMA RemoveCall ==
  ASSUME CallsInv, KernelTypeOK, NEW p \in Pids, Remove(p)
  PROVE  Alone(p) /\ CallsInv'
<1>1. /\ UNCHANGED <<born, ids, know, buf, slips, lost>> /\ Go(p, "idle", NoCall)
      /\ born' \subseteq Ids /\ NoCall \in Call /\ "idle" \in States
  BY CallTypes DEF Remove, KernelTypeOK, States
<1>2. QED
  BY <1>1, SameMemory, Moved

LEMMA SemopCall ==
  ASSUME CallsInv, KernelTypeOK, NEW p \in Pids, NEW i \in Semaphores, NEW ops \in SemOps,
         Semop(p, i, ops)
  PROVE  Alone(p) /\ CallsInv'
<1> DEFINE args == [CallOn(i) EXCEPT !.ops = ops]
           read == [args EXCEPT !.passed = {"r"}]
<1>1. /\ UNCHANGED <<born, ids, know, buf, slips, lost>> /\ i \in ids[p] \cap Semaphores
      /\ born' \subseteq Ids /\ {"semwrite", "semop", "idle"} \subseteq States /\ NoCall \in Call
  BY CallTypes DEF Semop, KernelTypeOK, States
<1>2. args \in Call /\ args.id = i /\ read \in Call /\ read.id = i
  <2>1. args \in Call /\ args.id = i
    BY CallTypes DEF Ids
  <2> HIDE DEF args
  <2>2. QED
    BY <2>1 DEF Call
<1>3. \/ UNCHANGED <<pc, on>>
      \/ Go(p, "idle", NoCall)
      \/ \E x \in {"semwrite", "semop"}, c \in {args, read} : Go(p, x, c)
  BY DEF Semop, AfterRead
<1> HIDE DEF args, read
<1>4. CASE UNCHANGED <<pc, on>>
  BY <1>1, <1>4, SameMemory, Stayed
<1>5. CASE Go(p, "idle", NoCall)
  BY <1>1, <1>5, SameMemory, Moved
<1>6. CASE \E x \in {"semwrite", "semop"}, c \in {args, read} : Go(p, x, c)
  <2>1. PICK x \in {"semwrite", "semop"}, c \in {args, read} : Go(p, x, c)
    BY <1>6
  <2>2. x \in States /\ c \in Call /\ c.id \in ids[p] \cap Semaphores
    BY <1>1, <1>2
  <2>3. QED
    BY <1>1, <2>1, <2>2, SameMemory, Moved
<1>7. QED
  BY <1>3, <1>4, <1>5, <1>6

LEMMA SemWriteCheckCall ==
  ASSUME CallsInv, KernelTypeOK, NEW p \in Pids, SemWriteCheck(p)
  PROVE  Alone(p) /\ CallsInv'
<1>1. /\ UNCHANGED <<born, ids, know, buf, slips, lost>>
      /\ on[p] \in Call /\ on[p].id \in ids[p] \cap Semaphores
      /\ born' \subseteq Ids /\ {"semop", "idle"} \subseteq States /\ NoCall \in Call
  BY CallTypes DEF SemWriteCheck, At, CallsInv, CallInv, ProcTypeOK, KernelTypeOK, States
<1>2. [on[p] EXCEPT !.passed = @ \cup {"w"}] \in Call
      /\ [on[p] EXCEPT !.passed = @ \cup {"w"}].id = on[p].id
  BY <1>1 DEF Call
<1>3. \/ Go(p, "semop", [on[p] EXCEPT !.passed = @ \cup {"w"}])
      \/ Go(p, "semop", on[p])
      \/ Go(p, "idle", NoCall)
  BY DEF SemWriteCheck
<1>4. QED
  BY <1>1, <1>2, <1>3, SameMemory, Moved

LEMMA SemopKernelCall ==
  ASSUME CallsInv, KernelTypeOK, NEW p \in Pids, SemopKernel(p)
  PROVE  Alone(p) /\ CallsInv'
<1>1. /\ UNCHANGED <<born, ids, buf, lost>> /\ Go(p, "idle", NoCall)
      /\ on[p].id \in Ids /\ (UNCHANGED know \/ Learn(p, on[p].id))
      /\ slips' \subseteq slips \cup {"semop"}
      /\ born' \subseteq Ids /\ NoCall \in Call /\ "idle" \in States
  BY CallTypes DEF SemopKernel, At, CallsInv, CallInv, ProcTypeOK, KernelTypeOK, States
<1>2. know'[p] \subseteq Files /\ know' = [know EXCEPT ![p] = know'[p]]
  BY <1>1, Learnt, SameMemory
<1>3. slips' \subseteq Slips
  BY <1>1 DEF CallsInv, ProcTypeOK, Slips
<1>4. QED
  BY <1>1, <1>2, <1>3, SameMemory, Moved

LEMMA SemctlCall ==
  ASSUME CallsInv, KernelTypeOK, NEW p \in Pids, NEW i \in Semaphores, NEW cmd \in Cmds,
         Semctl(p, i, cmd)
  PROVE  Alone(p) /\ CallsInv'
<1>1. /\ UNCHANGED <<born, ids, buf, lost>> /\ i \in ids[p] /\ i \in Ids
      /\ CallOn(i) \in Call /\ CallOn(i).id = i /\ "remove" \in States /\ born' \subseteq Ids
  BY CallTypes DEF Semctl, Ids, States, KernelTypeOK
<1>2. CASE Go(p, "remove", CallOn(i)) /\ UNCHANGED <<know, slips>>
  BY <1>1, <1>2, SameMemory, Moved
<1>3. CASE /\ UNCHANGED <<pc, on>> /\ (UNCHANGED know \/ Learn(p, i))
           /\ slips' = slips \cup {"semctl"}
  <2>1. know'[p] \subseteq Files /\ know' = [know EXCEPT ![p] = know'[p]]
    BY <1>1, <1>3, Learnt, SameMemory
  <2>2. slips' \subseteq Slips
    BY <1>3 DEF CallsInv, ProcTypeOK, Slips
  <2>3. QED
    BY <1>1, <1>3, <2>1, <2>2, Stayed
<1>4. QED
  BY <1>2, <1>3 DEF Semctl

LEMMA ReadFileCall ==
  ASSUME CallsInv, KernelTypeOK, NEW p \in Pids, NEW f \in Files, ReadFile(p, f)
  PROVE  Alone(p) /\ CallsInv'
<1>1. UNCHANGED <<pc, on, ids, buf, born, slips, lost>> /\ know' = [know EXCEPT ![p] = @ \cup {f}]
  BY DEF ReadFile
<1>2. know'[p] \subseteq Files /\ know' = [know EXCEPT ![p] = know'[p]]
  BY <1>1 DEF CallsInv, ProcTypeOK
<1>3. QED
  BY <1>1, <1>2, SameMemory, Stayed

\* The steps of process p.
Act(p) == \/ \E i \in Ids : Get(p, i)
          \/ \E q \in Queues : Msgsnd(p, q) \/ Msgrcv(p, q)
          \/ \E q \in Queues, cmd \in Cmds : Msgctl(p, q, cmd)
          \/ \E i \in Semaphores, ops \in SemOps : Semop(p, i, ops)
          \/ \E i \in Semaphores, cmd \in Cmds : Semctl(p, i, cmd)
          \/ GetCheck(p) \/ BadPointer(p) \/ SendMsg(p) \/ MsgrcvCheck(p)
          \/ MsgctlCheck(p) \/ Remove(p) \/ SemWriteCheck(p) \/ SemopKernel(p)
          \/ \E f \in Files : ReadFile(p, f)
          \/ Exit(p)

LEMMA CallsKept ==
  ASSUME CallsInv, KernelTypeOK, [Next]_vars
  PROVE  CallsInv' /\ (UNCHANGED vars \/ \E p \in Pids : Act(p) /\ Alone(p))
<1>1. ASSUME NEW p \in Pids, BadPointer(p) \/ Exit(p)
      PROVE  Alone(p) /\ CallsInv'
  BY <1>1, Died DEF BadPointer, Exit, CallsInv, ProcTypeOK
<1>2. CASE UNCHANGED vars
  BY <1>2 DEF vars, CallsInv, CallInv, ProcTypeOK
<1>3. ASSUME NEW p \in Pids, Act(p)
      PROVE  Alone(p) /\ CallsInv'
  BY <1>1, <1>3, GetCall, GetCheckCall, MsgsndCall, SendMsgCall, MsgrcvCall, MsgrcvCheckCall,
     MsgctlCall, MsgctlCheckCall, RemoveCall, SemopCall, SemWriteCheckCall, SemopKernelCall,
     SemctlCall, ReadFileCall DEF Act
<1>4. UNCHANGED vars \/ \E p \in Pids : Act(p)
  BY DEF Next, Act
<1>5. QED
  BY <1>2, <1>3, <1>4

-----------------------------------------------------------------------------
(* Type correctness *)

TypeInv == TypeOK /\ REInv /\ Registered /\ \A p \in Pids : CallInv(p)

LEMMA InitTypes == Init => TypeInv
<1> SUFFICES ASSUME Init PROVE TypeInv
  OBVIOUS
<1>1. \A p \in Pids : Sid(p) \in SubjectIds
  BY SidFacts
<1>2. subjects \in [DOMAIN subjects -> SubjectRow] /\ DOMAIN subjects \subseteq SubjectIds
  BY <1>1, DefaultRow DEF Init, SubjectIds
<1>3. objects \in [Files -> ObjectRow] /\ ObjectsInferred
  BY InferredObjectType DEF Init, ObjectsInferred
<1>4. RETypeOK
  BY <1>2, <1>3 DEF Init, RETypeOK
<1>5. OwnerKeepsAccess
  BY <1>1 DEF Init, OwnerKeepsAccess, DefaultSubject, SubjectIds
<1>6. IpcTypeOK /\ KernelTypeOK
  BY DEF Init, IpcTypeOK, KernelTypeOK
<1>7. ProcTypeOK
  BY CallTypes DEF Init, ProcTypeOK, States
<1>8. Registered /\ \A p \in Pids : CallInv(p)
  BY DEF Init, Registered, CallInv
<1>9. QED
  BY <1>3, <1>4, <1>5, <1>6, <1>7, <1>8, TypeOKParts DEF TypeInv, REInv

LEMMA TypesKept ==
  ASSUME TypeInv, [Next]_vars
  PROVE  /\ TypeInv' /\ RuleStep
         /\ UNCHANGED vars \/ \E p \in Pids : Act(p) /\ Alone(p)
<1>1. REInv /\ IpcTypeOK /\ KernelTypeOK /\ ProcTypeOK /\ CallsInv /\ Registered
  BY TypeOKParts DEF TypeInv, CallsInv
<1>2. RuleStep
  BY <1>1, RulesObeyed
<1>3. IpcTypeOK' /\ KernelTypeOK'
  BY <1>1, TablesTyped, KernelTyped
<1>4. CallsInv' /\ (UNCHANGED vars \/ \E p \in Pids : Act(p) /\ Alone(p))
  BY <1>1, CallsKept
<1>5. Registered'
  BY <1>1, <1>2, SidFacts DEF RuleStep, Registered
<1>6. REInv'
  BY <1>2 DEF RuleStep, REStep
<1>7. RETypeOK' /\ ProcTypeOK'
  BY <1>4, <1>6 DEF CallsInv, REInv
<1>8. TypeOK'
  BY <1>3, <1>7 DEF TypeOK, KernelTypeOK, ProcTypeOK, States
<1>9. QED
  BY <1>2, <1>4, <1>5, <1>6, <1>8 DEF TypeInv, CallsInv

LEMMA TypeInvariance == Spec => []TypeInv
<1>1. TypeInv /\ [Next]_vars => TypeInv'
  BY TypesKept
<1>2. QED
  BY InitTypes, <1>1, PTL DEF Spec

(***************************************************************************)
(* The tables, the kernel's objects and the calls of the processes are     *)
(* well formed in every state: no id without its origin, no row for what   *)
(* is not of its kind.                                                     *)
(***************************************************************************)
THEOREM SystemVTypes == Spec => []TypeOK
<1>1. TypeInv => TypeOK
  BY DEF TypeInv
<1>2. QED
  BY TypeInvariance, <1>1, PTL

-----------------------------------------------------------------------------
(* Rows of queues and semaphores *)

\* The kernel makes nothing under an id it has given out before.
LEMMA NotBornAgain ==
  ASSUME ~Reuse, TypeInv, [Next]_vars
  PROVE  \A i \in born : i \in DOMAIN ipcs' => i \in DOMAIN ipcs
<1>1. ASSUME NEW p \in Pids, NEW i \in Ids, Get(p, i)
      PROVE  \A j \in born : j \in DOMAIN ipcs' => j \in DOMAIN ipcs
  BY <1>1 DEF Get
<1>2. ASSUME NEW p \in Pids, NEW q \in Queues, NEW cmd \in Cmds, Msgctl(p, q, cmd)
      PROVE  DOMAIN ipcs' \subseteq DOMAIN ipcs
  BY <1>2 DEF Msgctl, Removed
<1>3. ASSUME NEW p \in Pids, NEW i \in Semaphores, NEW cmd \in Cmds, Semctl(p, i, cmd)
      PROVE  DOMAIN ipcs' \subseteq DOMAIN ipcs
  BY <1>3 DEF Semctl, Removed
<1>4. QED
  BY <1>1, <1>2, <1>3 DEF Next, vars, Msgsnd, Msgrcv, Semop, GetCheck, BadPointer, SendMsg,
     MsgrcvCheck, MsgctlCheck, Remove, SemWriteCheck, SemopKernel, ReadFile, Exit

LEMMA RowFacts ==
  ASSUME IpcTypeOK, NEW i
  PROVE  /\ i \in Queues => /\ HasRow(i) <=> i \in DOMAIN all_msgq_objects
                            /\ Row(i) = all_msgq_objects[i]
         /\ i \in Semaphores => /\ HasRow(i) <=> i \in DOMAIN all_sem_objects
                                /\ Row(i) = all_sem_objects[i]
         /\ HasRow(i) => i \in Ids /\ Row(i) \in Label
  BY IpcAssumption DEF IpcTypeOK, HasRow, Row, Ids

\* A row is added for whoever called msgget or semget, and no other row is touched.
LEMMA RowAdded ==
  ASSUME TypeInv, TypeInv', NEW p \in Pids, GetCheck(p)
  PROVE  \A i : /\ i = on[p].id => HasRow(i)'
                /\ HasRow(i) => HasRow(i)' /\ Row(i)' = Row(i)
<1>1. IpcTypeOK /\ IpcTypeOK'
  BY DEF TypeInv, TypeOK
<1>2. ASSUME NEW q \in Queues, NEW label, create_msgq_check(q, label)
      PROVE  HasRow(q)' /\ \A i : HasRow(i) => HasRow(i)' /\ Row(i)' = Row(i)
  BY <1>1, <1>2, IpcAssumption DEF create_msgq_check, AddRow, IpcTypeOK, HasRow, Row
<1>3. ASSUME NEW j \in Semaphores, NEW label, create_sem_check(j, label)
      PROVE  HasRow(j)' /\ \A i : HasRow(i) => HasRow(i)' /\ Row(i)' = Row(i)
  BY <1>1, <1>3, IpcAssumption DEF create_sem_check, AddRow, IpcTypeOK, HasRow, Row
<1>4. QED
  BY <1>2, <1>3 DEF GetCheck

LEMMA RowRemoved ==
  ASSUME TypeInv, NEW p \in Pids, Remove(p)
  PROVE  \A i : i # on[p].id /\ HasRow(i) => HasRow(i)' /\ Row(i)' = Row(i)
<1>1. IpcTypeOK
  BY DEF TypeInv, TypeOK
<1>2. QED
  BY <1>1, IpcAssumption DEF Remove, remove_msgq_check, remove_sem_check, WithoutRow,
                             IpcTypeOK, HasRow, Row

\* What exists in the kernel keeps its row, and its label.
LEMMA RowsKept ==
  ASSUME TypeInv, IpcInv, [Next]_vars
  PROVE  \A i \in DOMAIN ipcs : HasRow(i) => HasRow(i)' /\ Row(i)' = Row(i)
<1>1. TypeInv'
  BY TypesKept
<1>2. CASE UNCHANGED ipcvars
  BY <1>2 DEF ipcvars, HasRow, Row
<1>3. ASSUME NEW p \in Pids, GetCheck(p)
      PROVE  \A i \in DOMAIN ipcs : HasRow(i) => HasRow(i)' /\ Row(i)' = Row(i)
  BY <1>1, <1>3, RowAdded
<1>4. ASSUME NEW p \in Pids, Remove(p)
      PROVE  \A i \in DOMAIN ipcs : HasRow(i) => HasRow(i)' /\ Row(i)' = Row(i)
  <2>1. on[p].id \notin DOMAIN ipcs
    BY <1>4 DEF Remove, At, IpcInv, RowInv, Removing
  <2>2. QED
    BY <1>4, <2>1, RowRemoved
<1>5. QED
  BY <1>2, <1>3, <1>4, TableSteps

\* A process gets an id when there is a row.
LEMMA IdsGetRows ==
  ASSUME TypeInv, [Next]_vars, NEW r \in Pids
  PROVE  \A i \in ids'[r] : i \in ids[r] \/ HasRow(i)'
<1>1. TypeInv'
  BY TypesKept
<1>2. ASSUME NEW p \in Pids, GetCheck(p)
      PROVE  \A i \in ids'[r] : i \in ids[r] \/ HasRow(i)'
  <2>1. \A i \in ids'[r] : i \in ids[r] \/ i = on[p].id
    BY <1>2 DEF GetCheck, TypeInv, TypeOK
  <2>2. QED
    BY <1>1, <1>2, <2>1, RowAdded
<1>3. ASSUME NEW p \in Pids, Die(p)
      PROVE  ids'[r] \subseteq ids[r]
  BY <1>3 DEF Die, TypeInv, TypeOK
<1>4. QED
  BY <1>2, <1>3 DEF Next, vars, Get, Msgsnd, Msgrcv, Semop, BadPointer, SendMsg, Msgctl, Semctl,
     MsgrcvCheck, MsgctlCheck, Remove, SemWriteCheck, SemopKernel, ReadFile, Exit

\* A removal is on its way in a process that was on its way, or that removed just now.
LEMMA RemovalBegins ==
  ASSUME TypeInv, [Next]_vars, NEW r \in Pids, Removing(r)'
  PROVE  \/ Removing(r) /\ on'[r] = on[r]
         \/ on'[r].id \notin DOMAIN ipcs'
<1>1. ProcTypeOK
  BY TypeOKParts DEF TypeInv
<1>2. ASSUME NEW p \in Pids, NEW x \in States \ {"control", "remove"}, NEW c, Go(p, x, c)
      PROVE  Removing(r) /\ on'[r] = on[r]
  BY <1>1, <1>2 DEF Go, Removing, ProcTypeOK
<1>3. ASSUME UNCHANGED <<pc, on>>
      PROVE  Removing(r) /\ on'[r] = on[r]
  BY <1>3 DEF Removing
<1>4. ASSUME NEW p \in Pids, NEW q \in Queues, NEW cmd \in Cmds, Msgctl(p, q, cmd)
      PROVE  (Removing(r) /\ on'[r] = on[r]) \/ on'[r].id \notin DOMAIN ipcs'
  <2>1. Go(p, "control", [CallOn(q) EXCEPT !.cmd = cmd])
    BY <1>4 DEF Msgctl
  <2>2. /\ [CallOn(q) EXCEPT !.cmd = cmd].id = q
        /\ [CallOn(q) EXCEPT !.cmd = cmd].cmd = cmd
    BY CallTypes DEF Ids
  <2>3. CASE r # p
    BY <1>1, <2>1, <2>3 DEF Go, Removing, ProcTypeOK
  <2>4. CASE r = p
    <3>1. on'[p].id = q /\ on'[p].cmd = cmd /\ pc'[p] = "control"
      BY <1>1, <2>1, <2>2 DEF Go, ProcTypeOK
    <3>2. cmd = "IPC_RMID"
      BY <2>4, <3>1 DEF Removing
    <3>3. Removed(q)
      BY <1>4, <3>2 DEF Msgctl
    <3>4. QED
      BY <2>4, <3>1, <3>3 DEF Removed
  <2>5. QED
    BY <2>3, <2>4
<1>5. ASSUME NEW p \in Pids, MsgctlCheck(p), Go(p, "remove", on[p]), on[p].cmd = "IPC_RMID"
      PROVE  Removing(r) /\ on'[r] = on[r]
  BY <1>1, <1>5 DEF Go, Removing, ProcTypeOK, MsgctlCheck, At
<1>6. ASSUME NEW p \in Pids, NEW i \in Semaphores, Removed(i), Go(p, "remove", CallOn(i))
      PROVE  (Removing(r) /\ on'[r] = on[r]) \/ on'[r].id \notin DOMAIN ipcs'
  <2>1. CallOn(i).id = i
    BY CallTypes DEF Ids
  <2>2. r # p => Removing(r) /\ on'[r] = on[r]
    BY <1>1, <1>6 DEF Go, Removing, ProcTypeOK
  <2>3. r = p => on'[r].id = i
    BY <1>1, <1>6, <2>1 DEF Go, ProcTypeOK
  <2>4. QED
    BY <1>6, <2>2, <2>3 DEF Removed
<1>7. ASSUME NEW p \in Pids, NEW i \in Semaphores, NEW ops \in SemOps, Semop(p, i, ops)
      PROVE  Removing(r) /\ on'[r] = on[r]
  <2>1. ASSUME NEW args, AfterRead(p, args)
        PROVE  Removing(r) /\ on'[r] = on[r]
    BY <1>2, <2>1 DEF AfterRead, States
  <2>2. ASSUME NEW args, Go(p, "semwrite", args)
        PROVE  Removing(r) /\ on'[r] = on[r]
    BY <1>2, <2>2 DEF States
  <2>3. QED
    BY <1>3, <1>7, <2>1, <2>2 DEF Semop
<1>8. ASSUME NEW p \in Pids, SemWriteCheck(p) \/ SemopKernel(p)
      PROVE  Removing(r) /\ on'[r] = on[r]
  BY <1>2, <1>8 DEF SemWriteCheck, SemopKernel, States
<1>9. ASSUME NEW p \in Pids, MsgctlCheck(p)
      PROVE  Removing(r) /\ on'[r] = on[r]
  BY <1>2, <1>5, <1>9 DEF MsgctlCheck, Die, States
<1>10. ASSUME NEW p \in Pids, NEW i \in Semaphores, NEW cmd \in Cmds, Semctl(p, i, cmd)
       PROVE  (Removing(r) /\ on'[r] = on[r]) \/ on'[r].id \notin DOMAIN ipcs'
  BY <1>3, <1>6, <1>10 DEF Semctl
<1>11. ASSUME NEW p \in Pids,
              \/ \E i \in Ids : Get(p, i)
              \/ \E q \in Queues : Msgsnd(p, q) \/ Msgrcv(p, q)
              \/ GetCheck(p) \/ BadPointer(p) \/ SendMsg(p) \/ MsgrcvCheck(p) \/ Remove(p)
              \/ Exit(p) \/ \E f \in Files : ReadFile(p, f)
       PROVE  Removing(r) /\ on'[r] = on[r]
  <2>1. {"idle", "got", "send", "receive", "dead"} \subseteq States \ {"control", "remove"}
    BY DEF States
  <2>2. ASSUME \E i \in Ids : Get(p, i)
        PROVE  Removing(r) /\ on'[r] = on[r]
    BY <1>2, <2>1, <2>2 DEF Get
  <2>3. ASSUME \E q \in Queues : Msgsnd(p, q) \/ Msgrcv(p, q)
        PROVE  Removing(r) /\ on'[r] = on[r]
    BY <1>2, <1>3, <2>1, <2>3 DEF Msgsnd, Msgrcv
  <2>4. ASSUME GetCheck(p) \/ SendMsg(p) \/ MsgrcvCheck(p) \/ Remove(p)
        PROVE  Removing(r) /\ on'[r] = on[r]
    BY <1>2, <2>1, <2>4 DEF GetCheck, SendMsg, MsgrcvCheck, Remove, Return
  <2>5. ASSUME BadPointer(p) \/ Exit(p)
        PROVE  Removing(r) /\ on'[r] = on[r]
    BY <1>2, <2>1, <2>5 DEF BadPointer, Exit, Die
  <2>6. QED
    BY <1>3, <1>11, <2>2, <2>3, <2>4, <2>5 DEF ReadFile
<1>12. CASE UNCHANGED vars
  BY <1>3, <1>12 DEF vars
<1>13. QED
  BY <1>4, <1>7, <1>8, <1>9, <1>10, <1>11, <1>12 DEF Next

\* Only what exists in the kernel gets messages or a new value, from who has its id.
LEMMA DataComes ==
  ASSUME TypeInv, [Next]_vars, NEW i \in Ids, data'[i] # {}
  PROVE  /\ data[i] # {} \/ \E p \in Pids : i \in ids[p] \cap DOMAIN ipcs
         /\ i \in DOMAIN ipcs => i \in DOMAIN ipcs'
<1>1. KernelTypeOK /\ ProcTypeOK /\ CallsInv
  BY TypeOKParts DEF TypeInv, CallsInv
<1>2. ASSUME NEW p \in Pids, NEW j \in ids[p] \cap Ids, j \in DOMAIN ipcs,
             \A k \in Ids \ {j} : data'[k] = data[k], UNCHANGED ipcs
      PROVE  /\ data[i] # {} \/ \E q \in Pids : i \in ids[q] \cap DOMAIN ipcs
             /\ i \in DOMAIN ipcs => i \in DOMAIN ipcs'
  BY <1>2
<1>3. ASSUME NEW j \in Ids, Removed(j)
      PROVE  /\ data[i] # {}
             /\ i \in DOMAIN ipcs => i \in DOMAIN ipcs'
  BY <1>1, <1>3 DEF Removed, KernelTypeOK
<1>4. ASSUME UNCHANGED data, DOMAIN ipcs \subseteq DOMAIN ipcs'
      PROVE  /\ data[i] # {}
             /\ i \in DOMAIN ipcs => i \in DOMAIN ipcs'
  BY <1>4
<1>5. ASSUME NEW p \in Pids, SendMsg(p)
      PROVE  /\ data[i] # {} \/ \E q \in Pids : i \in ids[q] \cap DOMAIN ipcs
             /\ i \in DOMAIN ipcs => i \in DOMAIN ipcs'
  <2>1. on[p].id \in ids[p] \cap Ids /\ UNCHANGED ipcs
    BY <1>1, <1>5 DEF SendMsg, At, CallsInv, CallInv, Ids
  <2>2. \A k \in Ids \ {on[p].id} : data'[k] = data[k]
    BY <1>1, <1>5 DEF SendMsg, KernelTypeOK
  <2>3. on[p].id \in DOMAIN ipcs \/ UNCHANGED data
    BY <1>5 DEF SendMsg, Writable
  <2>4. QED
    BY <1>2, <1>4, <2>1, <2>2, <2>3
<1>6. ASSUME NEW p \in Pids, SemopKernel(p)
      PROVE  /\ data[i] # {} \/ \E q \in Pids : i \in ids[q] \cap DOMAIN ipcs
             /\ i \in DOMAIN ipcs => i \in DOMAIN ipcs'
  <2>1. on[p].id \in ids[p] \cap Ids /\ UNCHANGED ipcs
    BY <1>1, <1>6 DEF SemopKernel, At, CallsInv, CallInv, Ids
  <2>2. \A k \in Ids \ {on[p].id} : data'[k] = data[k]
    BY <1>1, <1>6 DEF SemopKernel, Tell, KernelTypeOK
  <2>3. on[p].id \in DOMAIN ipcs \/ UNCHANGED data
    BY <1>6 DEF SemopKernel, Writable
  <2>4. QED
    BY <1>2, <1>4, <2>1, <2>2, <2>3
<1>7. ASSUME NEW p \in Pids, NEW j \in Semaphores, NEW cmd \in Cmds, Semctl(p, j, cmd)
      PROVE  /\ data[i] # {} \/ \E q \in Pids : i \in ids[q] \cap DOMAIN ipcs
             /\ i \in DOMAIN ipcs => i \in DOMAIN ipcs'
  <2>1. j \in ids[p] \cap Ids
    BY <1>7 DEF Semctl, Ids
  <2>2. CASE Removed(j)
    BY <1>3, <2>1, <2>2
  <2>3. CASE UNCHANGED <<ipcs, data>>
    BY <1>4, <2>3
  <2>4. CASE Writable(p, j) /\ Tell(p, j) /\ UNCHANGED ipcs
    <3>1. \A k \in Ids \ {j} : data'[k] = data[k]
      BY <1>1, <2>4 DEF Tell, KernelTypeOK
    <3>2. QED
      BY <1>2, <2>1, <2>4, <3>1 DEF Writable
  <2>5. QED
    BY <1>7, <2>2, <2>3, <2>4 DEF Semctl
<1>8. ASSUME NEW p \in Pids, NEW q \in Queues, Msgrcv(p, q)
      PROVE  /\ data[i] # {}
             /\ i \in DOMAIN ipcs => i \in DOMAIN ipcs'
  BY <1>1, <1>8 DEF Msgrcv, KernelTypeOK
<1>9. ASSUME NEW p \in Pids, NEW q \in Queues, NEW cmd \in Cmds, Msgctl(p, q, cmd)
      PROVE  /\ data[i] # {}
             /\ i \in DOMAIN ipcs => i \in DOMAIN ipcs'
  BY <1>3, <1>4, <1>9 DEF Msgctl, Ids
<1>10. QED
  BY <1>4, <1>5, <1>6, <1>7, <1>8, <1>9
     DEF Next, vars, Get, Msgsnd, Semop, GetCheck, BadPointer, MsgrcvCheck, MsgctlCheck, Remove,
         SemWriteCheck, ReadFile, Exit

LEMMA IpcInvKept ==
  ASSUME ~Reuse, TypeInv, IpcInv, [Next]_vars
  PROVE  IpcInv'
<1>1. KernelTypeOK /\ ProcTypeOK /\ KernelTypeOK' /\ ProcTypeOK'
  BY TypesKept, TypeOKParts DEF TypeInv, TypeOK, KernelTypeOK, ProcTypeOK, States
<1>2. \A i \in DOMAIN ipcs : HasRow(i) => HasRow(i)'
  BY RowsKept
<1>3. \A i \in born : i \in DOMAIN ipcs' => i \in DOMAIN ipcs
  BY NotBornAgain
<1>4. ASSUME NEW r \in Pids
      PROVE  RowInv(r)'
  <2>1. ASSUME NEW i \in ids'[r], i \in DOMAIN ipcs'
        PROVE  HasRow(i)'
    <3>1. CASE i \in ids[r]
      <4>1. i \in born
        BY <1>1, <3>1 DEF ProcTypeOK
      <4>2. i \in DOMAIN ipcs
        BY <1>3, <2>1, <4>1
      <4>3. QED
        BY <1>2, <3>1, <4>2 DEF IpcInv, RowInv
    <3>2. QED
      BY <3>1, IdsGetRows
  <2>2. ASSUME Removing(r)'
        PROVE  on'[r].id \notin DOMAIN ipcs'
    <3>1. CASE Removing(r) /\ on'[r] = on[r]
      <4>1. on[r].id \in born
        BY <1>1, <3>1 DEF Removing, TypeInv, CallInv, ProcTypeOK
      <4>2. on[r].id \notin DOMAIN ipcs
        BY <3>1 DEF IpcInv, RowInv
      <4>3. QED
        BY <1>3, <3>1, <4>1, <4>2
    <3>2. QED
      BY <2>2, <3>1, RemovalBegins
  <2>3. QED
    BY <2>1, <2>2 DEF RowInv
<1>5. ASSUME NEW i \in Ids, data'[i] # {}
      PROVE  i \in DOMAIN ipcs' /\ HasRow(i)'
  <2>1. i \in DOMAIN ipcs /\ HasRow(i)
    BY <1>5, DataComes DEF IpcInv, DataInv, RowInv
  <2>2. QED
    BY <1>2, <1>5, <2>1, DataComes
<1>6. QED
  BY <1>4, <1>5 DEF IpcInv, DataInv

LEMMA InitIpc == Init => IpcInv
  BY DEF Init, IpcInv, DataInv, RowInv, Removing

LEMMA IpcInvariance == ~Reuse => (Spec => [](TypeInv /\ IpcInv))
<1> SUFFICES ASSUME ~Reuse PROVE Spec => [](TypeInv /\ IpcInv)
  OBVIOUS
<1>1. TypeInv /\ IpcInv /\ [Next]_vars => (TypeInv /\ IpcInv)'
  BY TypesKept, IpcInvKept
<1>2. QED
  BY InitTypes, InitIpc, <1>1, PTL DEF Spec

(***************************************************************************)
(* As long as no id is given out again, no interleaving of msgget, msgctl, *)
(* semget and semctl takes the row of what exists in the kernel, or        *)
(* changes it: each removal that is still on its way is for something that *)
(* is gone.                                                                *)
(***************************************************************************)
THEOREM LabelsFixed == ~Reuse => (Spec => IpcLabelsFixed)
<1> SUFFICES ASSUME ~Reuse PROVE Spec => IpcLabelsFixed
  OBVIOUS
<1> DEFINE Fixed == \A i \in DOMAIN ipcs \cap DOMAIN ipcs' :
                      HasRow(i) => HasRow(i)' /\ Row(i)' = Row(i)
<1>1. TypeInv /\ IpcInv /\ [Next]_vars => [Fixed]_vars
  BY RowsKept
<1>2. QED
  BY IpcInvariance, <1>1, PTL DEF Spec, IpcLabelsFixed

LEMMA EndOfServer ==
  ASSUME TypeInv, IpcInv, [Next]_vars, server = "up", server' = "stopped"
  PROVE  \E p \in Pids : ~(ids[p] \subseteq DOMAIN ipcs)
<1>1. /\ IpcTypeOK /\ CallsInv /\ Registered
  BY TypeOKParts DEF TypeInv, CallsInv
<1>2. ASSUME NEW p \in Pids, NEW q \in ids[p] \cap Queues, DOMAIN all_msgq_objects = {}
      PROVE  ~(ids[p] \subseteq DOMAIN ipcs)
  BY <1>1, <1>2, RowFacts DEF IpcInv, RowInv
<1>3. ASSUME NEW p \in Pids, NEW i \in ids[p] \cap Semaphores, DOMAIN all_sem_objects = {}
      PROVE  ~(ids[p] \subseteq DOMAIN ipcs)
  BY <1>1, <1>3, RowFacts DEF IpcInv, RowInv
<1>4. ASSUME NEW p \in Pids, NEW q \in ids[p] \cap Queues, NEW ret,
             msgrcv_check(Sid(p), q, ret) \/ msgsnd_check(Sid(p), q, ret)
      PROVE  ~(ids[p] \subseteq DOMAIN ipcs)
  BY <1>1, <1>2, <1>4 DEF msgrcv_check, msgsnd_check, ipc_read_check, ipc_write_check, Missing,
                          StopServer, revars, Registered
<1>5. ASSUME NEW p \in Pids, NEW i \in ids[p] \cap Semaphores, NEW ret,
             sem_read_check(Sid(p), i, ret) \/ sem_write_check(Sid(p), i, ret)
      PROVE  ~(ids[p] \subseteq DOMAIN ipcs)
  BY <1>1, <1>3, <1>5 DEF sem_read_check, sem_write_check, ipc_read_check, ipc_write_check,
                          Missing, StopServer, revars, Registered
<1>6. ASSUME NEW p \in Pids, NEW q \in Queues, Msgsnd(p, q)
      PROVE  ~(ids[p] \subseteq DOMAIN ipcs)
  BY <1>4, <1>6 DEF Msgsnd
<1>7. ASSUME NEW p \in Pids, MsgrcvCheck(p) \/ MsgctlCheck(p)
      PROVE  ~(ids[p] \subseteq DOMAIN ipcs)
  <2>1. on[p].id \in ids[p] \cap Queues
    BY <1>1, <1>7 DEF MsgrcvCheck, MsgctlCheck, At, CallsInv, CallInv
  <2>2. QED
    BY <1>4, <1>7, <2>1 DEF MsgrcvCheck, MsgctlCheck, revars
<1>8. ASSUME NEW p \in Pids, NEW i \in Semaphores, NEW ops \in SemOps, Semop(p, i, ops)
      PROVE  ~(ids[p] \subseteq DOMAIN ipcs)
  BY <1>5, <1>8 DEF Semop, revars
<1>9. ASSUME NEW p \in Pids, SemWriteCheck(p)
      PROVE  ~(ids[p] \subseteq DOMAIN ipcs)
  <2>1. on[p].id \in ids[p] \cap Semaphores
    BY <1>1, <1>9 DEF SemWriteCheck, At, CallsInv, CallInv
  <2>2. QED
    BY <1>5, <1>9, <2>1 DEF SemWriteCheck
<1>10. QED
  BY <1>6, <1>7, <1>8, <1>9
     DEF Next, vars, revars, Get, GetCheck, BadPointer, SendMsg, Msgrcv, Msgctl, Remove,
         SemopKernel, Semctl, ReadFile, Exit, file_read_check, create_msgq_check,
         create_sem_check, remove_msgq_check, remove_sem_check

(***************************************************************************)
(* As long as no id is given out again, the server ends only when somebody *)
(* uses a queue or semaphore that was removed.                             *)
(***************************************************************************)
THEOREM ServerStopsForRemoved == ~Reuse => (Spec => StopsOnlyForRemoved)
<1> SUFFICES ASSUME ~Reuse PROVE Spec => StopsOnlyForRemoved
  OBVIOUS
<1> DEFINE Excused == server = "up" /\ server' = "stopped" =>
                        \E p \in Pids : ~(ids[p] \subseteq DOMAIN ipcs)
<1>1. TypeInv /\ IpcInv /\ [Next]_vars => [Excused]_vars
  BY EndOfServer
<1>2. QED
  BY IpcInvariance, <1>1, PTL DEF Spec, StopsOnlyForRemoved

-----------------------------------------------------------------------------
(* Information *)

LEMMA ToldFacts ==
  ASSUME NEW info, NEW more, NEW R
  PROVE  /\ \A S : Told(info, R) /\ S \subseteq R => Told(info, S)
         /\ Told(info, R) /\ Told(more, R) => Told(info \cup more, R)
         /\ Told({}, R)
  BY DEF Told

\* The label that a check of what exists in the kernel finds is its row.
LEMMA Fetched ==
  ASSUME IpcTypeOK, NEW p \in Pids, RowInv(p), NEW i \in ids[p], i \in DOMAIN ipcs
  PROVE  /\ HasRow(i)
         /\ i \in Queues => FetchedLabel(all_msgq_objects, i) = {Row(i)}
         /\ i \in Semaphores => FetchedLabel(all_sem_objects, i) = {Row(i)}
<1>1. HasRow(i)
  BY DEF RowInv
<1>2. QED
  BY <1>1, RowFacts DEF FetchedLabel

\* A read that is allowed takes from the readers those whom the row leaves out.
LEMMA ReadTold ==
  ASSUME REInv, NEW table, NEW s, NEW id, NEW row \in Label,
         FetchedLabel(table, id) = {row}, ipc_read_check(table, s, id, "allowed")
  PROVE  subjects'[s].readers \subseteq row.readers
<1>1. s \in DOMAIN subjects /\ subjects' = [subjects EXCEPT ![s] = Raise(@, row)]
  BY DEF ipc_read_check, Missing
<1>2. subjects[s] \in SubjectRow
  BY <1>1 DEF REInv, RETypeOK
<1>3. Raise(subjects[s], row).readers = subjects[s].readers \cap row.readers
  BY <1>2, RaiseRow DEF Label, UserSet
<1>4. QED
  BY <1>1, <1>3

\* A write that is allowed is to readers whom the subject has.
LEMMA WriteTold ==
  ASSUME NEW table, NEW s, NEW id, NEW row,
         FetchedLabel(table, id) = {row}, ipc_write_check(table, s, id, "allowed")
  PROVE  row.readers \subseteq subjects[s].readers
  BY DEF ipc_write_check, WriteAllowed, FlowsTo

Known == TypeInv /\ IpcInv /\ DataFlow /\ \A p \in Pids : FlowInv(p)

\* What a step keeps: the rows of what exists, and readers are only lost.
StepKept ==
  /\ \A i \in DOMAIN ipcs : HasRow(i) => HasRow(i)' /\ Row(i)' = Row(i)
  /\ \A i \in born : i \in DOMAIN ipcs' => i \in DOMAIN ipcs
  /\ \A r \in Pids : subjects'[Sid(r)].readers \subseteq subjects[Sid(r)].readers

LEMMA StepKeeps ==
  ASSUME ~Reuse, TypeInv, IpcInv, [Next]_vars
  PROVE  StepKept
<1>1. ASSUME NEW r \in Pids
      PROVE  subjects'[Sid(r)].readers \subseteq subjects[Sid(r)].readers
  BY TypesKept DEF RuleStep, REStep, TypeInv, Registered, FlowsTo
<1>2. QED
  BY <1>1, RowsKept, NotBornAgain DEF StepKept

LEMMA BystanderCovered ==
  ASSUME Known, StepKept, NEW r \in Pids, pc'[r] = pc[r], on'[r] = on[r],
         know'[r] = know[r], buf'[r] = buf[r]
  PROVE  FlowInv(r)'
<1>1. ASSUME pc[r] \in {"send", "receive", "semwrite", "semop"}, on[r].id \in DOMAIN ipcs'
      PROVE  on[r].id \in DOMAIN ipcs /\ \A i : i = on[r].id => Row(i)' = Row(i)
  <2>1. on[r].id \in ids[r]
    BY <1>1 DEF Known, TypeInv, CallInv
  <2>2. on[r].id \in born
    BY <2>1 DEF Known, TypeInv, TypeOK
  <2>3. on[r].id \in DOMAIN ipcs
    BY <1>1, <2>2 DEF StepKept
  <2>4. HasRow(on[r].id)
    BY <2>1, <2>3 DEF Known, IpcInv, RowInv
  <2>5. QED
    BY <2>3, <2>4 DEF StepKept
<1>2. FlowInv(r) /\ Sid(r)' = Sid(r)
  BY SidFacts DEF Known
<1>3. subjects'[Sid(r)].readers \subseteq subjects[Sid(r)].readers
  BY DEF StepKept
<1>4. QED
  BY <1>1, <1>2, <1>3, ToldFacts DEF FlowInv

\* A process without a message or a semaphore at hand need only know what it may.
LEMMA AtRest ==
  ASSUME NEW p \in Pids, pc'[p] \notin {"send", "receive", "semwrite", "semop"},
         Told(know'[p], subjects'[Sid(p)].readers)
  PROVE  FlowInv(p)'
  BY SidFacts DEF FlowInv

LEMMA Unmoved ==
  ASSUME Known, StepKept, NEW p \in Pids, know'[p] = know[p]
  PROVE  Told(know'[p], subjects'[Sid(p)].readers)
  BY ToldFacts DEF Known, StepKept, FlowInv

LEMMA MsgsndCovered ==
  ASSUME Known, StepKept, NEW p \in Pids, NEW q \in Queues, Msgsnd(p, q)
  PROVE  FlowInv(p)'
<1>1. CASE UNCHANGED <<pc, on, buf, know>>
  BY <1>1, BystanderCovered
<1>2. CASE /\ msgsnd_check(Sid(p), q, "allowed") /\ Go(p, "send", CallOn(q))
           /\ buf' = [buf EXCEPT ![p] = know[p]] /\ UNCHANGED <<ipcs, know>>
  <2>1. /\ pc'[p] = "send" /\ on'[p].id = q /\ buf'[p] = know[p] /\ know'[p] = know[p]
    BY <1>2, CallTypes DEF Go, Known, TypeInv, TypeOK, Ids
  <2>2. Told(know'[p], subjects'[Sid(p)].readers)
    BY <1>2, Unmoved
  <2>3. ASSUME q \in DOMAIN ipcs'
        PROVE  Told(buf'[p], Row(q)'.readers)
    <3>1. q \in DOMAIN ipcs /\ q \in ids[p] /\ RowInv(p) /\ IpcTypeOK
      BY <1>2, <2>3 DEF Msgsnd, Known, IpcInv, TypeInv, TypeOK
    <3>2. HasRow(q) /\ FetchedLabel(all_msgq_objects, q) = {Row(q)}
      BY <3>1, Fetched
    <3>3. Row(q).readers \subseteq subjects[Sid(p)].readers
      BY <1>2, <3>2, WriteTold DEF msgsnd_check
    <3>4. Told(know[p], Row(q).readers)
      BY <3>3, ToldFacts DEF Known, FlowInv
    <3>5. QED
      BY <2>1, <3>1, <3>2, <3>4 DEF StepKept
  <2>4. QED
    BY <2>1, <2>2, <2>3, SidFacts DEF FlowInv
<1>3. QED
  BY <1>1, <1>2 DEF Msgsnd

LEMMA MsgrcvCovered ==
  ASSUME Known, StepKept, NEW p \in Pids, NEW q \in Queues, Msgrcv(p, q)
  PROVE  FlowInv(p)'
<1>1. PICK msg \in data[q] : buf' = [buf EXCEPT ![p] = msg]
  BY DEF Msgrcv
<1>2. pc'[p] = "receive" /\ on'[p].id = q /\ buf'[p] = msg /\ know'[p] = know[p]
  BY <1>1, CallTypes DEF Msgrcv, Go, Known, TypeInv, TypeOK, Ids
<1>3. q \in DOMAIN ipcs /\ HasRow(q) /\ Told(msg, Row(q).readers)
  BY DEF Known, IpcInv, DataInv, DataFlow, Ids
<1>4. Told(buf'[p], Row(q)'.readers)
  BY <1>2, <1>3 DEF StepKept
<1>5. QED
  BY <1>2, <1>4, Unmoved, SidFacts DEF FlowInv

LEMMA MsgrcvCheckCovered ==
  ASSUME Known, StepKept, NEW p \in Pids, MsgrcvCheck(p), slips' = {}
  PROVE  FlowInv(p)'
<1> DEFINE q == on[p].id
<1>1. pc'[p] = "idle" /\ pc[p] = "receive" /\ UNCHANGED ipcs
  BY DEF MsgrcvCheck, Return, Go, At, Known, TypeInv, TypeOK
<1>2. CASE UNCHANGED know
  BY <1>1, <1>2, Unmoved, AtRest
<1>3. CASE msgrcv_check(Sid(p), q, "allowed") /\ Kept(p, Unnoticed(q))
  <2>1. q \in DOMAIN ipcs /\ know'[p] = know[p] \cup buf[p]
    BY <1>3 DEF Kept, Unnoticed, Known, TypeInv, TypeOK
  <2>2. q \in ids[p] \cap Queues /\ RowInv(p) /\ IpcTypeOK /\ REInv
    BY <1>1 DEF Known, TypeInv, TypeOK, CallInv, IpcInv
  <2>3. Told(buf[p], Row(q).readers)
    BY <1>1, <2>1 DEF Known, FlowInv
  <2>4. HasRow(q) /\ FetchedLabel(all_msgq_objects, q) = {Row(q)} /\ Row(q) \in Label
    BY <2>1, <2>2, Fetched, RowFacts
  <2>5. subjects'[Sid(p)].readers \subseteq Row(q).readers
    BY <1>3, <2>2, <2>4, ReadTold DEF msgrcv_check
  <2>6. Told(buf[p], subjects'[Sid(p)].readers)
    BY <2>3, <2>5, ToldFacts
  <2>7. Told(know[p], subjects'[Sid(p)].readers)
    BY ToldFacts DEF Known, StepKept, FlowInv
  <2>8. QED
    BY <1>1, <2>1, <2>6, <2>7, ToldFacts, AtRest
<1>4. ASSUME \/ Kept(p, {"tail"})
             \/ Kept(p, {"empty"})
      PROVE  FALSE
  BY <1>4 DEF Kept
<1>5. QED
  BY <1>2, <1>3, <1>4 DEF MsgrcvCheck, Cleared

\* A semop of which the checks so far are recorded, with what they have shown.
LEMMA SemCallCovered ==
  ASSUME Known, StepKept, NEW p \in Pids, NEW i \in ids[p] \cap Semaphores,
         UNCHANGED <<ipcs, know>>, on'[p].id = i,
         pc'[p] \in {"semwrite", "semop"},
         i \in DOMAIN ipcs /\ "r" \in on'[p].passed =>
           subjects'[Sid(p)].readers \subseteq Row(i).readers,
         i \in DOMAIN ipcs /\ "w" \in on'[p].passed => Told(know[p], Row(i).readers)
  PROVE  FlowInv(p)'
<1>1. i \in DOMAIN ipcs => Row(i)' = Row(i)
  BY DEF Known, IpcInv, RowInv, StepKept
<1>2. Told(know'[p], subjects'[Sid(p)].readers)
  BY Unmoved
<1>3. QED
  BY <1>1, <1>2, SidFacts DEF FlowInv

LEMMA SemopCovered ==
  ASSUME Known, StepKept, NEW p \in Pids, NEW i \in Semaphores, NEW ops \in SemOps,
         Semop(p, i, ops)
  PROVE  FlowInv(p)'
<1> DEFINE args == [CallOn(i) EXCEPT !.ops = ops]
           read == [args EXCEPT !.passed = {"r"}]
<1>1. /\ args.id = i /\ args.passed = {} /\ read.id = i /\ read.passed = {"r"}
  <2>1. args \in Call /\ args.id = i /\ args.passed = {}
    BY CallTypes DEF Ids
  <2> HIDE DEF args
  <2>2. QED
    BY <2>1 DEF Call
<1>2. \/ UNCHANGED <<pc, on>>
      \/ Go(p, "idle", NoCall)
      \/ \E x \in {"semwrite", "semop"} : Go(p, x, args)
      \/ \E x \in {"semwrite", "semop"} : Go(p, x, read) /\ sem_read_check(Sid(p), i, "allowed")
  BY DEF Semop, AfterRead
<1> HIDE DEF args, read
<1>3. /\ UNCHANGED <<ipcs, know, buf>> /\ i \in ids[p] \cap Semaphores
      /\ ProcTypeOK /\ IpcTypeOK /\ REInv /\ RowInv(p)
  BY TypeOKParts DEF Semop, Known, TypeInv, IpcInv
<1>4. CASE UNCHANGED <<pc, on>>
  BY <1>3, <1>4, BystanderCovered
<1>5. CASE Go(p, "idle", NoCall)
  <2>1. pc'[p] = "idle"
    BY <1>3, <1>5 DEF Go, ProcTypeOK
  <2>2. QED
    BY <1>3, <2>1, Unmoved, AtRest
<1>6. CASE \E x \in {"semwrite", "semop"} : Go(p, x, args)
  <2>1. pc'[p] \in {"semwrite", "semop"} /\ on'[p] = args
    BY <1>3, <1>6 DEF Go, ProcTypeOK
  <2>2. QED
    BY <1>1, <1>3, <2>1, SemCallCovered
<1>7. CASE /\ \E x \in {"semwrite", "semop"} : Go(p, x, read)
           /\ sem_read_check(Sid(p), i, "allowed")
  <2>1. pc'[p] \in {"semwrite", "semop"} /\ on'[p] = read
    BY <1>3, <1>7 DEF Go, ProcTypeOK
  <2>2. ASSUME i \in DOMAIN ipcs
        PROVE  subjects'[Sid(p)].readers \subseteq Row(i).readers
    <3>1. HasRow(i) /\ FetchedLabel(all_sem_objects, i) = {Row(i)} /\ Row(i) \in Label
      BY <1>3, <2>2, Fetched, RowFacts
    <3>2. QED
      BY <1>3, <1>7, <3>1, ReadTold DEF sem_read_check
  <2>3. QED
    BY <1>1, <1>3, <2>1, <2>2, SemCallCovered
<1>8. QED
  BY <1>2, <1>4, <1>5, <1>6, <1>7

LEMMA SemWriteCheckCovered ==
  ASSUME Known, StepKept, NEW p \in Pids, SemWriteCheck(p)
  PROVE  FlowInv(p)'
<1> DEFINE both == [on[p] EXCEPT !.passed = @ \cup {"w"}]
<1>1. /\ pc[p] = "semwrite" /\ UNCHANGED <<ipcs, know>>
      /\ on[p].id \in ids[p] \cap Semaphores /\ on[p] \in Call
      /\ ProcTypeOK /\ IpcTypeOK /\ RowInv(p)
  BY TypeOKParts DEF SemWriteCheck, At, Known, TypeInv, CallInv, IpcInv, ProcTypeOK
<1>2. both.id = on[p].id /\ both.passed = on[p].passed \cup {"w"}
  BY <1>1 DEF Call
<1>3. \/ Go(p, "idle", NoCall)
      \/ Go(p, "semop", on[p])
      \/ Go(p, "semop", both) /\ sem_write_check(Sid(p), on[p].id, "allowed")
  BY DEF SemWriteCheck
<1> HIDE DEF both
<1>4. on[p].id \in DOMAIN ipcs =>
        /\ "r" \in on[p].passed => subjects'[Sid(p)].readers \subseteq Row(on[p].id).readers
        /\ "w" \in on[p].passed => Told(know[p], Row(on[p].id).readers)
  BY <1>1 DEF Known, FlowInv, StepKept
<1>5. CASE Go(p, "idle", NoCall)
  <2>1. pc'[p] = "idle" /\ know'[p] = know[p]
    BY <1>1, <1>5 DEF Go, ProcTypeOK
  <2>2. QED
    BY <2>1, Unmoved, AtRest
<1>6. CASE Go(p, "semop", on[p])
  <2>1. pc'[p] = "semop" /\ on'[p] = on[p]
    BY <1>1, <1>6 DEF Go, ProcTypeOK
  <2>2. QED
    BY <1>1, <1>4, <2>1, SemCallCovered
<1>7. CASE Go(p, "semop", both) /\ sem_write_check(Sid(p), on[p].id, "allowed")
  <2>1. pc'[p] = "semop" /\ on'[p] = both
    BY <1>1, <1>7 DEF Go, ProcTypeOK
  <2>2. ASSUME on[p].id \in DOMAIN ipcs
        PROVE  Told(know[p], Row(on[p].id).readers)
    <3>1. FetchedLabel(all_sem_objects, on[p].id) = {Row(on[p].id)}
      BY <1>1, <2>2, Fetched
    <3>2. Row(on[p].id).readers \subseteq subjects[Sid(p)].readers
      BY <1>7, <3>1, WriteTold DEF sem_write_check
    <3>3. QED
      BY <3>2, ToldFacts DEF Known, FlowInv
  <2>3. QED
    BY <1>1, <1>2, <1>4, <2>1, <2>2, SemCallCovered
<1>8. QED
  BY <1>3, <1>5, <1>6, <1>7

LEMMA SemopKernelCovered ==
  ASSUME Known, StepKept, NEW p \in Pids, SemopKernel(p), slips' = {}
  PROVE  FlowInv(p)'
<1> DEFINE i == on[p].id
           R == subjects'[Sid(p)].readers
<1>1. /\ pc[p] = "semop" /\ i \in Ids /\ pc'[p] = "idle"
  BY DEF SemopKernel, Go, At, Known, TypeInv, TypeOK, CallInv, Ids
<1>2. Told(know[p], R)
  BY ToldFacts DEF Known, StepKept, FlowInv
<1>3. CASE UNCHANGED know
  BY <1>1, <1>2, <1>3, AtRest
<1>4. CASE /\ Reads(on[p].ops) /\ i \in DOMAIN ipcs /\ Learn(p, i)
  <2>1. "r" \in on[p].passed
    BY <1>4 DEF SemopKernel
  <2>2. subjects[Sid(p)].readers \subseteq Row(i).readers
    BY <1>1, <1>4, <2>1 DEF Known, FlowInv
  <2>3. R \subseteq Row(i).readers
    BY <2>2 DEF StepKept
  <2>4. Told(UNION data[i], R)
    BY <1>1, <2>3 DEF Known, DataFlow, Told
  <2>5. know'[p] = know[p] \cup UNION data[i]
    BY <1>4 DEF Learn, Known, TypeInv, TypeOK
  <2>6. Told(know'[p], R)
    BY <1>2, <2>4, <2>5, ToldFacts
  <2>7. QED
    BY <1>1, <2>6, AtRest
<1>5. QED
  BY <1>3, <1>4 DEF SemopKernel, Writable, Readable

LEMMA ReadFileCovered ==
  ASSUME Known, StepKept, NEW p \in Pids, NEW f \in Files, ReadFile(p, f)
  PROVE  FlowInv(p)'
<1>1. /\ know'[p] = know[p] \cup {f} /\ UNCHANGED pc /\ pc[p] = "idle"
      /\ f \in DOMAIN objects /\ Sid(p) \in DOMAIN subjects
      /\ subjects' = [subjects EXCEPT ![Sid(p)] = Raise(@, objects[f])]
      /\ subjects[Sid(p)] \in SubjectRow
      /\ objects[f] = InferredObject(f) /\ objects[f] \in ObjectRow
  BY DEF ReadFile, At, file_read_check, Known, TypeInv, TypeOK, REInv, RETypeOK, ObjectsInferred
<1>2. /\ subjects'[Sid(p)].readers = subjects[Sid(p)].readers \cap objects[f].readers
      /\ objects[f].readers = ReadersOf(f)
  BY <1>1, RaiseRow DEF ObjectRow, UserSet, InferredObject, ReadersOf
<1>3. Told(know[p], subjects'[Sid(p)].readers)
  BY ToldFacts DEF Known, StepKept, FlowInv
<1>4. Told(know'[p], subjects'[Sid(p)].readers)
  BY <1>1, <1>2, <1>3 DEF Told
<1>5. QED
  BY <1>1, <1>4, AtRest

\* What comes to a queue or a semaphore has been checked against its row.
LEMMA NewDataCovered ==
  ASSUME Known, NEW p \in Pids, SendMsg(p) \/ SemopKernel(p), slips' = {},
         NEW i \in Ids, NEW msg \in data'[i], msg \notin data[i]
  PROVE  i \in DOMAIN ipcs /\ HasRow(i) /\ Told(msg, Row(i).readers)
<1>1. CASE SendMsg(p)
  <2>1. i = on[p].id /\ msg = buf[p] /\ i \in DOMAIN ipcs /\ pc[p] = "send"
    BY <1>1 DEF SendMsg, Writable, At, Known, TypeInv, TypeOK
  <2>2. QED
    BY <2>1 DEF Known, FlowInv, TypeInv, CallInv, IpcInv, RowInv
<1>2. CASE SemopKernel(p)
  <2>1. /\ i = on[p].id /\ msg = know[p] \cup UNION data[i] /\ i \in DOMAIN ipcs
        /\ pc[p] = "semop" /\ Alters(on[p].ops)
    BY <1>2 DEF SemopKernel, Tell, Writable, At, Known, TypeInv, TypeOK
  <2>2. "w" \in on[p].passed
    BY <1>2, <2>1 DEF SemopKernel
  <2>3. Told(know[p], Row(i).readers)
    BY <2>1, <2>2 DEF Known, FlowInv
  <2>4. Told(UNION data[i], Row(i).readers)
    BY DEF Known, DataFlow, Told
  <2>5. HasRow(i)
    BY <2>1 DEF Known, TypeInv, CallInv, IpcInv, RowInv
  <2>6. QED
    BY <2>1, <2>3, <2>4, <2>5, ToldFacts
<1>3. QED
  BY <1>1, <1>2

LEMMA DataSteps ==
  ASSUME TypeInv, [Next]_vars, slips' = {}, NEW i \in Ids
  PROVE  data'[i] \subseteq data[i] \/ \E p \in Pids : SendMsg(p) \/ SemopKernel(p)
<1>1. data \in [Ids -> SUBSET SUBSET Files]
  BY DEF TypeInv, TypeOK
<1>2. ASSUME NEW j, Removed(j)
      PROVE  data'[i] \subseteq data[i]
  BY <1>1, <1>2 DEF Removed
<1>3. ASSUME NEW p \in Pids, NEW q \in Queues, Msgrcv(p, q)
      PROVE  data'[i] \subseteq data[i]
  BY <1>1, <1>3 DEF Msgrcv
<1>4. ASSUME NEW p \in Pids, NEW q \in Queues, NEW cmd \in Cmds, Msgctl(p, q, cmd)
      PROVE  data'[i] \subseteq data[i]
  BY <1>2, <1>4 DEF Msgctl
<1>5. ASSUME NEW p \in Pids, NEW j \in Semaphores, NEW cmd \in Cmds, Semctl(p, j, cmd)
      PROVE  data'[i] \subseteq data[i]
  BY <1>2, <1>5 DEF Semctl
<1>6. QED
  BY <1>3, <1>4, <1>5
     DEF Next, vars, Get, Msgsnd, Semop, GetCheck, BadPointer, MsgrcvCheck, MsgctlCheck, Remove,
         SemWriteCheck, ReadFile, Exit

LEMMA DataCovered ==
  ASSUME Known, StepKept, [Next]_vars, slips' = {}
  PROVE  DataFlow'
<1>1. ASSUME NEW i \in Ids, NEW msg \in data'[i]
      PROVE  Told(msg, Row(i)'.readers)
  <2>1. i \in DOMAIN ipcs /\ HasRow(i) /\ Told(msg, Row(i).readers)
    <3>1. CASE msg \in data[i]
      BY <3>1 DEF Known, IpcInv, DataInv, DataFlow
    <3>2. CASE msg \notin data[i]
      BY <3>2, DataSteps, NewDataCovered DEF Known
    <3>3. QED
      BY <3>1, <3>2
  <2>2. Row(i)' = Row(i)
    BY <2>1 DEF StepKept
  <2>3. QED
    BY <2>1, <2>2
<1>2. QED
  BY <1>1 DEF DataFlow

\* Whoever moves is covered afterwards, unless the step is a slip.
LEMMA MoverCovered ==
  ASSUME Known, StepKept, NEW p \in Pids, slips' = {}, Act(p)
  PROVE  FlowInv(p)'
<1>1. ProcTypeOK
  BY TypeOKParts DEF Known, TypeInv
<1>2. ASSUME NEW x \in {"idle", "got", "control", "remove"}, NEW c, Go(p, x, c), UNCHANGED know
      PROVE  FlowInv(p)'
  <2>1. pc'[p] = x
    BY <1>1, <1>2 DEF Go, ProcTypeOK
  <2>2. QED
    BY <1>2, <2>1, Unmoved, AtRest
<1>3. ASSUME Die(p)
      PROVE  FlowInv(p)'
  <2>1. pc'[p] = "dead" /\ know'[p] = {}
    BY <1>1, <1>3 DEF Die, Go, ProcTypeOK
  <2>2. QED
    BY <2>1, ToldFacts, AtRest
<1>4. ASSUME NEW i \in Semaphores, NEW cmd \in Cmds, Semctl(p, i, cmd)
      PROVE  FlowInv(p)'
  BY <1>2, <1>4 DEF Semctl
<1>5. ASSUME \/ \E i \in Ids : Get(p, i)
             \/ \E q \in Queues, cmd \in Cmds : Msgctl(p, q, cmd)
             \/ GetCheck(p) \/ SendMsg(p) \/ Remove(p)
      PROVE  FlowInv(p)'
  BY <1>2, <1>5 DEF Get, Msgctl, GetCheck, SendMsg, Remove, Return
<1>6. ASSUME MsgctlCheck(p)
      PROVE  FlowInv(p)'
  BY <1>2, <1>3, <1>6 DEF MsgctlCheck
<1>7. ASSUME BadPointer(p) \/ Exit(p)
      PROVE  FlowInv(p)'
  BY <1>3, <1>7 DEF BadPointer, Exit
<1>8. QED
  BY <1>4, <1>5, <1>6, <1>7, MsgsndCovered, MsgrcvCovered, MsgrcvCheckCovered, SemopCovered,
     SemWriteCheckCovered, SemopKernelCovered, ReadFileCovered DEF Act

\* Nothing happens once the server has ended, and a slip is not forgotten.
LEMMA NoWayBack ==
  ASSUME [Next]_vars, server' = "up", slips' = {}, server \in {"up", "stopped"}
  PROVE  server = "up" /\ slips = {}
<1>1. slips \subseteq slips'
  BY ZenonT(40) DEF Next, vars, Get, Msgsnd, Msgrcv, Msgctl, Semop, Semctl, GetCheck, BadPointer, SendMsg,
         MsgrcvCheck, Kept, Cleared, MsgctlCheck, Remove, SemWriteCheck, SemopKernel, ReadFile,
         Exit
<1>2. UNCHANGED vars \/ server = "up"
  BY ZenonT(40) DEF Next, Get, Msgsnd, Msgrcv, Msgctl, Semop, Semctl, GetCheck, BadPointer, SendMsg,
         MsgrcvCheck, MsgctlCheck, Remove, SemWriteCheck, SemopKernel, ReadFile, Exit, At
<1>3. QED
  BY <1>1, <1>2 DEF vars, revars

LEMMA LeakInvKept ==
  ASSUME ~Reuse, TypeInv, IpcInv, LeakInv, [Next]_vars
  PROVE  LeakInv'
<1> SUFFICES ASSUME server' = "up", slips' = {}
             PROVE  DataFlow' /\ \A r \in Pids : FlowInv(r)'
  BY DEF LeakInv
<1>1. server = "up" /\ slips = {}
  BY NoWayBack DEF TypeInv, TypeOK, RETypeOK
<1>2. Known
  BY <1>1 DEF Known, LeakInv
<1>3. StepKept
  BY StepKeeps
<1>4. DataFlow'
  BY <1>2, <1>3, DataCovered
<1>5. ASSUME NEW r \in Pids
      PROVE  FlowInv(r)'
  <2>1. CASE UNCHANGED vars
    BY <1>2, <1>3, <2>1, BystanderCovered DEF vars
  <2>2. ASSUME NEW p \in Pids, Alone(p), r # p
        PROVE  FlowInv(r)'
    BY <1>2, <1>3, <2>2, BystanderCovered DEF Alone
  <2>3. ASSUME Act(r)
        PROVE  FlowInv(r)'
    BY <1>2, <1>3, <2>3, MoverCovered
  <2>4. QED
    BY <2>1, <2>2, <2>3, TypesKept
<1>6. QED
  BY <1>4, <1>5

LEMMA InitLeak == Init => LeakInv
  BY DEF Init, LeakInv, DataFlow, FlowInv, Told

(***************************************************************************)
(* As long as no id is given out again, and until the first slip, what is  *)
(* known, what waits in queues and semaphores, and what is on its way into *)
(* or out of them is covered by the label of where it is.                  *)
(***************************************************************************)
THEOREM InformationCovered == ~Reuse => (Spec => []LeakInv)
<1> SUFFICES ASSUME ~Reuse PROVE Spec => []LeakInv
  OBVIOUS
<1>1. TypeInv /\ IpcInv /\ LeakInv /\ [Next]_vars => LeakInv'
  BY LeakInvKept
<1>2. QED
  BY IpcInvariance, InitLeak, <1>1, PTL DEF Spec

(***************************************************************************)
(* So nobody knows of a file without a label that says so, through any     *)
(* number of messages, semaphores and processes.                           *)
(***************************************************************************)
THEOREM NoUncoveredKnowledge == ~Reuse => (Spec => []KnowledgeCovered)
<1> SUFFICES ASSUME ~Reuse PROVE Spec => []KnowledgeCovered
  OBVIOUS
<1>1. TypeInv /\ LeakInv => KnowledgeCovered
  <2> SUFFICES ASSUME TypeInv, LeakInv, server = "up", slips = {},
                      NEW p \in Pids, NEW f \in know[p]
               PROVE  /\ User[p] \in ReadersOf(f)
                      /\ subjects[Sid(p)].readers \subseteq ReadersOf(f)
    BY DEF KnowledgeCovered
  <2>1. subjects[Sid(p)].readers \subseteq ReadersOf(f)
    BY DEF LeakInv, FlowInv, Told
  <2>2. User[p] \in subjects[Sid(p)].readers
    BY DEF TypeInv, Registered, REInv, OwnerKeepsAccess, Sid
  <2>3. QED
    BY <2>1, <2>2
<1>2. QED
  BY InformationCovered, TypeInvariance, <1>1, PTL
=============================================================================
