------------------------------ MODULE SystemV -------------------------------
(***************************************************************************)
(* Processes that use System V message queues and semaphores: the wrappers *)
(* of preload.c around msgget, msgsnd, msgrcv, msgctl, semget, semop and   *)
(* semctl, the kernel calls beneath them, and the checks of IpcTables.     *)
(* The kernel call and the check are two steps, in the order of the code:  *)
(* all but msgsnd and semop let the kernel act first.                      *)
(*                                                                         *)
(* Auxiliary, as in SecureProcesses: know[p], the files that the memory of *)
(* p has information from, buf[p], what the message in the buffer of a     *)
(* call tells, and data[i], what each message that waits in a queue tells, *)
(* or what the value of a semaphore tells.  slips records that a call went *)
(* further than its checks, in one of these ways:                          *)
(*   "semop"   the kernel does what one of the two checks refused, or what *)
(*             the operations after the first one ask for                  *)
(*   "semctl"  a semaphore is read or set, for which there is no check     *)
(*   "tail"    of a refused message that fills its buffer the last eight   *)
(*             bytes stay: memset clears msgsz bytes from the type on      *)
(*   "empty"   a message without text, which still has a type              *)
(*   "gone"    the queue was removed while its message was being checked:  *)
(*             the label that is found is no row of the table, or the row  *)
(*             of a msgget from before the removal that ended after it     *)
(*                                                                         *)
(* Environment.  All processes were forked by a shell, so they are         *)
(* registered, and they are single-threaded.  A process uses the ids that  *)
(* it got from msgget and semget.  Whoever made a queue owns it; IPC_SET   *)
(* changes its mode only.  A blocking call is a call that has not begun.   *)
(* Reading a file is one step.  The model ends with the server, or when a  *)
(* process dies inside the lock.  Reuse says whether the kernel gives out  *)
(* an id again, which it does after 2^16 other queues or so.               *)
(***************************************************************************)
EXTENDS IpcTables, Integers, Sequences

CONSTANTS User,                \* whose process each pid is
          Modes,               \* the permissions to choose from
          SemOps,              \* arrays for semop, by the signs of sem_op
          Mortals,             \* which of the pids exit
          Reuse

Cmds == {"IPC_RMID", "IPC_STAT", "IPC_SET", "GETVAL", "SETVAL"}

ASSUME SystemVAssumption == /\ User \in [Pids -> Users]
                            /\ Modes \subseteq SUBSET ModeBits
                            /\ SemOps \subseteq Seq({-1, 0, 1})
                            /\ Mortals \subseteq Pids
                            /\ Reuse \in BOOLEAN

VARIABLES ipcs,                \* what exists in the kernel: id -> permissions
          born,                \* the ids given out so far
          ids,                 \* the ids that each process got
          pc, on,              \* the call of each process, and its arguments
          know, buf, data, slips,
          lost                 \* the lock is held by a dead process

vars == <<revars, ipcvars, ipcs, born, ids, pc, on, know, buf, data, slips, lost>>

Sid(p) == <<User[p], p>>

ReadersOf(f) == infer_file_labels(FileStat[f]).readers

NoCall == [id |-> InitProc, cmd |-> "none", ops |-> <<>>, passed |-> {}]
CallOn(i) == [NoCall EXCEPT !.id = i]

At(p, call) == server = "up" /\ ~lost /\ pc[p] = call

Go(p, call, args) == pc' = [pc EXCEPT ![p] = call] /\ on' = [on EXCEPT ![p] = args]

Return(p) == Go(p, "idle", NoCall) /\ buf' = [buf EXCEPT ![p] = {}]

\* The kernel keeps queues and semaphores, and the database its rows.
Die(p) == /\ Go(p, "dead", NoCall)
          /\ ids' = [ids EXCEPT ![p] = {}]
          /\ know' = [know EXCEPT ![p] = {}]
          /\ buf' = [buf EXCEPT ![p] = {}]

Readable(p, i) == i \in DOMAIN ipcs /\ User[p] \in KernelReaders(ipcs[i])
Writable(p, i) == i \in DOMAIN ipcs /\ User[p] \in KernelWriters(ipcs[i])
Owned(p, i) == i \in DOMAIN ipcs /\ User[p] = ipcs[i].uid

Init ==
  /\ server = "up"
  /\ subjects = [s \in {Sid(p) : p \in Pids} |-> DefaultSubject(s[1])]
  /\ objects = [f \in Files |-> InferredObject(f)]
  /\ all_msgq_objects = [i \in {} |-> {}] /\ all_sem_objects = [i \in {} |-> {}]
  /\ ipcs = [i \in {} |-> {}] /\ born = {}
  /\ ids = [p \in Pids |-> {}]
  /\ pc = [p \in Pids |-> "idle"] /\ on = [p \in Pids |-> NoCall]
  /\ know = [p \in Pids |-> {}] /\ buf = [p \in Pids |-> {}]
  /\ data = [i \in Ids |-> {}]
  /\ slips = {} /\ lost = FALSE

-----------------------------------------------------------------------------
(* msgget, semget *)

\* The kernel finds the queue of a key, or makes one.
Get(p, i) ==
  /\ At(p, "idle")
  /\ \/ /\ i \in DOMAIN ipcs
        /\ UNCHANGED <<ipcs, born>>
     \/ /\ i \notin DOMAIN ipcs /\ (i \notin born \/ Reuse)
        /\ \E mode \in Modes :
             ipcs' = [j \in DOMAIN ipcs \cup {i} |->
                        IF j = i THEN [uid |-> User[p], members |-> {User[p]}, mode |-> mode]
                                 ELSE ipcs[j]]
        /\ born' = born \cup {i}
  /\ Go(p, "got", CallOn(i))
  /\ UNCHANGED <<revars, ipcvars, ids, know, buf, data, slips, lost>>

\* An IPC_STAT that fails leaves msgq_info as it was, which is uninitialised.
MsgqLabels(p, q) == IF Readable(p, q) THEN {infer_msgq_labels(ipcs[q])}
                    ELSE {infer_msgq_labels(perm) : perm \in StatRecord}

(***************************************************************************)
(* create_msgq_check, or create_sem_check, where IPC_STAT gets a pointer   *)
(* that is uninitialised itself: it may work, but also leave garbage, or   *)
(* end the process, which holds the lock (BadPointer).                     *)
(***************************************************************************)
SemLabels == {infer_sem_labels(perm) : perm \in StatRecord}

GetCheck(p) ==
  LET i == on[p].id
  IN  /\ At(p, "got")
      /\ \/ i \in Queues /\ \E label \in MsgqLabels(p, i) : create_msgq_check(i, label)
         \/ i \in Semaphores /\ \E label \in SemLabels : create_sem_check(i, label)
      /\ ids' = [ids EXCEPT ![p] = @ \cup {i}]
      /\ Return(p)
      /\ UNCHANGED <<ipcs, born, know, data, slips, lost>>

BadPointer(p) ==
  /\ At(p, "got") /\ on[p].id \in Semaphores \ DOMAIN all_sem_objects
  /\ lost' = TRUE
  /\ Die(p)
  /\ UNCHANGED <<revars, ipcvars, ipcs, born, data, slips>>

-----------------------------------------------------------------------------
(* msgsnd: the check, then the kernel *)

Msgsnd(p, q) ==
  /\ At(p, "idle") /\ q \in ids[p] \cap Queues
  /\ \/ /\ msgsnd_check(Sid(p), q, "allowed")
        /\ Go(p, "send", CallOn(q))
        /\ buf' = [buf EXCEPT ![p] = know[p]]
     \/ /\ msgsnd_check(Sid(p), q, "denied") \/ msgsnd_check(Sid(p), q, "stopped")
        /\ UNCHANGED <<pc, on, buf>>
  /\ UNCHANGED <<ipcs, born, ids, know, data, slips, lost>>

SendMsg(p) ==
  LET q == on[p].id
  IN  /\ At(p, "send")
      /\ data' = IF Writable(p, q) THEN [data EXCEPT ![q] = @ \cup {buf[p]}] ELSE data
      /\ Return(p)
      /\ UNCHANGED <<revars, ipcvars, ipcs, born, ids, know, slips, lost>>

-----------------------------------------------------------------------------
(* msgrcv: the kernel takes the message, then the check *)

\* Another message that tells the same may wait behind the one that is taken.
Msgrcv(p, q) ==
  /\ At(p, "idle") /\ q \in ids[p] \cap Queues /\ Readable(p, q)
  /\ \E msg \in data[q] :
       /\ buf' = [buf EXCEPT ![p] = msg]
       /\ data' = [data EXCEPT ![q] = @ \ {msg}] \/ UNCHANGED data
  /\ Go(p, "receive", CallOn(q))
  /\ UNCHANGED <<revars, ipcvars, ipcs, born, ids, know, slips, lost>>

\* What became of the message that p took: p has it, with or without a slip, or not.
Kept(p, how) == know' = [know EXCEPT ![p] = @ \cup buf[p]] /\ slips' = slips \cup how
Cleared == UNCHANGED <<know, slips>>

Unnoticed(q) == IF q \in DOMAIN ipcs THEN {} ELSE {"gone"}

\* Nobody is asked about a message without text.
MsgrcvCheck(p) ==
  LET q == on[p].id
  IN  /\ At(p, "receive")
      /\ \/ msgrcv_check(Sid(p), q, "allowed") /\ Kept(p, Unnoticed(q))
         \/ msgrcv_check(Sid(p), q, "denied") /\ (Cleared \/ Kept(p, {"tail"}))
         \/ msgrcv_check(Sid(p), q, "stopped") /\ Cleared
         \/ UNCHANGED <<revars, ipcvars>> /\ Kept(p, {"empty"})
      /\ Return(p)
      /\ UNCHANGED <<ipcs, born, ids, data, lost>>

-----------------------------------------------------------------------------
(* msgctl: the kernel, msgrcv_check, remove_msgq_check *)

Removed(i) == /\ ipcs' = [j \in DOMAIN ipcs \ {i} |-> ipcs[j]]
              /\ data' = [data EXCEPT ![i] = {}]

Msgctl(p, q, cmd) ==
  /\ At(p, "idle") /\ q \in ids[p] \cap Queues
  /\ \/ cmd = "IPC_RMID" /\ Owned(p, q) /\ Removed(q)
     \/ cmd = "IPC_STAT" /\ Readable(p, q) /\ UNCHANGED <<ipcs, data>>
     \/ /\ cmd = "IPC_SET" /\ Owned(p, q)
        /\ \E mode \in Modes : ipcs' = [ipcs EXCEPT ![q].mode = mode]
        /\ UNCHANGED data
  /\ Go(p, "control", [CallOn(q) EXCEPT !.cmd = cmd])
  /\ UNCHANGED <<revars, ipcvars, born, ids, know, buf, slips, lost>>

\* Mutant of MsgctlCheck: the command is not looked at.
MsgctlCheck_AnyCmd(p) ==
  /\ At(p, "control")
  /\ msgrcv_check(Sid(p), on[p].id, "allowed")
  /\ Go(p, "remove", on[p])
  /\ UNCHANGED <<ipcs, born, ids, know, buf, data, slips, lost>>

\* A call that is refused clears *buf, which for IPC_RMID is likely to be NULL.
MsgctlCheck(p) ==
  LET q == on[p].id
      removes == on[p].cmd = "IPC_RMID"
  IN  /\ At(p, "control")
      /\ \/ /\ msgrcv_check(Sid(p), q, "allowed")
            /\ IF removes THEN Go(p, "remove", on[p]) ELSE Go(p, "idle", NoCall)
            /\ UNCHANGED <<ids, know, buf>>
         \/ /\ msgrcv_check(Sid(p), q, "denied") \/ msgrcv_check(Sid(p), q, "stopped")
            /\ Go(p, "idle", NoCall)
            /\ UNCHANGED <<ids, know, buf>>
         \/ /\ removes /\ msgrcv_check(Sid(p), q, "denied")
            /\ Die(p)
      /\ UNCHANGED <<ipcs, born, data, slips, lost>>

Remove(p) ==
  LET i == on[p].id
  IN  /\ At(p, "remove")
      /\ \/ i \in Queues /\ remove_msgq_check(i)
         \/ i \in Semaphores /\ remove_sem_check(i)
      /\ Go(p, "idle", NoCall)
      /\ UNCHANGED <<ipcs, born, ids, know, buf, data, slips, lost>>

-----------------------------------------------------------------------------
(* semop: one or two checks, then the kernel *)

\* The loop over the operations looks at the first one each time.
rd_op(ops) == ops # <<>> /\ ops[1] <= 0
wr_op(ops) == ops # <<>> /\ ops[1] # 0

\* What the kernel does: a value that is waited for is a value that is learnt.
Reads(ops) == \E k \in DOMAIN ops : ops[k] <= 0
Alters(ops) == \E k \in DOMAIN ops : ops[k] # 0

\* With the checks so far passed: the other check, the kernel's semop, or -1.
AfterRead(p, args) ==
  IF wr_op(args.ops) THEN Go(p, "semwrite", args)
  ELSE IF args.passed # {} THEN Go(p, "semop", args) ELSE Go(p, "idle", NoCall)

Semop(p, i, ops) ==
  LET args == [CallOn(i) EXCEPT !.ops = ops]
  IN  /\ At(p, "idle") /\ i \in ids[p] \cap Semaphores /\ (rd_op(ops) \/ wr_op(ops))
      /\ \/ /\ rd_op(ops)
            /\ \/ /\ sem_read_check(Sid(p), i, "allowed")
                  /\ AfterRead(p, [args EXCEPT !.passed = {"r"}])
               \/ sem_read_check(Sid(p), i, "denied") /\ AfterRead(p, args)
               \/ sem_read_check(Sid(p), i, "stopped") /\ UNCHANGED <<pc, on>>
         \/ /\ ~rd_op(ops)
            /\ Go(p, "semwrite", args)
            /\ UNCHANGED <<revars, ipcvars>>
      /\ UNCHANGED <<ipcs, born, ids, know, buf, data, slips, lost>>

SemWriteCheck(p) ==
  LET args == on[p]
  IN  /\ At(p, "semwrite")
      /\ \/ /\ sem_write_check(Sid(p), args.id, "allowed")
            /\ Go(p, "semop", [args EXCEPT !.passed = @ \cup {"w"}])
         \/ /\ \/ sem_write_check(Sid(p), args.id, "denied")
               \/ sem_write_check(Sid(p), args.id, "stopped")
            /\ IF args.passed # {} THEN Go(p, "semop", args) ELSE Go(p, "idle", NoCall)
      /\ UNCHANGED <<ipcs, born, ids, know, buf, data, slips, lost>>

Learn(p, i) == know' = [know EXCEPT ![p] = @ \cup UNION data[i]]
Tell(p, i) == data' = [data EXCEPT ![i] = {know[p] \cup UNION @}]

SemopKernel(p) ==
  LET i == on[p].id
      ops == on[p].ops
      done == (Alters(ops) => Writable(p, i)) /\ (~Alters(ops) => Readable(p, i))
  IN  /\ At(p, "semop")
      /\ IF done /\ Reads(ops) THEN Learn(p, i) ELSE UNCHANGED know
      /\ IF done /\ Alters(ops) THEN Tell(p, i) ELSE UNCHANGED data
      /\ slips' = IF \/ Reads(ops) /\ "r" \notin on[p].passed
                     \/ Alters(ops) /\ "w" \notin on[p].passed
                    THEN slips \cup {"semop"} ELSE slips
      /\ Go(p, "idle", NoCall)
      /\ UNCHANGED <<revars, ipcvars, ipcs, born, ids, buf, lost>>

-----------------------------------------------------------------------------
(* semctl: the kernel; nobody is asked *)

Semctl(p, i, cmd) ==
  /\ At(p, "idle") /\ i \in ids[p] \cap Semaphores
  /\ \/ /\ cmd = "IPC_RMID" /\ Owned(p, i)
        /\ Removed(i)
        /\ Go(p, "remove", CallOn(i))
        /\ UNCHANGED <<know, slips>>
     \/ /\ cmd = "GETVAL" /\ Readable(p, i)
        /\ Learn(p, i)
        /\ slips' = slips \cup {"semctl"}
        /\ UNCHANGED <<ipcs, pc, on, data>>
     \/ /\ cmd = "SETVAL" /\ Writable(p, i)
        /\ Tell(p, i)
        /\ slips' = slips \cup {"semctl"}
        /\ UNCHANGED <<ipcs, pc, on, know>>
  /\ UNCHANGED <<revars, ipcvars, born, ids, buf, lost>>

-----------------------------------------------------------------------------
(* files, and the end of a process *)

ReadFile(p, f) ==
  /\ At(p, "idle")
  /\ file_read_check(Sid(p), f, "allowed")
  /\ know' = [know EXCEPT ![p] = @ \cup {f}]
  /\ UNCHANGED <<ipcvars, ipcs, born, ids, pc, on, buf, data, slips, lost>>

Exit(p) ==
  /\ server = "up" /\ p \in Mortals /\ pc[p] # "dead"
  /\ Die(p)
  /\ UNCHANGED <<revars, ipcvars, ipcs, born, data, slips, lost>>

Next ==
  \/ \E p \in Pids, i \in Ids : Get(p, i)
  \/ \E p \in Pids, q \in Queues : Msgsnd(p, q) \/ Msgrcv(p, q)
  \/ \E p \in Pids, q \in Queues, cmd \in Cmds : Msgctl(p, q, cmd)
  \/ \E p \in Pids, i \in Semaphores, ops \in SemOps : Semop(p, i, ops)
  \/ \E p \in Pids, i \in Semaphores, cmd \in Cmds : Semctl(p, i, cmd)
  \/ \E p \in Pids : GetCheck(p) \/ BadPointer(p) \/ SendMsg(p) \/ MsgrcvCheck(p)
                       \/ MsgctlCheck(p) \/ Remove(p) \/ SemWriteCheck(p) \/ SemopKernel(p)
  \/ \E p \in Pids, f \in Files : ReadFile(p, f)
  \/ \E p \in Pids : Exit(p)

Spec == Init /\ [][Next]_vars

-----------------------------------------------------------------------------
(* Properties *)

(***************************************************************************)
(* The types of the tables, the kernel's objects and the processes.        *)
(***************************************************************************)
Slips == {"semop", "semctl", "tail", "empty", "gone"}

Call == [id : Ids \cup {InitProc}, cmd : Cmds \cup {"none"},
         ops : SemOps \cup {<<>>}, passed : SUBSET {"r", "w"}]

TypeOK ==
  /\ RETypeOK /\ IpcTypeOK
  /\ born \subseteq Ids /\ DOMAIN ipcs \subseteq born
  /\ ipcs \in [DOMAIN ipcs -> StatRecord]
  /\ ids \in [Pids -> SUBSET born]
  /\ pc \in [Pids -> {"idle", "got", "send", "receive", "control", "remove",
                      "semwrite", "semop", "dead"}]
  /\ on \in [Pids -> Call]
  /\ know \in [Pids -> SUBSET Files] /\ buf \in [Pids -> SUBSET Files]
  /\ data \in [Ids -> SUBSET SUBSET Files]
  /\ slips \subseteq Slips
  /\ lost \in BOOLEAN

(***************************************************************************)
(* No process knows of a file, through any number of messages, semaphores  *)
(* and processes, without its label saying so, until a call has gone       *)
(* further than its checks.                                                *)
(***************************************************************************)
KnowledgeCovered ==
  server = "up" /\ slips = {} =>
    \A p \in Pids : \A f \in know[p] :
      User[p] \in ReadersOf(f) /\ subjects[Sid(p)].readers \subseteq ReadersOf(f)

Row(i) == IF i \in Queues THEN all_msgq_objects[i] ELSE all_sem_objects[i]
HasRow(i) == i \in DOMAIN all_msgq_objects \cup DOMAIN all_sem_objects

(***************************************************************************)
(* A queue or semaphore that exists and has a label keeps that very label  *)
(* until the kernel removes it: neither a second msgget, nor a change of   *)
(* its mode, nor the removal of another one that is still going on touches *)
(* it.  So bytes that wait are read under the label they were sent under.  *)
(***************************************************************************)
IpcLabelsFixed ==
  [][\A i \in DOMAIN ipcs \cap DOMAIN ipcs' :
       HasRow(i) => HasRow(i)' /\ Row(i)' = Row(i)]_vars

(***************************************************************************)
(* Only a process that uses a queue or semaphore which was removed makes   *)
(* the server look at an array of no rows and end.                         *)
(***************************************************************************)
StopsOnlyForRemoved ==
  [][server = "up" /\ server' = "stopped" =>
       \E p \in Pids : ~(ids[p] \subseteq DOMAIN ipcs)]_vars
=============================================================================
