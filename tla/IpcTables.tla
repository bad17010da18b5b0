----------------------------- MODULE IpcTables ------------------------------
(***************************************************************************)
(* The checks of rule_engine.h on System V message queues and semaphores,  *)
(* over the two tables that database_server.c keeps for them.  As in       *)
(* RuleEngine a check is one step and its last parameter is its result.    *)
(*                                                                         *)
(* A table is a function from the ids the kernel gave out to labels: rows  *)
(* are looked up by id only, and a row is added only where there is none.  *)
(* The owner of a row is left out, no check looks at it.  Where there is   *)
(* no row the server reads what lies in front of its array, which may be   *)
(* any label; an empty array is NULL, and the server ends.                 *)
(***************************************************************************)
EXTENDS RuleEngine

CONSTANTS Queues, Semaphores   \* the ids of each kind

Ids == Queues \cup Semaphores

ASSUME IpcAssumption == Queues \cap Semaphores = {}

VARIABLES all_msgq_objects, all_sem_objects

ipcvars == <<all_msgq_objects, all_sem_objects>>

\* get_msgq_object, get_sem_object
FetchedLabel(table, id) == IF id \in DOMAIN table THEN {table[id]} ELSE Label

\* remove_msgq_object, remove_sem_object
WithoutRow(table, id) == [i \in DOMAIN table \ {id} |-> table[i]]

-----------------------------------------------------------------------------
(* What msgrcv_check and sem_read_check share, and msgsnd_check with       *)
(* sem_write_check.                                                        *)

Missing(table, s, id) == s \notin DOMAIN subjects \/ DOMAIN table = {}

ipc_read_check(table, s, id, ret) ==
  \/ /\ Missing(table, s, id)
     /\ ret = "stopped"
     /\ StopServer
  \/ /\ ~Missing(table, s, id)
     /\ server = "up"
     /\ \E row \in FetchedLabel(table, id) :
          \/ /\ subjects[s].owner \notin row.readers
             /\ ret = "denied"
             /\ UNCHANGED revars
          \/ /\ subjects[s].owner \in row.readers
             /\ ret = "allowed"
             /\ subjects' = [subjects EXCEPT ![s] = Raise(@, row)]
             /\ UNCHANGED <<objects, server>>

\* Mutant of ipc_write_check: only the owner is looked at, as in a read.
ipc_write_check_OwnerOnly(table, s, id, ret) ==
  \/ /\ Missing(table, s, id)
     /\ ret = "stopped"
     /\ StopServer
  \/ /\ ~Missing(table, s, id)
     /\ server = "up" /\ UNCHANGED revars
     /\ \E row \in FetchedLabel(table, id) :
          ret = IF subjects[s].owner \in row.writers THEN "allowed" ELSE "denied"

ipc_write_check(table, s, id, ret) ==
  \/ /\ Missing(table, s, id)
     /\ ret = "stopped"
     /\ StopServer
  \/ /\ ~Missing(table, s, id)
     /\ server = "up" /\ UNCHANGED revars
     /\ \E row \in FetchedLabel(table, id) :
          ret = IF WriteAllowed(subjects[s], row) THEN "allowed" ELSE "denied"

-----------------------------------------------------------------------------
(* message queues *)

\* Line by line infer_file_labels, with the ipc_perm in the place of stat.
infer_msgq_labels(perm) == infer_file_labels(perm)

\* Mutant of create_msgq_check: the label is inferred at every msgget.
create_msgq_check_Again(q, label) ==
  /\ server = "up"
  /\ all_msgq_objects' = AddRow_Overwrites(all_msgq_objects, q, label)
  /\ UNCHANGED <<revars, all_sem_objects>>

\* label is inferred from what IPC_STAT leaves in msgq_info.
create_msgq_check(q, label) ==
  /\ server = "up"
  /\ all_msgq_objects' = AddRow(all_msgq_objects, q, label)
  /\ UNCHANGED <<revars, all_sem_objects>>

msgrcv_check(s, q, ret) ==
  ipc_read_check(all_msgq_objects, s, q, ret) /\ UNCHANGED ipcvars

msgsnd_check(s, q, ret) ==
  ipc_write_check(all_msgq_objects, s, q, ret) /\ UNCHANGED ipcvars

remove_msgq_check(q) ==
  /\ server = "up"
  /\ all_msgq_objects' = WithoutRow(all_msgq_objects, q)
  /\ UNCHANGED <<revars, all_sem_objects>>

-----------------------------------------------------------------------------
(* semaphores *)

infer_sem_labels(perm) == infer_file_labels(perm)

create_sem_check(i, label) ==
  /\ server = "up"
  /\ all_sem_objects' = AddRow(all_sem_objects, i, label)
  /\ UNCHANGED <<revars, all_msgq_objects>>

sem_read_check(s, i, ret) ==
  ipc_read_check(all_sem_objects, s, i, ret) /\ UNCHANGED ipcvars

sem_write_check(s, i, ret) ==
  ipc_write_check(all_sem_objects, s, i, ret) /\ UNCHANGED ipcvars

remove_sem_check(i) ==
  /\ server = "up"
  /\ all_sem_objects' = WithoutRow(all_sem_objects, i)
  /\ UNCHANGED <<revars, all_msgq_objects>>

(***************************************************************************)
(* The types of the two tables.                                            *)
(***************************************************************************)
IpcTypeOK ==
  /\ DOMAIN all_msgq_objects \subseteq Queues
  /\ all_msgq_objects \in [DOMAIN all_msgq_objects -> Label]
  /\ DOMAIN all_sem_objects \subseteq Semaphores
  /\ all_sem_objects \in [DOMAIN all_sem_objects -> Label]
=============================================================================
