---------------------------- MODULE KernelModule ----------------------------
(***************************************************************************)
(* The kernel module, system_call_interceptor.c: the second implementation *)
(* of the monitor, for clone, open, read and write.  It keeps the tables   *)
(* in its own memory and has no lock (clone_lock is declared and not       *)
(* used).  It denies nothing: a check that does not answer 1 is reported   *)
(* in the kernel log, and the call goes on.                                *)
(*                                                                         *)
(* A hooked call is the original system call and the check, in the order   *)
(* of the code: clone and open call first, read and write check first.  A  *)
(* check that adds a row is two steps: between them it copies the arrays   *)
(* of ids and of rows to longer ones and frees the old ones (krealloc).    *)
(* The other checks are one step, at a moment when they overlap such a     *)
(* copy if they do: what they then read or store may be lost (Damaged).    *)
(*                                                                         *)
(* Loading is as many steps as calls can come between: the hooks are set   *)
(* before there is a host, a user or a group in the tables.                *)
(*                                                                         *)
(* Auxiliary: know[p] and content[f], the files whose information is in    *)
(* the memory of p and in f since the module was loaded; warned, that the  *)
(* log has a warning; and slips, the ways in which a label may have come   *)
(* out wrong without one:                                                  *)
(*   "early"   a child clones before its own clone_check, which its parent *)
(*             runs: the grandchild gets the default label                 *)
(*   "reuse"   a pid comes round again and its old row is kept             *)
(*   "race"    one check, or the loading, used the tables while another    *)
(*             check was copying them, and something came out wrong        *)
(*   "group"   a file is opened before its group is in the table: the      *)
(*             members come from the memory in front of it, or the process *)
(*             is killed and leaves an id that has no row                  *)
(*   "unload"  the tables and the code go while a call is inside           *)
(*                                                                         *)
(* Environment.  Processes are single-threaded, keep their user and use    *)
(* the four hooked calls only, on regular files, and no clone fails (it    *)
(* would add a row for a pid that no process has).  The groups of all      *)
(* files are among those compiled into the module, and fewer than 64 users. *)
(* What a store through a freed array does to memory that is not the       *)
(* module's is left out.                                                   *)
(***************************************************************************)
EXTENDS LabelInference

CONSTANTS Pids, Files,
          FileStat,            \* what vfs_fstat reports of each file
          Started,             \* the pids that run when the module is loaded
          User,                \* whose process each of these is
          Garbage              \* the rows that memory outside a table may hold

BitSet == SUBSET (Users \cup {NoUser})
Row == [owner : Users \cup {NoUser}, readers : UserSet, writers : BitSet]

ASSUME KernelAssumption == /\ FileStat \in [Files -> StatRecord]
                           /\ Started \subseteq Pids
                           /\ User \in [Started -> Users]
                           /\ Garbage \subseteq Row

VARIABLES phase,               \* of the life of the module
          known,               \* all_user_ids, of the one host
          subjects, objects,   \* the tables of ids with those of rows
          pc, uid, on, know, content, warned, slips

tables == <<known, subjects, objects>>
vars == <<phase, tables, pc, uid, on, know, content, warned, slips>>

Phases == {"absent", "hooked", "users", "groups", "loaded", "unhooked", "gone"}

\* The system call table leads here; get_host_index finds the host.
Hooked == phase \in {"hooked", "users", "groups", "loaded"}
HostAdded == phase \in {"users", "groups", "loaded", "unhooked"}

KernelReads(u, f) == u \in KernelReaders(FileStat[f])
KernelWrites(u, f) == u \in KernelWriters(FileStat[f])
ReadersOf(f) == infer_file_labels(FileStat[f]).readers

Sid(p) == <<uid[p], p>>
Live(p) == pc[p] # "free"

\* p is between its krealloc of the ids and its krealloc of the rows.
Adding(p) == pc[p] \in {"adding", "labelling", "hostless"}
Overlapped(p) == "race" \in slips \/ \E q \in Pids \ {p} : Adding(q)

Init ==
  /\ phase = "absent" /\ known = {}
  /\ subjects = [s \in {} |-> {}] /\ objects = [f \in {} |-> {}]
  /\ pc = [p \in Pids |-> IF p \in Started THEN "idle" ELSE "free"]
  /\ uid = [p \in Pids |-> IF p \in Started THEN User[p] ELSE NoUser]
  /\ on = [p \in Pids |-> p]
  /\ know = [p \in Pids |-> {}] /\ content = [f \in Files |-> {f}]
  /\ warned = FALSE /\ slips = {}

-----------------------------------------------------------------------------
(* syscall_interceptor_start, syscall_interceptor_end *)

processes == <<pc, uid, on, know, content, warned>>

replace_syscalls ==
  /\ phase = "absent" /\ phase' = "hooked"
  /\ UNCHANGED <<tables, processes, slips>>

add_all_hosts ==
  /\ phase = "hooked" /\ phase' = "users"
  /\ UNCHANGED <<tables, processes, slips>>

\* The checks that add rows read the arrays that are loaded meanwhile.
SlipOfLoading == IF \E p \in Pids : Adding(p) THEN slips \cup {"race"} ELSE slips

add_user_id(u) ==
  /\ phase = "users"
  /\ known' = known \cup {u}
  /\ slips' = SlipOfLoading
  /\ UNCHANGED <<phase, subjects, objects, processes>>

\* Mutant of add_all_groups: initialize calls it before add_all_users.
add_all_groups_First ==
  /\ \/ phase = "users" /\ phase' = "groups"
     \/ phase = "groups" /\ phase' = "loaded"
  /\ slips' = SlipOfLoading
  /\ UNCHANGED <<tables, processes>>

\* The first group, and the last one.
add_all_groups ==
  /\ \/ phase = "users" /\ known = Users /\ phase' = "groups"
     \/ phase = "groups" /\ phase' = "loaded"
  /\ slips' = SlipOfLoading
  /\ UNCHANGED <<tables, processes>>

restore_syscalls ==
  /\ phase = "loaded" /\ phase' = "unhooked"
  /\ UNCHANGED <<tables, processes, slips>>

release_memory ==
  /\ phase = "unhooked" /\ phase' = "gone"
  /\ known' = {}
  /\ subjects' = [s \in {} |-> {}] /\ objects' = [f \in {} |-> {}]
  /\ slips' = IF \E p \in Pids : pc[p] \notin {"idle", "free"}
                THEN slips \cup {"unload"} ELSE slips
  /\ UNCHANGED processes

-----------------------------------------------------------------------------
(* The checks.  Rows that are made without a host are not found again once *)
(* there is one, and while there is none every check on them says no.      *)

(***************************************************************************)
(* What may be left of a table that was copied, scanned or stored into     *)
(* while another check copied it: any row may be lost or hold anything.    *)
(***************************************************************************)
Damaged(table) ==
  {table} \cup
  UNION {{[table EXCEPT ![i] = row] : row \in Garbage} \cup
         {[j \in DOMAIN table \ {i} |-> table[j]]} : i \in DOMAIN table}

\* add_subject_id with add_subject, add_object_id with add_object
AddedRow(table, id, row) ==
  [i \in DOMAIN table \cup {id} |-> IF i \in DOMAIN table THEN table[i] ELSE row]

\* Shifting by the index -1 sets the bit that no user has; it is written NoUser.
DefaultSubject(u) ==
  LET owner == IF u \in known THEN u ELSE NoUser
  IN  [owner |-> owner, readers |-> known, writers |-> {owner}]

\* Mutant of ClonedSubject: the child starts anew.
ClonedSubject_Default(u, parent) == DefaultSubject(u)

ClonedSubject(u, parent) ==
  IF <<u, parent>> \in DOMAIN subjects THEN subjects[<<u, parent>>] ELSE DefaultSubject(u)

\* The rows after clone_check.
clone_check(u, child, parent) ==
  IF HostAdded THEN AddedRow(subjects, <<u, child>>, ClonedSubject(u, parent)) ELSE subjects

(***************************************************************************)
(* The rows that file_open_check may add: without its owner a file gets an *)
(* empty label; with users but without groups there is no table to read a  *)
(* group from, and the process is killed (OpenFault); then any members may *)
(* be read until the group is there.                                       *)
(***************************************************************************)
InferredObjects(f) ==
  LET stat == FileStat[f]
      row(st) == [owner   |-> st.uid,
                  readers |-> infer_file_labels(st).readers,
                  writers |-> infer_file_labels(st).writers]
  IN  IF stat.uid \notin known THEN {row([stat EXCEPT !.uid = NoUser])}
      ELSE IF phase = "users" THEN {}
      ELSE {row([stat EXCEPT !.members = m]) :
              m \in IF phase = "groups" THEN UserSet ELSE {stat.members}}

\* The rows after file_open_check.
file_open_check(f, row) == IF HostAdded THEN AddedRow(objects, f, row) ELSE objects

\* The answers 1, 0 and -1; the last without the row of the process or of the file.
Results == {"allowed", "denied", "error"}

Known(s, f) == HostAdded /\ s \in DOMAIN subjects /\ f \in DOMAIN objects

file_read_check(s, f, ret) ==
  \/ /\ ~Known(s, f)
     /\ ret = "error"
     /\ UNCHANGED tables
  \/ /\ Known(s, f) /\ subjects[s].owner \notin objects[f].readers
     /\ ret = "denied"
     /\ UNCHANGED tables
  \/ /\ Known(s, f) /\ subjects[s].owner \in objects[f].readers
     /\ ret = "allowed"
     /\ subjects' = [subjects EXCEPT ![s] = Raise(@, objects[f])]
     /\ UNCHANGED <<known, objects>>

file_write_check(s, f, ret) ==
  /\ UNCHANGED tables
  /\ \/ ~Known(s, f) /\ ret = "error"
     \/ /\ Known(s, f)
        /\ ret = IF /\ subjects[s].owner \in objects[f].writers
                    /\ FlowsTo(subjects[s], objects[f])
              THEN "allowed" ELSE "denied"

-----------------------------------------------------------------------------
(* rwfm_clone *)

Go(p, call, what) == pc' = [pc EXCEPT ![p] = call] /\ on' = [on EXCEPT ![p] = what]

Cloning(p) == pc[p] \in {"cloned", "adding"}
AwaitsCheck(c) == \E q \in Pids : Cloning(q) /\ on[q] = c

\* original_clone: the child runs from here on.
Clone(p, c) ==
  /\ Hooked /\ pc[p] = "idle" /\ pc[c] = "free"
  /\ pc' = [pc EXCEPT ![p] = "cloned", ![c] = "idle"]
  /\ on' = [on EXCEPT ![p] = c]
  /\ uid' = [uid EXCEPT ![c] = uid[p]]
  /\ know' = [know EXCEPT ![c] = know[p]]
  /\ slips' = slips \cup (IF AwaitsCheck(c) \/ <<uid[p], c>> \in DOMAIN subjects
                            THEN {"reuse"} ELSE {})
                    \cup (IF AwaitsCheck(p) THEN {"early"} ELSE {})
  /\ UNCHANGED <<phase, tables, content, warned>>

\* clone_check up to add_subject_id; a row is not added twice.
CloneCheck(p) ==
  LET id == <<uid[p], on[p]>>
  IN  /\ pc[p] = "cloned"
      /\ IF ~HostAdded THEN Go(p, "hostless", p)
         ELSE IF id \in DOMAIN subjects THEN Go(p, "idle", p)
         ELSE Go(p, "adding", on[p])
      /\ UNCHANGED <<phase, tables, uid, know, content, warned, slips>>

\* The rest of it.
AddSubject(p) ==
  LET added == clone_check(uid[p], on[p], p)
  IN  /\ pc[p] = "adding"
      /\ \/ subjects' = added /\ slips' = slips
         \/ /\ Overlapped(p)
            /\ subjects' \in Damaged(added)
            /\ slips' = slips \cup {"race"}
      /\ Go(p, "idle", p)
      /\ UNCHANGED <<phase, known, objects, uid, know, content, warned>>

(***************************************************************************)
(* The end of a clone_check or file_open_check that began without a host:  *)
(* its rows are never found.                                               *)
(***************************************************************************)
AddHostless(p) ==
  /\ pc[p] = "hostless"
  /\ Go(p, "idle", p)
  /\ UNCHANGED <<phase, tables, uid, know, content, warned, slips>>

-----------------------------------------------------------------------------
(* rwfm_open *)

\* original_open
Open(p, f) ==
  /\ Hooked /\ pc[p] = "idle"
  /\ KernelReads(uid[p], f) \/ KernelWrites(uid[p], f)
  /\ Go(p, "opened", f)
  /\ UNCHANGED <<phase, tables, uid, know, content, warned, slips>>

(***************************************************************************)
(* file_open_check up to add_object_id: nothing more is done if the id is  *)
(* there, and it is there as soon as another process is adding the row.    *)
(***************************************************************************)
OpenCheck(p) ==
  LET f == on[p]
  IN  /\ pc[p] = "opened"
      /\ \/ /\ f \in DOMAIN objects \/ \E q \in Pids : pc[q] = "labelling" /\ on[q] = f
            /\ Go(p, "idle", p)
         \/ /\ f \notin DOMAIN objects
            /\ IF HostAdded THEN Go(p, "labelling", f) ELSE Go(p, "hostless", p)
      /\ UNCHANGED <<phase, tables, uid, know, content, warned, slips>>

\* The rest of it.
AddObject(p) ==
  LET f == on[p]
  IN  /\ pc[p] = "labelling"
      /\ \E row \in InferredObjects(f) :
           \/ /\ objects' = file_open_check(f, row)
              /\ slips' = IF phase = "groups" /\ row.readers # ReadersOf(f)
                            THEN slips \cup {"group"} ELSE slips
           \/ /\ Overlapped(p)
              /\ objects' \in Damaged(file_open_check(f, row))
              /\ slips' = slips \cup {"race"}
      /\ Go(p, "idle", p)
      /\ UNCHANGED <<phase, known, subjects, uid, know, content, warned>>

Die(p) ==
  /\ pc' = [pc EXCEPT ![p] = "free"]
  /\ on' = [on EXCEPT ![p] = p]
  /\ uid' = [uid EXCEPT ![p] = NoUser]
  /\ know' = [know EXCEPT ![p] = {}]

\* all_group_ids is NULL.  The row of the id is looked up in memory before the array.
OpenFault(p) ==
  /\ pc[p] = "labelling" /\ InferredObjects(on[p]) = {}
  /\ Die(p)
  /\ \E row \in Garbage : objects' = AddedRow(objects, on[p], row)
  /\ slips' = slips \cup {"group"}
  /\ UNCHANGED <<phase, known, subjects, content, warned>>

-----------------------------------------------------------------------------
(* rwfm_read, rwfm_write: the check, a warning, and the original call *)

Read(p, f) ==
  /\ Hooked /\ pc[p] = "idle" /\ KernelReads(uid[p], f)
  /\ \/ /\ \E ret \in Results :
            /\ file_read_check(Sid(p), f, ret)
            /\ warned' = (warned \/ ret # "allowed")
       /\ slips' = slips
     \/ /\ Overlapped(p)
        /\ subjects' \in Damaged(subjects) /\ warned' \in {warned, TRUE}
        /\ slips' = slips \cup {"race"}
        /\ UNCHANGED <<known, objects>>
  /\ Go(p, "read", f)
  /\ UNCHANGED <<phase, uid, know, content>>

ReadData(p) ==
  /\ pc[p] = "read"
  /\ know' = [know EXCEPT ![p] = @ \cup content[on[p]]]
  /\ Go(p, "idle", p)
  /\ UNCHANGED <<phase, tables, uid, content, warned, slips>>

Write(p, f) ==
  /\ Hooked /\ pc[p] = "idle" /\ KernelWrites(uid[p], f)
  /\ \/ /\ \E ret \in Results :
            /\ file_write_check(Sid(p), f, ret)
            /\ warned' = (warned \/ ret # "allowed")
       /\ slips' = slips
     \/ /\ Overlapped(p)
        /\ warned' \in {warned, TRUE}
        /\ slips' = slips \cup {"race"}
        /\ UNCHANGED tables
  /\ Go(p, "write", f)
  /\ UNCHANGED <<phase, uid, know, content>>

WriteData(p) ==
  /\ pc[p] = "write"
  /\ content' = [content EXCEPT ![on[p]] = @ \cup know[p]]
  /\ Go(p, "idle", p)
  /\ UNCHANGED <<phase, tables, uid, know, warned, slips>>

\* Rows stay when processes end.
Exit(p) ==
  /\ Hooked /\ pc[p] = "idle"
  /\ Die(p)
  /\ UNCHANGED <<phase, tables, content, warned, slips>>

Next ==
  \/ replace_syscalls \/ add_all_hosts \/ add_all_groups
  \/ \E u \in Users : add_user_id(u)
  \/ restore_syscalls \/ release_memory
  \/ \E p, q \in Pids : Clone(p, q)
  \/ \E p \in Pids, f \in Files : Open(p, f) \/ Read(p, f) \/ Write(p, f)
  \/ \E p \in Pids : CloneCheck(p) \/ AddSubject(p) \/ AddHostless(p)
                       \/ OpenCheck(p) \/ AddObject(p) \/ OpenFault(p)
                       \/ ReadData(p) \/ WriteData(p) \/ Exit(p)

Spec == Init /\ [][Next]_vars

-----------------------------------------------------------------------------
(* Properties *)

(***************************************************************************)
(* The types of the tables and of the processes; the tables are as full as *)
(* the phase says.                                                         *)
(***************************************************************************)
TypeOK ==
  /\ phase \in Phases
  /\ known \subseteq Users
  /\ phase \in {"groups", "loaded", "unhooked"} => known = Users
  /\ DOMAIN subjects \subseteq Users \X Pids /\ subjects \in [DOMAIN subjects -> Row]
  /\ DOMAIN objects \subseteq Files /\ objects \in [DOMAIN objects -> Row]
  /\ pc \in [Pids -> {"free", "idle", "cloned", "adding", "hostless",
                       "opened", "labelling", "read", "write"}]
  /\ uid \in [Pids -> Users \cup {NoUser}]
  /\ on \in [Pids -> Pids \cup Files]
  /\ \A p \in Pids :
       /\ Live(p) <=> uid[p] \in Users
       /\ pc[p] \in {"opened", "labelling", "read", "write"} => on[p] \in Files
       /\ pc[p] \notin {"opened", "labelling", "read", "write"} => on[p] \in Pids
  /\ know \in [Pids -> SUBSET Files] /\ content \in [Files -> SUBSET Files]
  /\ warned \in BOOLEAN
  /\ slips \subseteq {"early", "reuse", "race", "group", "unload"}

(***************************************************************************)
(* As long as the log has no warning, information has gone only where the  *)
(* permissions of the files it is from let it: by whatever chain of reads, *)
(* writes and clones, while the module loads or later.                     *)
(***************************************************************************)
LeaksAreWarned ==
  ~warned /\ slips = {} =>
    \A g \in Files :
      /\ \A p \in Pids : g \in know[p] => uid[p] \in ReadersOf(g)
      /\ \A f \in Files : g \in content[f] => ReadersOf(f) \subseteq ReadersOf(g)

(***************************************************************************)
(* Between loading and unloading the module never lowers a label, and      *)
(* never gives a file another one, unless a check went wrong because it    *)
(* overlapped another that copied the tables: the copy may be one of the   *)
(* label as it was before it rose.                                         *)
(***************************************************************************)
RowsOnlyRise ==
  [][phase' # "gone" /\ "race" \notin slips' =>
       /\ \A s \in DOMAIN subjects :
            s \in DOMAIN subjects' /\ FlowsTo(subjects[s], subjects'[s])
       /\ \A f \in DOMAIN objects :
            f \in DOMAIN objects' /\ objects'[f] = objects[f]]_vars
=============================================================================
