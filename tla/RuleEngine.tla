----------------------------- MODULE RuleEngine -----------------------------
(***************************************************************************)
(* rule_engine.h over the label database of database_server.c, for files,  *)
(* forks and signals.  Every check runs between lock() and unlock(), so a  *)
(* check is one step here.                                                 *)
(*                                                                         *)
(* A subject is named by (uid, pid) as in SUBJECT_ID; there is one host.   *)
(* An object is named by the file, which stands for (device, inode).       *)
(*                                                                         *)
(* A check takes the result it returns as its last parameter:              *)
(*   "allowed"  1                                                          *)
(*   "denied"   0                                                          *)
(*   "error"    -1, the file is not in the database                        *)
(*   "stopped"  it asked for a row that does not exist; do_operation       *)
(*              returns -2 and start_server removes the response queue and *)
(*              exits, so the caller never gets an answer.                 *)
(***************************************************************************)
EXTENDS LabelInference

CONSTANTS Pids, Files,
          InitProc,            \* pid 1, the parent of orphans
          FileStat             \* what stat() reports of each file

ASSUME RuleEngineAssumption == /\ FileStat \in [Files -> StatRecord]
                               /\ InitProc \notin Pids

VARIABLES subjects,            \* all_subject_ids with all_subjects
          objects,             \* all_object_ids with all_objects
          server               \* "up", or "stopped" for good

revars == <<subjects, objects, server>>

SubjectIds == Users \X Pids

SubjectRow == [owner : Users, readers : UserSet, writers : UserSet]
ObjectRow == [owner : Users \cup {NoUser}, readers : UserSet, writers : UserSet]

\* Mutants of AddRow and DefaultSubject: a row that is there is overwritten; the
\* owner is looked up with the wrong key, which answers -1.
AddRow_Overwrites(table, id, row) ==
  [i \in DOMAIN table \cup {id} |-> IF i = id THEN row ELSE table[i]]
DefaultSubject_WrongKey(u) == [owner |-> NoUser, readers |-> Users, writers |-> {NoUser}]

(***************************************************************************)
(* add_subject and add_object: a row that is there already is kept.        *)
(***************************************************************************)
AddRow(table, id, row) ==
  [i \in DOMAIN table \cup {id} |-> IF i \in DOMAIN table THEN table[i] ELSE row]

DefaultSubject(u) == [owner |-> u, readers |-> Users, writers |-> {u}]

InferredObject(f) ==
  LET label == infer_file_labels(FileStat[f])
  IN  [owner |-> FileStat[f].uid, readers |-> label.readers, writers |-> label.writers]

\* Mutant of fork_check: child and parent are swapped.
fork_check_Swapped(u, child, parent) ==
  /\ server = "up"
  /\ subjects' = AddRow(subjects, <<u, parent>>,
                        IF <<u, child>> \in DOMAIN subjects
                          THEN subjects[<<u, child>>]
                          ELSE DefaultSubject(u))
  /\ UNCHANGED <<objects, server>>

fork_check(u, child, parent) ==
  /\ server = "up"
  /\ subjects' = AddRow(subjects, <<u, child>>,
                        IF <<u, parent>> \in DOMAIN subjects
                          THEN subjects[<<u, parent>>]
                          ELSE DefaultSubject(u))
  /\ UNCHANGED <<objects, server>>

file_open_check(f) ==
  /\ server = "up"
  /\ objects' = AddRow(objects, f, InferredObject(f))
  /\ UNCHANGED <<subjects, server>>

(***************************************************************************)
(* get_subject or get_object of an index that has no row.                  *)
(***************************************************************************)
StopServer == server = "up" /\ server' = "stopped" /\ UNCHANGED <<subjects, objects>>

\* Mutant of file_read_check: get_object is called without the test for -1.
file_read_check_NoFdTest(s, f, ret) ==
  \/ /\ ~(f \in DOMAIN objects /\ s \in DOMAIN subjects)
     /\ ret = "stopped"
     /\ StopServer
  \/ /\ f \in DOMAIN objects /\ s \in DOMAIN subjects
     /\ ret = "allowed"
     /\ server = "up"
     /\ subjects' = [subjects EXCEPT ![s] = Raise(@, objects[f])]
     /\ UNCHANGED <<objects, server>>

file_read_check(s, f, ret) ==
  \/ /\ f \in DOMAIN objects /\ s \notin DOMAIN subjects
     /\ ret = "stopped"
     /\ StopServer
  \/ /\ f \notin DOMAIN objects
     /\ ret = "error"
     /\ server = "up" /\ UNCHANGED revars
  \/ /\ f \in DOMAIN objects /\ s \in DOMAIN subjects
     /\ subjects[s].owner \notin objects[f].readers
     /\ ret = "denied"
     /\ server = "up" /\ UNCHANGED revars
  \/ /\ f \in DOMAIN objects /\ s \in DOMAIN subjects
     /\ subjects[s].owner \in objects[f].readers
     /\ ret = "allowed"
     /\ server = "up"
     /\ subjects' = [subjects EXCEPT ![s] = Raise(@, objects[f])]
     /\ UNCHANGED <<objects, server>>

\* Mutant of WriteAllowed: only the owner is looked at, as in a read.
WriteAllowed_OwnerOnly(sub, obj) == sub.owner \in obj.writers

WriteAllowed(sub, obj) == sub.owner \in obj.writers /\ FlowsTo(sub, obj)

file_write_check(s, f, ret) ==
  \/ /\ f \in DOMAIN objects /\ s \notin DOMAIN subjects
     /\ ret = "stopped"
     /\ StopServer
  \/ /\ f \notin DOMAIN objects
     /\ ret = "error"
     /\ server = "up" /\ UNCHANGED revars
  \/ /\ f \in DOMAIN objects /\ s \in DOMAIN subjects
     /\ ret = IF WriteAllowed(subjects[s], objects[f]) THEN "allowed" ELSE "denied"
     /\ server = "up" /\ UNCHANGED revars

\* Mutant of kill_check: the owner of the peer is not looked up in the readers.
kill_check_NoOwnerTest(s, peer, ret) ==
  \/ /\ ~({s, peer} \subseteq DOMAIN subjects)
     /\ ret = "stopped"
     /\ StopServer
  \/ /\ {s, peer} \subseteq DOMAIN subjects
     /\ ret = "allowed"
     /\ server = "up"
     /\ subjects' = [subjects EXCEPT ![peer] = Raise(@, subjects[s])]
     /\ UNCHANGED <<objects, server>>

(***************************************************************************)
(* s signals the subject `peer': the signal carries information from s.    *)
(***************************************************************************)
kill_check(s, peer, ret) ==
  \/ /\ ~({s, peer} \subseteq DOMAIN subjects)
     /\ ret = "stopped"
     /\ StopServer
  \/ /\ {s, peer} \subseteq DOMAIN subjects
     /\ subjects[peer].owner \notin subjects[s].readers
     /\ ret = "denied"
     /\ server = "up" /\ UNCHANGED revars
  \/ /\ {s, peer} \subseteq DOMAIN subjects
     /\ subjects[peer].owner \in subjects[s].readers
     /\ ret = "allowed"
     /\ server = "up"
     /\ subjects' = [subjects EXCEPT ![peer] = Raise(@, subjects[s])]
     /\ UNCHANGED <<objects, server>>

\* Mutants of kill_many_check: one allowed owner is enough; only one label is raised.
kill_many_check_AnyOwner(s, peers, ret) ==
  \/ /\ ~(peers \cup {s} \subseteq DOMAIN subjects)
     /\ ret = "stopped"
     /\ StopServer
  \/ /\ peers \cup {s} \subseteq DOMAIN subjects
     /\ \E peer \in peers : subjects[peer].owner \in subjects[s].readers
     /\ ret = "allowed"
     /\ server = "up"
     /\ subjects' = [t \in DOMAIN subjects |->
                      IF t \in peers THEN Raise(subjects[t], subjects[s]) ELSE subjects[t]]
     /\ UNCHANGED <<objects, server>>
kill_many_check_OneRaised(s, peers, ret) ==
  \/ /\ ~(peers \cup {s} \subseteq DOMAIN subjects)
     /\ ret = "stopped"
     /\ StopServer
  \/ /\ peers \cup {s} \subseteq DOMAIN subjects
     /\ ret = "allowed"
     /\ server = "up"
     /\ \E peer \in peers :
          subjects' = [subjects EXCEPT ![peer] = Raise(@, subjects[s])]
     /\ UNCHANGED <<objects, server>>

(***************************************************************************)
(* s signals all of `peers', or none of them: the owners are looked at in  *)
(* the order of the list, and a denial ends that before a later peer that  *)
(* has no row; then every label is raised from the copies fetched first.   *)
(***************************************************************************)
kill_many_check(s, peers, ret) ==
  \/ /\ ~(peers \cup {s} \subseteq DOMAIN subjects)
     /\ ret = "stopped"
     /\ StopServer
  \/ /\ s \in DOMAIN subjects
     /\ \E peer \in peers \cap DOMAIN subjects :
          subjects[peer].owner \notin subjects[s].readers
     /\ ret = "denied"
     /\ server = "up" /\ UNCHANGED revars
  \/ /\ peers \cup {s} \subseteq DOMAIN subjects
     /\ \A peer \in peers : subjects[peer].owner \in subjects[s].readers
     /\ ret = "allowed"
     /\ server = "up"
     /\ subjects' = [t \in DOMAIN subjects |->
                      IF t \in peers THEN Raise(subjects[t], subjects[s]) ELSE subjects[t]]
     /\ UNCHANGED <<objects, server>>

(***************************************************************************)
(* The rule engine on its own, called with any arguments.                  *)
(***************************************************************************)
\* What a list of pids may name: processes without a user or a row, pid 1 too.
PeerIds == (Users \cup {NoUser}) \X (Pids \cup {InitProc})

Results == {"allowed", "denied", "error", "stopped"}

REInit ==
  /\ subjects = [s \in {} |-> DefaultSubject(s)]
  /\ objects = [f \in {} |-> InferredObject(f)]
  /\ server = "up"

RENext ==
  \/ \E u \in Users, child \in Pids, parent \in Pids \cup {InitProc} :
       fork_check(u, child, parent)
  \/ \E f \in Files : file_open_check(f)
  \/ \E s \in SubjectIds, f \in Files, ret \in Results :
       file_read_check(s, f, ret) \/ file_write_check(s, f, ret)
  \/ \E s, peer \in SubjectIds, ret \in Results : kill_check(s, peer, ret)
  \/ \E s \in SubjectIds, peers \in SUBSET PeerIds, ret \in Results :
       kill_many_check(s, peers, ret)

RESpec == REInit /\ [][RENext]_revars

-----------------------------------------------------------------------------
(* Properties *)

(***************************************************************************)
(* The rows of the database have the types of database_model.h, and bits   *)
(* only for registered users.                                              *)
(***************************************************************************)
RETypeOK ==
  /\ DOMAIN subjects \subseteq SubjectIds /\ subjects \in [DOMAIN subjects -> SubjectRow]
  /\ DOMAIN objects \subseteq Files /\ objects \in [DOMAIN objects -> ObjectRow]
  /\ server \in {"up", "stopped"}

(***************************************************************************)
(* A subject's owner stays among its readers and its writers: whatever its *)
(* process read, its own user may read what it makes of it, so reads and   *)
(* signals never shut a user out of his own processes.                     *)
(***************************************************************************)
OwnerKeepsAccess ==
  \A s \in DOMAIN subjects :
    subjects[s].owner = s[1] /\ s[1] \in subjects[s].readers \cap subjects[s].writers

(***************************************************************************)
(* The label of an object is the one that its permissions give: nothing in *)
(* the rule engine relabels a file that it knows.                          *)
(***************************************************************************)
ObjectsInferred == \A f \in DOMAIN objects : objects[f] = InferredObject(f)

(***************************************************************************)
(* A label is never lowered: no step gives a subject a reader it had lost, *)
(* takes a writer from it, or changes the label of an object.              *)
(***************************************************************************)
LabelsOnlyRise ==
  [][/\ \A s \in DOMAIN subjects :
          s \in DOMAIN subjects' /\ FlowsTo(subjects[s], subjects'[s])
     /\ \A f \in DOMAIN objects :
          f \in DOMAIN objects' /\ objects'[f] = objects[f]]_revars
=============================================================================
