---------------------------- MODULE GroupSignals ----------------------------
(***************************************************************************)
(* Signals to groups of processes: kill with a pid that is not positive,   *)
(* and killpg, in preload.c, with the lists that signal_utils.h makes from *)
(* /proc.  A call is three steps: List, Check and Deliver, the kernel's    *)
(* call, which signals whoever it finds then.                              *)
(*                                                                         *)
(* Auxiliary, as in SecureProcesses: know[p], the files that the memory of *)
(* p has information from, and the part of it that a signal tells.  slips  *)
(* records that a call reached or may reach somebody it did not ask about: *)
(*   "joined"  a process came into the group after it was listed           *)
(*   "leader"  kill(-g) leaves out g, and lists the group that g is in     *)
(*             now; it is sound only where g calls it for its own group    *)
(*                                                                         *)
(* Environment.  Processes are single-threaded and keep their user; those  *)
(* of Strangers were not forked under the monitor and have no row; those   *)
(* of Jobs are in one group from the start, of one user or, as below sudo, *)
(* of several.  Forks do not overlap, a fork is not cut short and a pid is *)
(* not used again while it has a row, so the handshake over FORK_LOCK is   *)
(* part of ForkCheck: SecureProcesses is about these.  One step reads a    *)
(* file, and scandir with all its getpgid is one step.  For a list that    *)
(* fits its buffer: 512 characters hold about 40 processes.                *)
(***************************************************************************)
EXTENDS RuleEngine

CONSTANTS Jobs, Strangers,     \* the pids that run at first
          User,                \* whose process each of these is
          Leader,              \* the leader of Jobs' group
          Privileged           \* users with uid 0

Forms == {"kill(0)", "kill(-1)", "kill(-g)", "killpg"}

ASSUME GroupAssumption == /\ Jobs \subseteq Pids /\ Strangers \subseteq Pids \ Jobs
                          /\ User \in [Jobs \cup Strangers -> Users]
                          /\ Leader \in Jobs
                          /\ Privileged \subseteq Users

VARIABLES pc, uid, pgid,       \* of each pid; "free" pids have no user
          on,                  \* the pending call of each pid
          know, slips

vars == <<revars, pc, uid, pgid, on, know, slips>>

Sid(p) == <<uid[p], p>>

Live(p) == pc[p] # "free"

ReadersOf(f) == infer_file_labels(FileStat[f]).readers

NoCall == [form |-> "none", group |-> InitProc, pids |-> {}, tells |-> {}]

Return(p) == pc' = [pc EXCEPT ![p] = "idle"] /\ on' = [on EXCEPT ![p] = NoCall]

Init ==
  /\ server = "up"
  /\ subjects = [s \in {<<User[p], p>> : p \in Jobs} |-> DefaultSubject(s[1])]
  /\ objects = [f \in Files |-> InferredObject(f)]
  /\ pc = [p \in Pids |-> IF p \in Jobs \cup Strangers THEN "idle" ELSE "free"]
  /\ uid = [p \in Pids |-> IF p \in Jobs \cup Strangers THEN User[p] ELSE NoUser]
  /\ pgid = [p \in Pids |-> IF p \in Jobs THEN Leader ELSE p]
  /\ on = [p \in Pids |-> NoCall]
  /\ know = [p \in Pids |-> {}]
  /\ slips = {}

-----------------------------------------------------------------------------
(* The kernel, /proc, and the lists *)

Members(g) == {q \in Pids : Live(q) /\ pgid[q] = g}

\* What getpgid answers; no process has pgid InitProc, so it stands for -1.
getpgid(p) == IF Live(p) THEN pgid[p] ELSE InitProc

(***************************************************************************)
(* get_group_pids_from_pid: of a pid, the group it is in, but not itself;  *)
(* of a negated group, the whole group.                                    *)
(***************************************************************************)
get_group_pids_from_pid(p) == Members(getpgid(p)) \ {p}
get_group_pids_from_group(g) == Members(g)

\* pid 1 is a process of root that the monitor does not know.
get_all_permitted_pids_from_pid(p) ==
  IF uid[p] \in Privileged THEN ({q \in Pids : Live(q)} \ {p}) \cup {InitProc}
                           ELSE {q \in Pids : Live(q) /\ uid[q] = uid[p]} \ {p}

Listed(p, form, g) ==
  CASE form = "kill(0)"  -> get_group_pids_from_pid(p)
    [] form = "kill(-1)" -> get_all_permitted_pids_from_pid(p)
    [] form = "kill(-g)" -> get_group_pids_from_pid(g)
    [] form = "killpg"   -> get_group_pids_from_group(g)

\* The processes that the kernel signals for the pending call of p.
Signalled(p) ==
  LET may == {q \in Pids : Live(q) /\ (uid[p] \in Privileged \/ uid[q] = uid[p])}
  IN  CASE on[p].form = "kill(0)"  -> may \cap Members(pgid[p])
        [] on[p].form = "kill(-1)" -> may \ {p}
        [] OTHER                   -> may \cap Members(on[p].group)

-----------------------------------------------------------------------------
(* Processes and their groups *)

NoRowOf(c) == \A u \in Users : <<u, c>> \notin DOMAIN subjects

ForkPending == \E p \in Pids : pc[p] = "forked"

\* A list that was made before this step lacks somebody the call will reach.
Joins ==
  slips' = IF \E p \in Pids : /\ pc[p] \in {"listed", "deliver"}
                              /\ ~(Signalled(p)' \subseteq Signalled(p))
             THEN slips \cup {"joined"} ELSE slips

Fork(p, c) ==
  /\ server = "up" /\ pc[p] = "idle" /\ p \notin Strangers
  /\ pc[c] = "free" /\ NoRowOf(c) /\ Members(c) = {} /\ ~ForkPending
  /\ pc' = [pc EXCEPT ![p] = "forkwait", ![c] = "forked"]
  /\ uid' = [uid EXCEPT ![c] = uid[p]]
  /\ pgid' = [pgid EXCEPT ![c] = pgid[p]]
  /\ know' = [know EXCEPT ![c] = know[p]]
  /\ UNCHANGED <<revars, on>>
  /\ Joins

ForkCheck(p, c) ==
  /\ pc[p] = "forkwait" /\ pc[c] = "forked"
  /\ fork_check(uid[c], c, p)
  /\ pc' = [pc EXCEPT ![p] = "idle", ![c] = "idle"]
  /\ UNCHANGED <<uid, pgid, on, know, slips>>

\* A process makes a group of its own, or joins another.
Setpgid(p, g) ==
  /\ server = "up" /\ pc[p] = "idle" /\ p \notin Strangers
  /\ g = p \/ Members(g) # {}
  /\ pgid' = [pgid EXCEPT ![p] = g]
  /\ UNCHANGED <<revars, pc, uid, on, know>>
  /\ Joins

ReadFile(p, f) ==
  /\ pc[p] = "idle" /\ p \notin Strangers
  /\ file_read_check(Sid(p), f, "allowed")
  /\ know' = [know EXCEPT ![p] = @ \cup {f}]
  /\ UNCHANGED <<pc, uid, pgid, on, slips>>

Exit(p) ==
  /\ server = "up" /\ Live(p) /\ pc[p] \notin {"forkwait", "forked"}
  /\ pc' = [pc EXCEPT ![p] = "free"]
  /\ uid' = [uid EXCEPT ![p] = NoUser]
  /\ pgid' = [pgid EXCEPT ![p] = p]
  /\ on' = [on EXCEPT ![p] = NoCall]
  /\ know' = [know EXCEPT ![p] = {}]
  /\ UNCHANGED <<revars, slips>>

-----------------------------------------------------------------------------
(* kill(0, sig), kill(-1, sig), kill(-g, sig), killpg(g, sig) *)

\* With nobody on the list the kernel's call follows, unchecked.
List(p, form, g) ==
  LET pids == Listed(p, form, g)
  IN  /\ server = "up" /\ pc[p] = "idle" /\ p \notin Strangers
      /\ form \in {"kill(0)", "kill(-1)"} => g = pgid[p]
      /\ pc' = [pc EXCEPT ![p] = IF pids = {} THEN "deliver" ELSE "listed"]
      /\ on' = [on EXCEPT ![p] = [form |-> form, group |-> g, pids |-> pids,
                                  tells |-> know[p]]]
      /\ slips' = IF form = "kill(-g)" /\ ~(g = p /\ pgid[p] = g)
                    THEN slips \cup {"leader"} ELSE slips
      /\ UNCHANGED <<revars, uid, pgid, know>>

\* -1, here NoUser, of a process that has ended since.  Pid 1 has no row either way.
get_uid_from_pid(q) == IF q \in Pids THEN uid[q] ELSE NoUser

\* One peer is asked about with kill_check, several with kill_many_check.
kill_group_check(p, ret) ==
  LET peers == {<<get_uid_from_pid(q), q>> : q \in on[p].pids}
  IN  \/ \E peer \in peers : peers = {peer} /\ kill_check(Sid(p), peer, ret)
      \/ /\ \A peer \in peers : peers # {peer}
         /\ kill_many_check(Sid(p), peers, ret)

Check(p) ==
  /\ pc[p] = "listed"
  /\ \/ /\ kill_group_check(p, "allowed")
        /\ pc' = [pc EXCEPT ![p] = "deliver"]
        /\ UNCHANGED on
     \/ /\ kill_group_check(p, "denied")
        /\ Return(p)
     \/ /\ kill_group_check(p, "stopped")
        /\ UNCHANGED <<pc, on>>
  /\ UNCHANGED <<uid, pgid, know, slips>>

\* underlying_kill, underlying_killpg
Deliver(p) ==
  /\ server = "up" /\ pc[p] = "deliver"
  /\ know' = [q \in Pids |-> IF q \in Signalled(p) THEN know[q] \cup on[p].tells
                                                   ELSE know[q]]
  /\ Return(p)
  /\ UNCHANGED <<revars, uid, pgid, slips>>

Next ==
  \/ \E p, c \in Pids : Fork(p, c) \/ ForkCheck(p, c) \/ Setpgid(p, c)
  \/ \E p \in Pids, f \in Files : ReadFile(p, f)
  \/ \E p, g \in Pids, form \in Forms : List(p, form, g)
  \/ \E p \in Pids : Check(p) \/ Deliver(p) \/ Exit(p)

Spec == Init /\ [][Next]_vars

-----------------------------------------------------------------------------
(* Properties *)

(***************************************************************************)
(* The types of the processes and of their calls.                          *)
(***************************************************************************)
Call == [form : Forms \cup {"none"}, group : Pids \cup {InitProc},
         pids : SUBSET (Pids \cup {InitProc}), tells : SUBSET Files]

TypeOK ==
  /\ RETypeOK
  /\ pc \in [Pids -> {"free", "idle", "forkwait", "forked", "listed", "deliver"}]
  /\ uid \in [Pids -> Users \cup {NoUser}]
  /\ \A p \in Pids : Live(p) <=> uid[p] \in Users
  /\ pgid \in [Pids -> Pids]
  /\ on \in [Pids -> Call]
  /\ know \in [Pids -> SUBSET Files]
  /\ slips \subseteq {"joined", "leader"}

(***************************************************************************)
(* A process that got information, by whatever chain of signals to groups  *)
(* and forks, has a row whose readers may all read the files it is from.   *)
(* So each signal was checked for each process it reached, until a group   *)
(* changed under a call, or kill(-g) was called from outside g.            *)
(***************************************************************************)
KnowledgeCovered ==
  server = "up" /\ slips = {} =>
    \A p \in Pids : \A f \in know[p] :
      /\ uid[p] \in ReadersOf(f)
      /\ pc[p] # "forked" =>
           /\ Sid(p) \in DOMAIN subjects
           /\ subjects[Sid(p)].readers \subseteq ReadersOf(f)

(***************************************************************************)
(* A signal to a group ends the server only when somebody on its list is   *)
(* not a registered process: it ended after it was listed, it is a child   *)
(* whose fork is not over, or it never ran under the monitor.              *)
(***************************************************************************)
StopsOnlyForStrangers ==
  [][server = "up" /\ server' = "stopped" =>
       \E p \in Pids : \E q \in on[p].pids :
         q \in Strangers \cup {InitProc} \/ pc[q] \in {"free", "forked"}]_vars

(***************************************************************************)
(* preload.c:381: "If signalling multiple processes, then check semantics  *)
(* for each process to be signalled".                                      *)
(***************************************************************************)
EachIsChecked ==
  [][\A p \in Pids :
       /\ pc[p] = "deliver" /\ pc'[p] = "idle"
       /\ \E q, r \in on[p].pids : q # r
       => Signalled(p) \subseteq on[p].pids \cup {p}]_vars
=============================================================================
