-------------------------- MODULE SecureProcesses ---------------------------
(***************************************************************************)
(* The processes of a host where every user works in a secure shell: the   *)
(* wrappers of preload.c around fork, open, read, write and kill, the      *)
(* kernel calls beneath them, and the rule engine they consult.            *)
(*                                                                         *)
(* A wrapper is as many steps as other processes can interleave with: the  *)
(* kernel call and the check are separate steps, in the order of the code  *)
(* (read: call, then check; write: check, then call; kill: the target's    *)
(* uid, the check, the call; fork: call, then on the child's side check    *)
(* and post, and on the parent's side sem_open and sem_wait).              *)
(*                                                                         *)
(* Two auxiliary notions carry the information-flow properties.  An info   *)
(* record says where information comes from: src, the files it was read    *)
(* from, and inf, the users who influenced it.  know[p] describes the      *)
(* memory of process p, content[f] the bytes of file f.  No guard of a     *)
(* modelled operation reads either.                                        *)
(*                                                                         *)
(* Environment.  Processes are single-threaded, do not change uid, and do  *)
(* not touch a buffer while a call that uses it is in progress.  Which     *)
(* descriptors are open is left out: a process may ask for any file that   *)
(* its user may open.  The monitor stays enabled.  Faults names the        *)
(* departures from a well-behaved host that a run lets happen:             *)
(*   "dies_in_fork"  a process may die while fork's handshake is pending   *)
(*   "pid_reuse"     the kernel may give a child a pid whose old process   *)
(*                   still has a row in the database                       *)
(*   "fork_overlap"  two forks may be in progress at once, on the one name *)
(*                   FORK_LOCK that all of them share                      *)
(*   "fork_fails"    underlying_fork may return -1                         *)
(***************************************************************************)
EXTENDS RuleEngine, Naturals

CONSTANTS Shells,              \* pids of the secure shells
          ShellUser,           \* the user of each shell
          NewFiles,            \* files that do not exist at first
          Privileged,          \* users the kernel's permissions do not bind
          Faults

AllFaults == {"dies_in_fork", "pid_reuse", "fork_overlap", "fork_fails"}

ASSUME ProcessAssumption == /\ Shells \subseteq Pids
                            /\ ShellUser \in [Shells -> Users]
                            /\ NewFiles \subseteq Files
                            /\ Privileged \subseteq Users
                            /\ Faults \subseteq AllFaults

VARIABLES pc,                  \* where each pid is in its wrapper
          uid,                 \* the user of each pid, NoUser when it is free
          on,                  \* what the pending wrapper is about: a file,
                               \* the subject to signal, the child of a fork
                               \* or the parent of a forked child
          know,                \* the information in the memory of each pid
          buf,                 \* the information in the buffer of the call
          content,             \* the information in each file
          exists,              \* the files that exist
          woken,               \* pids whose is_rwfm_enabled the stopping
                               \* server cut short
          locks,               \* the semaphores that have, or had, the name
                               \* FORK_LOCK, while anybody can reach them
          stranded             \* auxiliary: the parents during whose fork
                               \* another parent took the name away

forkvars == <<locks, stranded>>

vars == <<subjects, objects, server, pc, uid, on, know, buf, content, exists, woken,
          locks, stranded>>

-----------------------------------------------------------------------------
Info == [src : SUBSET Files, inf : UserSet]

Nothing == [src |-> {}, inf |-> {}]
OwnInfo(u) == [src |-> {}, inf |-> {u}]

Join(i, j) == [src |-> i.src \cup j.src, inf |-> i.inf \cup j.inf]

\* What is in file f before any monitored process runs.
InitialContent(f) ==
  IF f \in NewFiles THEN Nothing
  ELSE [src |-> {f}, inf |-> infer_file_labels(FileStat[f]).writers]

KernelReads(u, f) == u \in Privileged \cup KernelReaders(FileStat[f])
KernelWrites(u, f) == u \in Privileged \cup KernelWriters(FileStat[f])

Sid(p) == <<uid[p], p>>

Live(p) == pc[p] # "free"
Registered(p) == Sid(p) \in DOMAIN subjects

\* Parents in a fork that made a child or failed, and children in their half of one.
Forking(p) == pc[p] \in {"forking", "forkwait"}
Child(p) == pc[p] \in {"forked", "posting"}

Semaphore == [named : BOOLEAN, value : Nat, waiters : SUBSET Pids]

\* The one that sem_open finds.
Named == {s \in locks : s.named}

\* What is left of a set of semaphores when p waits on none of them any more.
LeftBy(p, sems) ==
  {t \in {[s EXCEPT !.waiters = @ \ {p}] : s \in sems} : t.named \/ t.waiters # {}}

\* Nothing is pending on p any more.
Return(p) == /\ pc' = [pc EXCEPT ![p] = "idle"]
             /\ on' = [on EXCEPT ![p] = InitProc]
             /\ buf' = [buf EXCEPT ![p] = Nothing]

(***************************************************************************)
(* When the server stops it removes the response queue.  A process blocked *)
(* in the read_response of is_rwfm_enabled then gets an error it does not  *)
(* look at, and takes what is on its stack for the answer: 0 means "go on  *)
(* without a check".  Any process that is about to begin a wrapper, or has *)
(* its kernel read behind it, may have been in that call.  The one whose   *)
(* check stopped the server blocks for ever in its next request.           *)
(***************************************************************************)
CutShort(p) ==
  woken' = IF server' = "stopped" THEN {r \in Pids \ {p} : pc[r] \in {"idle", "read"}}
                                  ELSE {}

Init ==
  /\ REInit
  /\ pc = [p \in Pids |-> IF p \in Shells THEN "idle" ELSE "free"]
  /\ uid = [p \in Pids |-> IF p \in Shells THEN ShellUser[p] ELSE NoUser]
  /\ on = [p \in Pids |-> InitProc]
  /\ know = [p \in Pids |-> IF p \in Shells THEN OwnInfo(ShellUser[p]) ELSE Nothing]
  /\ buf = [p \in Pids |-> Nothing]
  /\ content = [f \in Files |-> InitialContent(f)]
  /\ exists = Files \ NewFiles
  /\ woken = {}
  /\ locks = {} /\ stranded = {}

-----------------------------------------------------------------------------
(* the end of a process *)

(***************************************************************************)
(* No wrapper sees a process end: its row stays in the database.           *)
(***************************************************************************)
Ends(p) ==
  /\ pc' = [pc EXCEPT ![p] = "free"]
  /\ uid' = [uid EXCEPT ![p] = NoUser]
  /\ on' = [r \in Pids |-> IF r = p \/ (pc[r] = "forked" /\ on[r] = p)
                             THEN InitProc ELSE on[r]]
  /\ know' = [know EXCEPT ![p] = Nothing]
  /\ buf' = [buf EXCEPT ![p] = Nothing]
  /\ woken' = woken \ {p}
  /\ locks' = LeftBy(p, locks)
  /\ stranded' = stranded \ {p}
  /\ UNCHANGED <<revars, content, exists>>

Exit(p) ==
  /\ Live(p)
  /\ Forking(p) \/ Child(p) => "dies_in_fork" \in Faults
  /\ Ends(p)

-----------------------------------------------------------------------------
(* fork *)

NoRowOf(c) == \A u \in Users : <<u, c>> \notin DOMAIN subjects

\* sem_open(FORK_LOCK, O_CREAT, 0666, 0)
CreateLock ==
  locks' = IF Named # {} THEN locks
           ELSE locks \cup {[named |-> TRUE, value |-> 0, waiters |-> {}]}

CanFork(p) ==
  /\ server = "up" /\ pc[p] = "idle"
  /\ (\A q \in Pids : ~Forking(q) /\ ~Child(q)) \/ "fork_overlap" \in Faults

(***************************************************************************)
(* underlying_fork: the child c has a copy of the memory of p.             *)
(***************************************************************************)
Fork(p, c) ==
  /\ CanFork(p)
  /\ pc[c] = "free"
  /\ NoRowOf(c) \/ "pid_reuse" \in Faults
  /\ CreateLock
  /\ pc' = [pc EXCEPT ![p] = "forking", ![c] = "forked"]
  /\ on' = [on EXCEPT ![p] = c, ![c] = p]
  /\ uid' = [uid EXCEPT ![c] = uid[p]]
  /\ know' = [know EXCEPT ![c] = know[p]]
  /\ UNCHANGED <<revars, buf, content, exists, woken, stranded>>

(***************************************************************************)
(* It failed; -1 is not 0, so the caller goes on like a parent.            *)
(***************************************************************************)
ForkFails(p) ==
  /\ "fork_fails" \in Faults
  /\ CanFork(p)
  /\ CreateLock
  /\ pc' = [pc EXCEPT ![p] = "forking"]
  /\ on' = [on EXCEPT ![p] = InitProc]
  /\ UNCHANGED <<revars, uid, know, buf, content, exists, woken, stranded>>

(***************************************************************************)
(* The child registers itself under the label of getppid().                *)
(***************************************************************************)
ForkCheck(c) ==
  /\ pc[c] = "forked"
  /\ fork_check(uid[c], c, on[c])
  /\ pc' = [pc EXCEPT ![c] = "posting"]
  /\ on' = [on EXCEPT ![c] = InitProc]
  /\ UNCHANGED <<uid, know, buf, content, exists, woken, forkvars>>

\* Mutant of Post: the child does not post.
Post_Not(c) ==
  /\ pc[c] = "posting"
  /\ pc' = [pc EXCEPT ![c] = "idle"]
  /\ UNCHANGED <<revars, uid, on, know, buf, content, exists, woken, forkvars>>

(***************************************************************************)
(* sem_open and sem_post of the child: it posts the semaphore that has the *)
(* name by then.  Where none has, sem_post gets NULL, and the child dies.  *)
(***************************************************************************)
Post(c) ==
  /\ pc[c] = "posting"
  /\ \/ /\ \E s \in Named : locks' = (locks \ {s}) \cup {[s EXCEPT !.value = @ + 1]}
        /\ pc' = [pc EXCEPT ![c] = "idle"]
        /\ UNCHANGED <<revars, uid, on, know, buf, content, exists, woken, stranded>>
     \/ Named = {} /\ Ends(c)

(***************************************************************************)
(* The sem_open of the parent, with the same end where the name is gone.   *)
(***************************************************************************)
OpenLock(p) ==
  /\ pc[p] = "forking"
  /\ \/ /\ \E s \in Named :
             locks' = (locks \ {s}) \cup {[s EXCEPT !.waiters = @ \cup {p}]}
        /\ pc' = [pc EXCEPT ![p] = "forkwait"]
        /\ UNCHANGED <<revars, uid, on, know, buf, content, exists, woken, stranded>>
     \/ Named = {} /\ Ends(p)

(***************************************************************************)
(* sem_wait returns, and sem_unlink takes the name from whichever          *)
(* semaphore has it, this one or a later one: who opened that before keeps *)
(* it, and nobody else will find it.                                       *)
(***************************************************************************)
ForkReturn(p) ==
  /\ pc[p] = "forkwait"
  /\ \E s \in locks :
       /\ p \in s.waiters /\ s.value > 0
       /\ locks' = LeftBy(p, {[t EXCEPT !.named = FALSE] :
                                t \in (locks \ {s}) \cup {[s EXCEPT !.value = @ - 1]}})
  /\ stranded' = (IF Named = {} THEN stranded
                  ELSE stranded \cup {q \in Pids : Forking(q)}) \ {p}
  /\ Return(p)
  /\ UNCHANGED <<revars, uid, know, content, exists, woken>>

-----------------------------------------------------------------------------
(* open *)

(***************************************************************************)
(* underlying_open, which may create the file, then file_open_check: the   *)
(* first open of a file by anybody settles its label.                      *)
(***************************************************************************)
Open(p, f) ==
  /\ pc[p] = "idle"
  /\ IF f \in exists THEN KernelReads(uid[p], f) \/ KernelWrites(uid[p], f)
                     ELSE uid[p] = FileStat[f].uid
  /\ exists' = exists \cup {f}
  /\ file_open_check(f) \/ (server = "stopped" /\ UNCHANGED revars)
  /\ woken' = woken \ {p}
  /\ UNCHANGED <<pc, uid, on, know, buf, content, forkvars>>

-----------------------------------------------------------------------------
(* read *)

(* underlying_read *)
Read(p, f) ==
  /\ pc[p] = "idle" /\ f \in exists /\ KernelReads(uid[p], f)
  /\ pc' = [pc EXCEPT ![p] = "read"]
  /\ on' = [on EXCEPT ![p] = f]
  /\ buf' = [buf EXCEPT ![p] = content[f]]
  /\ woken' = woken \ {p}
  /\ UNCHANGED <<revars, uid, know, content, exists, forkvars>>

(* file_read_check; a buffer that is not allowed is cleared *)
ReadCheck(p) ==
  /\ pc[p] = "read"
  /\ \/ /\ file_read_check(Sid(p), on[p], "allowed")
        /\ know' = [know EXCEPT ![p] = Join(@, buf[p])]
        /\ Return(p)
     \/ /\ \/ file_read_check(Sid(p), on[p], "denied")
           \/ file_read_check(Sid(p), on[p], "error")
        /\ Return(p)
        /\ UNCHANGED know
     \/ /\ file_read_check(Sid(p), on[p], "stopped")
        /\ UNCHANGED <<pc, on, buf, know>>
  /\ CutShort(p)
  /\ UNCHANGED <<uid, content, exists, forkvars>>

-----------------------------------------------------------------------------
(* write *)

(* file_write_check *)
Write(p, f) ==
  /\ pc[p] = "idle" /\ f \in exists
  /\ \/ /\ file_write_check(Sid(p), f, "allowed")
        /\ pc' = [pc EXCEPT ![p] = "write"]
        /\ on' = [on EXCEPT ![p] = f]
        /\ buf' = [buf EXCEPT ![p] = know[p]]
     \/ /\ \/ file_write_check(Sid(p), f, "denied")
           \/ file_write_check(Sid(p), f, "error")
           \/ file_write_check(Sid(p), f, "stopped")
        /\ UNCHANGED <<pc, on, buf>>
  /\ CutShort(p)
  /\ UNCHANGED <<uid, know, content, exists, forkvars>>

(* underlying_write *)
WriteData(p) ==
  /\ pc[p] = "write"
  /\ content' = IF KernelWrites(uid[p], on[p])
                   THEN [content EXCEPT ![on[p]] = Join(@, buf[p])]
                   ELSE content
  /\ Return(p)
  /\ UNCHANGED <<revars, uid, know, exists, woken, forkvars>>

-----------------------------------------------------------------------------
(* kill, sigqueue: a signal to one process *)

(* get_uid_from_pid, which finds only live processes; it holds no lock *)
Kill(p, q) ==
  /\ server = "up" /\ pc[p] = "idle" /\ Live(q)
  /\ pc' = [pc EXCEPT ![p] = "found"]
  /\ on' = [on EXCEPT ![p] = Sid(q)]
  /\ UNCHANGED <<revars, uid, know, buf, content, exists, woken, forkvars>>

(* kill_check, of the subject the target was when it was found *)
KillCheck(p) ==
  /\ pc[p] = "found"
  /\ \/ /\ kill_check(Sid(p), on[p], "allowed")
        /\ pc' = [pc EXCEPT ![p] = "kill"]
        /\ buf' = [buf EXCEPT ![p] = know[p]]
        /\ UNCHANGED on
     \/ /\ kill_check(Sid(p), on[p], "denied")
        /\ Return(p)
     \/ /\ kill_check(Sid(p), on[p], "stopped")
        /\ UNCHANGED <<pc, on, buf>>
  /\ CutShort(p)
  /\ UNCHANGED <<uid, know, content, exists, forkvars>>

KernelSignals(u, q) == Live(q) /\ (u \in Privileged \/ u = uid[q])

(* underlying_kill: whatever has the pid by now gets the signal *)
Deliver(p) ==
  LET q == on[p][2]
  IN  /\ pc[p] = "kill"
      /\ know' = IF KernelSignals(uid[p], q)
                    THEN [know EXCEPT ![q] = Join(@, buf[p])] ELSE know
      /\ Return(p)
      /\ UNCHANGED <<revars, uid, content, exists, woken, forkvars>>

-----------------------------------------------------------------------------
(* after the end of the server *)

(***************************************************************************)
(* A call whose is_rwfm_enabled was cut short runs without its check.      *)
(***************************************************************************)
Unchecked(p) ==
  /\ server = "stopped" /\ p \in woken
  /\ woken' = woken \ {p}
  /\ \/ /\ pc[p] = "read"
        /\ know' = [know EXCEPT ![p] = Join(@, buf[p])]
        /\ Return(p)
        /\ UNCHANGED <<uid, content>>
     \/ /\ pc[p] = "idle"
        /\ \E f \in exists :
             /\ KernelWrites(uid[p], f)
             /\ content' = [content EXCEPT ![f] = Join(@, know[p])]
        /\ UNCHANGED <<pc, on, buf, uid, know>>
     \/ /\ pc[p] = "idle"
        /\ \E q \in Pids :
             /\ KernelSignals(uid[p], q)
             /\ know' = [know EXCEPT ![q] = Join(@, know[p])]
        /\ UNCHANGED <<pc, on, buf, uid, content>>
     \/ /\ pc[p] = "idle"
        /\ \E c \in Pids :
             /\ pc[c] = "free"
             /\ pc' = [pc EXCEPT ![c] = "idle"]
             /\ uid' = [uid EXCEPT ![c] = uid[p]]
             /\ know' = [know EXCEPT ![c] = know[p]]
        /\ UNCHANGED <<on, buf, content>>
  /\ UNCHANGED <<revars, exists, forkvars>>

Next ==
  \/ \E p, c \in Pids : Fork(p, c)
  \/ \E p \in Pids : ForkFails(p) \/ OpenLock(p) \/ ForkReturn(p)
  \/ \E c \in Pids : ForkCheck(c) \/ Post(c)
  \/ \E p \in Pids, f \in Files : Open(p, f) \/ Read(p, f) \/ Write(p, f)
  \/ \E p \in Pids : ReadCheck(p) \/ WriteData(p) \/ KillCheck(p) \/ Deliver(p)
  \/ \E p, q \in Pids : Kill(p, q)
  \/ \E p \in Pids : Exit(p) \/ Unchecked(p)

Spec == Init /\ [][Next]_vars

-----------------------------------------------------------------------------
(* Properties *)

(***************************************************************************)
(* The type of every variable, as the C structures and wrappers have it.   *)
(***************************************************************************)
TypeOK ==
  /\ RETypeOK
  /\ pc \in [Pids -> {"free", "idle", "forking", "forkwait", "forked", "posting",
                     "read", "write", "found", "kill"}]
  /\ uid \in [Pids -> Users \cup {NoUser}]
  /\ on \in [Pids -> Files \cup Pids \cup {InitProc} \cup SubjectIds]
  /\ \A p \in Pids :
       /\ pc[p] = "free" <=> uid[p] = NoUser
       /\ pc[p] \in {"read", "write"} => on[p] \in Files
       /\ pc[p] \in {"found", "kill"} => on[p] \in SubjectIds
       /\ pc[p] \in {"forking", "forkwait", "forked"} => on[p] \in Pids \cup {InitProc}
  /\ know \in [Pids -> Info] /\ buf \in [Pids -> Info]
  /\ content \in [Files -> Info]
  /\ exists \subseteq Files /\ woken \subseteq Pids /\ stranded \subseteq Pids
  /\ locks \subseteq Semaphore

ReadersOf(f) == infer_file_labels(FileStat[f]).readers
WritersOf(f) == infer_file_labels(FileStat[f]).writers

(***************************************************************************)
(* No leak, however indirect: a process has information from a file only   *)
(* if its user is a reader of that file, and a file has information from   *)
(* another only if every reader of the first is a reader of the second.    *)
(* It needs every check on the way, of several processes, to have been     *)
(* made against the right labels.                                          *)
(***************************************************************************)
NoLeak ==
  /\ \A p \in Pids : \A f \in know[p].src : uid[p] \in ReadersOf(f)
  /\ \A g \in Files : \A f \in content[g].src : ReadersOf(g) \subseteq ReadersOf(f)

Confidentiality == server = "up" => NoLeak

(***************************************************************************)
(* No influence, however indirect: whoever influenced the content of a     *)
(* file is one of its writers.                                             *)
(***************************************************************************)
Integrity == server = "up" => \A g \in Files : content[g].inf \subseteq WritersOf(g)

(***************************************************************************)
(* Whom the database cannot know: a secure shell, which nobody registers,  *)
(* and a child that has not run its fork_check.                            *)
(***************************************************************************)
Outsider(s) == \/ \E sh \in Shells : s = <<ShellUser[sh], sh>>
               \/ \E c \in Pids : pc[c] = "forked" /\ s = Sid(c)

(***************************************************************************)
(* The check that stops the server is one that an outsider makes, or one   *)
(* of a signal to a process that is an outsider at that moment.  A process *)
(* that went through fork_check may call whatever it likes, and be         *)
(* signalled, end and have its pid used again between the lookup of its    *)
(* uid and the check.  (A child that dies before its fork_check is another *)
(* matter: "dies_in_fork".)                                                *)
(***************************************************************************)
StopsOnlyForUnregistered ==
  [][server' # server =>
       \E p \in Pids :
         \/ /\ ReadCheck(p) \/ \E f \in Files : Write(p, f)
            /\ Outsider(Sid(p))
         \/ KillCheck(p) /\ (Outsider(Sid(p)) \/ Outsider(on[p]))]_vars

(***************************************************************************)
(* A parent whose fork made a child comes back from fork (or ends there),  *)
(* unless the server stops, which leaves every check without an answer, or *)
(* another parent takes the name FORK_LOCK away in the meantime: neither   *)
(* overlapping forks nor failed ones can hold it up in any other way.      *)
(***************************************************************************)
ForkReturns ==
  \A p \in Pids :
    Forking(p) /\ on[p] # InitProc
      ~> (~Forking(p) \/ server = "stopped" \/ p \in stranded)

(***************************************************************************)
(* Parents and children in a fork run, a child takes the rule engine's     *)
(* lock in its turn, and sem_wait returns where the value is positive.     *)
(* Nothing is assumed of what programs choose to do.                       *)
(***************************************************************************)
FairSpec ==
  /\ Spec
  /\ \A p \in Pids : /\ WF_vars(ForkCheck(p)) /\ WF_vars(Post(p))
                     /\ WF_vars(OpenLock(p)) /\ WF_vars(ForkReturn(p))

-----------------------------------------------------------------------------
(* The inductive invariant *)

(***************************************************************************)
(* Covered(info, l): a party labelled l may have the information.          *)
(***************************************************************************)
Covered(info, l) == /\ \A f \in info.src : l.readers \subseteq ReadersOf(f)
                    /\ info.inf \subseteq l.writers

ContentCovered == \A f \in Files : Covered(content[f], InferredObject(f))

(***************************************************************************)
(* What a process has in memory is covered by its row, or, when it has     *)
(* none, is its user's own; a child before its check goes by the row of    *)
(* its parent, which still waits for it.                                   *)
(***************************************************************************)
MemoryCovered(p, q) == IF Registered(q) THEN Covered(know[p], subjects[Sid(q)])
                                        ELSE know[p] = OwnInfo(uid[p])

ProcessInv(p) ==
  /\ pc[p] = "free" => know[p] = Nothing
  /\ pc[p] \notin {"free", "forked"} =>
       /\ MemoryCovered(p, p)
       /\ \A u \in Users : <<u, p>> \in DOMAIN subjects => u = uid[p]
  /\ pc[p] = "forked" =>
       /\ NoRowOf(p)
       /\ on[p] \in Pids /\ Forking(on[p]) /\ on[on[p]] = p
       /\ uid[on[p]] = uid[p]
       /\ MemoryCovered(p, on[p])
  /\ pc[p] \in {"read", "write"} => Covered(buf[p], InferredObject(on[p]))
  /\ pc[p] = "kill" => on[p] \in DOMAIN subjects /\ Covered(buf[p], subjects[on[p]])

(***************************************************************************)
(* FORK_LOCK where forks do not overlap: while a parent is in fork, and    *)
(* only then, the name is there and its value may be positive, and that    *)
(* only after the child's check.                                           *)
(***************************************************************************)
LockInv ==
  /\ \A p, q \in Pids : Forking(p) /\ Forking(q) => p = q
  /\ \A c, d \in Pids : Child(c) /\ Child(d) => c = d
  /\ \A c \in Pids : Child(c) => \E p \in Pids : Forking(p)
  /\ \A p \in Pids : Forking(p) => Named # {}
  /\ \A s \in locks :
       /\ \A p \in s.waiters : Forking(p)
       /\ s.value > 0 => /\ \E p \in Pids : Forking(p)
                         /\ \A c \in Pids : ~Child(c)

(***************************************************************************)
(* The inductive strengthening of Confidentiality and Integrity, for a     *)
(* host without faults but failing forks: all information is covered by    *)
(* the label of where it is, in files, in memory and in the buffers of     *)
(* pending calls.                                                          *)
(***************************************************************************)
FlowInv == server = "up" => ContentCovered /\ LockInv /\ \A p \in Pids : ProcessInv(p)
=============================================================================
