--------------------------- MODULE SecureChannels ---------------------------
(***************************************************************************)
(* Processes that talk over pipes, fifos and sockets: the wrappers of      *)
(* preload.c around pipe, open (of a fifo), connect, accept, read or recv, *)
(* write or send, close and fork, the kernel calls beneath them, and the   *)
(* checks of ChannelTables.  As in SecureProcesses the kernel call and the *)
(* check are two steps, in the order of the code.                          *)
(*                                                                         *)
(* An end of a channel is "r" or "w" of a pipe, "c" (who connected) or "s" *)
(* (who accepted) of a socket.  know[p] says which files the memory of p   *)
(* has information from, data[x][e] the bytes that wait in the kernel to   *)
(* be read at end e of channel x.                                          *)
(*                                                                         *)
(* Environment.  All processes were forked by a shell, so they are         *)
(* registered; they are single-threaded, open a fifo once, to read or to   *)
(* write, do not duplicate descriptors, and are not killed inside fork.    *)
(* A pid is not used again, and one process forks at a time: the           *)
(* handshake over FORK_LOCK is part of ForkCheck, and reading a regular    *)
(* file is one step; SecureProcesses splits both.  Whoever accepts a       *)
(* connection listens already.  The model ends with the server.  Races     *)
(* names the overlaps that a run lets happen:                              *)
(*   "open"         a channel is closed by one process while another has   *)
(*                  opened it and has not got to its check                 *)
(*   "close"        a channel is opened by one process while another       *)
(*                  closes it, its check done and the descriptor not yet   *)
(*   "late_accept"  the client closes a connection nobody accepted yet     *)
(***************************************************************************)
EXTENDS ChannelTables

CONSTANTS Workers,             \* the processes that run at first
          WorkerUser,
          Kinds,               \* what the channels may be
          Forkers, Mortals,    \* which of the pids fork, and which exit
          Races

ChannelKinds == {"pipe", "fifo", "socket"}

ASSUME ChannelAssumption == /\ Workers \subseteq Pids
                            /\ WorkerUser \in [Workers -> Users]
                            /\ Kinds \subseteq ChannelKinds
                            /\ Forkers \subseteq Pids /\ Mortals \subseteq Pids
                            /\ Races \subseteq {"open", "close", "late_accept"}

VARIABLES kind,                \* of each channel; "unmade" before pipe()
          pc, uid, on,         \* as in SecureProcesses; on is <<channel, ends>>
          know, buf,           \* or the other side of a fork
          fds,                 \* the ends each process has open
          data,
          backlog,             \* connections that nobody accepted yet
          slips                \* auxiliary: which of the unchecked wrappers,
                              \* "read" and "write", moved information

vars == <<revars, ctvars, kind, pc, uid, on, know, buf, fds, data, backlog, slips>>

Ends == {"r", "w", "c", "s"}
Other(e) == CASE e = "r" -> "w" [] e = "w" -> "r" [] e = "c" -> "s" [] e = "s" -> "c"

Nowhere == <<InitProc, {}>>

Sid(p) == <<uid[p], p>>
Held(x, e) == \E p \in Pids : <<x, e>> \in fds[p]

\* A process has opened x in the kernel only, or closed it in the database only.
Opening(x) == \E p \in Pids : pc[p] = "opened" /\ on[p][1] = x
Closing(x) == \E p \in Pids : pc[p] = "closing" /\ on[p][1] = x

\* What is left in the kernel: a channel that nobody has open is gone.
Remaining(left) ==
  [x \in Channels |->
     IF (\E p \in Pids, e \in Ends : <<x, e>> \in left[p]) \/ x \in backlog
       THEN data[x] ELSE [e \in Ends |-> {}]]

At(p, call) == server = "up" /\ pc[p] = call

Return(p) == /\ pc' = [pc EXCEPT ![p] = "idle"]
             /\ on' = [on EXCEPT ![p] = Nowhere]
             /\ buf' = [buf EXCEPT ![p] = {}]

Init ==
  /\ server = "up"
  /\ uid = [p \in Pids |-> IF p \in Workers THEN WorkerUser[p] ELSE NoUser]
  /\ subjects = [s \in {<<WorkerUser[p], p>> : p \in Workers} |-> DefaultSubject(s[1])]
  /\ objects = [f \in Files |-> InferredObject(f)]
  /\ all_pipe_objects = <<>> /\ pipe_ref_map = <<>> /\ all_socket_connections = <<>>
  /\ kind \in [Channels -> {IF k = "pipe" THEN "unmade" ELSE k : k \in Kinds}]
  /\ pc = [p \in Pids |-> IF p \in Workers THEN "idle" ELSE "free"]
  /\ on = [p \in Pids |-> Nowhere]
  /\ know = [p \in Pids |-> {}] /\ buf = [p \in Pids |-> {}]
  /\ fds = [p \in Pids |-> {}]
  /\ data = [x \in Channels |-> [e \in Ends |-> {}]]
  /\ backlog = {} /\ slips = {}

-----------------------------------------------------------------------------
(* pipe, open of a fifo, connect, accept: the kernel, then the check *)

Opened(p, x, ends) ==
  /\ fds' = [fds EXCEPT ![p] = @ \cup ({x} \X ends)]
  /\ pc' = [pc EXCEPT ![p] = "opened"]
  /\ on' = [on EXCEPT ![p] = <<x, ends>>]
  /\ UNCHANGED <<revars, ctvars, uid, know, buf, data, slips>>

Pipe(p, x) ==
  /\ At(p, "idle") /\ kind[x] = "unmade"
  /\ kind' = [kind EXCEPT ![x] = "pipe"]
  /\ Opened(p, x, {"r", "w"})
  /\ UNCHANGED backlog

\* A writer waits for a reader.  A reader need not wait for a writer: O_NONBLOCK.
OpenFifo(p, x, e) ==
  /\ At(p, "idle") /\ kind[x] = "fifo" /\ \A end \in Ends : <<x, end>> \notin fds[p]
  /\ e = "w" => Held(x, "r")
  /\ "close" \in Races \/ ~Closing(x)
  /\ Opened(p, x, {e})
  /\ UNCHANGED <<kind, backlog>>

\* Also a connect that fails goes on to its check.
Connect(p, x) ==
  /\ At(p, "idle") /\ kind[x] = "socket"
  /\ ~Held(x, "c") /\ ~Held(x, "s") /\ x \notin backlog
  /\ \/ Opened(p, x, {"c"}) /\ backlog' = backlog \cup {x}
     \/ Opened(p, x, {}) /\ UNCHANGED backlog
  /\ UNCHANGED kind

Accept(p, x) ==
  /\ At(p, "idle") /\ x \in backlog
  /\ "close" \in Races \/ ~Closing(x)
  /\ Opened(p, x, {"s"})
  /\ backlog' = backlog \ {x}
  /\ UNCHANGED kind

OpenCheck(p) ==
  LET x == on[p][1]
  IN  /\ At(p, "opened")
      /\ \/ kind[x] = "pipe" /\ create_pipe_check(Sid(p), x, "allowed")
         \/ kind[x] = "fifo" /\ open_fifo_check(Sid(p), x)
         \/ kind[x] = "socket" /\ connection_check(Sid(p), x, "allowed")
      /\ Return(p)
      /\ UNCHANGED <<kind, uid, know, fds, data, backlog, slips>>

-----------------------------------------------------------------------------
(* read of a pipe or fifo, recv: the kernel, then the check *)

\* A read takes any number of the bytes: what they tell may be there to read again.
Read(p, x, e) ==
  /\ At(p, "idle") /\ <<x, e>> \in fds[p] /\ e # "w"
  /\ buf' = [buf EXCEPT ![p] = data[x][e]]
  /\ pc' = [pc EXCEPT ![p] = "read"]
  /\ on' = [on EXCEPT ![p] = <<x, {e}>>]
  /\ UNCHANGED <<revars, ctvars, kind, uid, know, fds, data, backlog, slips>>

read_check(p, x, ret) == IF kind[x] = "socket" THEN recv_check(Sid(p), x, ret)
                                               ELSE pipe_read_check(Sid(p), x, ret)

ReadCheck(p) ==
  /\ At(p, "read")
  /\ \/ /\ read_check(p, on[p][1], "allowed")
        /\ know' = [know EXCEPT ![p] = @ \cup buf[p]]
     \/ /\ \E ret \in {"denied", "error", "stopped"} : read_check(p, on[p][1], ret)
        /\ UNCHANGED know
  /\ Return(p)
  /\ UNCHANGED <<kind, uid, fds, data, backlog, slips>>

-----------------------------------------------------------------------------
(* write of a pipe or fifo, send: the check, then the kernel *)

write_check(p, x, ret) == IF kind[x] = "socket" THEN send_check(Sid(p), x, ret)
                                                ELSE pipe_write_check(Sid(p), x, ret)

Write(p, x, e) ==
  /\ At(p, "idle") /\ <<x, e>> \in fds[p] /\ e # "r"
  /\ \/ /\ write_check(p, x, "allowed")
        /\ pc' = [pc EXCEPT ![p] = "write"]
        /\ on' = [on EXCEPT ![p] = <<x, {e}>>]
        /\ buf' = [buf EXCEPT ![p] = know[p]]
     \/ /\ write_check(p, x, "error") \/ write_check(p, x, "stopped")
        /\ UNCHANGED <<pc, on, buf>>
  /\ UNCHANGED <<kind, uid, know, fds, data, backlog, slips>>

\* Without anybody to read it the kernel refuses (EPIPE).
WriteData(p) ==
  /\ At(p, "write")
  /\ LET x == on[p][1]
         e == Other(CHOOSE end \in on[p][2] : TRUE)
     IN  data' = IF Held(x, e) \/ x \in backlog
                   THEN [data EXCEPT ![x][e] = @ \cup buf[p]] ELSE data
  /\ Return(p)
  /\ UNCHANGED <<revars, ctvars, kind, uid, know, fds, backlog, slips>>

-----------------------------------------------------------------------------
(* read and write of a socket: it is no file and no fifo, so nothing is checked *)

ReadSocket(p, x, e) ==
  /\ At(p, "idle") /\ <<x, e>> \in fds[p] /\ kind[x] = "socket"
  /\ know' = [know EXCEPT ![p] = @ \cup data[x][e]]
  /\ slips' = IF know' = know THEN slips ELSE slips \cup {"read"}
  /\ UNCHANGED <<revars, ctvars, kind, pc, uid, on, buf, fds, data, backlog>>

WriteSocket(p, x, e) ==
  /\ At(p, "idle") /\ <<x, e>> \in fds[p] /\ kind[x] = "socket"
  /\ data' = IF Held(x, Other(e)) \/ x \in backlog
                THEN [data EXCEPT ![x][Other(e)] = @ \cup know[p]] ELSE data
  /\ slips' = IF data' = data THEN slips ELSE slips \cup {"write"}
  /\ UNCHANGED <<revars, ctvars, kind, pc, uid, on, know, buf, fds, backlog>>

-----------------------------------------------------------------------------
(* close: the check, then the kernel *)

Close(p, x, e) ==
  /\ At(p, "idle") /\ <<x, e>> \in fds[p]
  /\ "open" \in Races \/ ~Opening(x)
  /\ "late_accept" \in Races \/ x \notin backlog
  /\ IF kind[x] = "socket" THEN socket_close_check(Sid(p), x)
                           ELSE pipe_close_check(Sid(p), x)
  /\ pc' = [pc EXCEPT ![p] = "closing"]
  /\ on' = [on EXCEPT ![p] = <<x, {e}>>]
  /\ UNCHANGED <<kind, uid, know, buf, fds, data, backlog, slips>>

CloseFd(p) ==
  /\ At(p, "closing")
  /\ fds' = [fds EXCEPT ![p] = @ \ ({on[p][1]} \X on[p][2])]
  /\ data' = Remaining(fds')
  /\ Return(p)
  /\ UNCHANGED <<revars, ctvars, kind, uid, know, backlog, slips>>

-----------------------------------------------------------------------------
(* fork, the end of a process, and files *)

Fork(p, c) ==
  /\ p \in Forkers /\ At(p, "idle") /\ pc[c] = "free"
  /\ \A u \in Users : <<u, c>> \notin DOMAIN subjects
  /\ \A q \in Pids : pc[q] # "forked"
  /\ pc' = [pc EXCEPT ![p] = "forkwait", ![c] = "forked"]
  /\ on' = [on EXCEPT ![c] = <<p, {}>>]
  /\ uid' = [uid EXCEPT ![c] = uid[p]]
  /\ know' = [know EXCEPT ![c] = know[p]]
  /\ fds' = [fds EXCEPT ![c] = fds[p]]
  /\ UNCHANGED <<revars, ctvars, kind, buf, data, backlog, slips>>

ForkCheck(c) ==
  LET p == on[c][1]
  IN  /\ At(c, "forked")
      /\ fork_check_and_copy(uid[c], c, p)
      /\ pc' = [pc EXCEPT ![c] = "idle", ![p] = "idle"]
      /\ on' = [on EXCEPT ![c] = Nowhere]
      /\ UNCHANGED <<kind, uid, know, buf, fds, data, backlog, slips>>

\* The kernel closes the descriptors; nobody tells the database.
Exit(p) ==
  /\ server = "up" /\ p \in Mortals /\ pc[p] \notin {"free", "forked", "forkwait"}
  /\ pc' = [pc EXCEPT ![p] = "free"]
  /\ on' = [on EXCEPT ![p] = Nowhere]
  /\ uid' = [uid EXCEPT ![p] = NoUser]
  /\ know' = [know EXCEPT ![p] = {}]
  /\ buf' = [buf EXCEPT ![p] = {}]
  /\ fds' = [fds EXCEPT ![p] = {}]
  /\ data' = Remaining(fds')
  /\ UNCHANGED <<revars, ctvars, kind, backlog, slips>>

ReadFile(p, f) ==
  /\ At(p, "idle")
  /\ file_read_check(Sid(p), f, "allowed")
  /\ know' = [know EXCEPT ![p] = @ \cup {f}]
  /\ UNCHANGED <<ctvars, kind, pc, uid, on, buf, fds, data, backlog, slips>>

Next ==
  \/ \E p \in Pids, x \in Channels : Pipe(p, x) \/ Connect(p, x) \/ Accept(p, x)
  \/ \E p \in Pids, x \in Channels, e \in {"r", "w"} : OpenFifo(p, x, e)
  \/ \E p \in Pids, x \in Channels, e \in Ends :
       Read(p, x, e) \/ Write(p, x, e) \/ Close(p, x, e)
  \/ \E p \in Pids, x \in Channels, e \in {"c", "s"} :
       ReadSocket(p, x, e) \/ WriteSocket(p, x, e)
  \/ \E p \in Pids : OpenCheck(p) \/ ReadCheck(p) \/ WriteData(p) \/ CloseFd(p)
  \/ \E p, c \in Pids : Fork(p, c)
  \/ \E c \in Pids : ForkCheck(c) \/ Exit(c)
  \/ \E p \in Pids, f \in Files : ReadFile(p, f)

Spec == Init /\ [][Next]_vars

-----------------------------------------------------------------------------
(* Properties *)

(***************************************************************************)
(* The types of the tables and of the processes.                           *)
(***************************************************************************)
TypeOK ==
  /\ RETypeOK /\ CTTypeOK
  /\ kind \in [Channels -> ChannelKinds \cup {"unmade"}]
  /\ pc \in [Pids -> {"free", "idle", "opened", "read", "write", "closing",
                      "forkwait", "forked"}]
  /\ uid \in [Pids -> Users \cup {NoUser}]
  /\ know \in [Pids -> SUBSET Files] /\ buf \in [Pids -> SUBSET Files]
  /\ fds \in [Pids -> SUBSET (Channels \X Ends)]
  /\ data \in [Channels -> [Ends -> SUBSET Files]]
  /\ backlog \subseteq Channels /\ slips \subseteq {"read", "write"}

\* p is in no call that changes the descriptors of x.
Settled(p) == pc[p] \notin {"free", "forked", "forkwait", "opened", "closing"}

(***************************************************************************)
(* No process knows of a file, through any number of processes, pipes and  *)
(* sockets, without its label saying so: the readers of the label are      *)
(* readers of the file.  So no later write or send gives it away, and no   *)
(* user learns what he may not read.  That is up to the first read or      *)
(* write of a socket that moves anything: those have no check to make.     *)
(***************************************************************************)
ReadersOf(f) == infer_file_labels(FileStat[f]).readers

KnowledgeCovered ==
  server = "up" /\ slips = {} =>
    \A p \in Pids : \A f \in know[p] :
      /\ uid[p] \in ReadersOf(f)
      /\ Sid(p) \in DOMAIN subjects => subjects[Sid(p)].readers \subseteq ReadersOf(f)

(***************************************************************************)
(* A pipe that a process has open is in the table: otherwise the server    *)
(* would read, or write, in front of its array.  (For a connection there   *)
(* is a test; a process whose parent was its only peer may lose the row.)  *)
(***************************************************************************)
OpenPipesAreKnown ==
  server = "up" =>
    \A p \in Pids : Settled(p) =>
      \A d \in fds[p] : kind[d[1]] = "socket" \/ IndexOf(all_pipe_objects, d[1]) # 0

\* Pipes and fifos have their rows in the one table, sockets in the other.
IsPipe(x) == kind[x] # "socket"

OnePipe == \A x, y \in Channels : IsPipe(x) /\ IsPipe(y) => x = y

(***************************************************************************)
(* Close and fork trust the mapping of a process to tell the descriptors   *)
(* that it has open.  With one pipe, opened, closed and inherited in any   *)
(* order, the two agree, and the mappings of all add up to the count in    *)
(* the row.  With more, removing a row moves others to positions that the  *)
(* mappings do not follow, and this is not so.                             *)
(***************************************************************************)
MappingsMatch ==
  server = "up" /\ OnePipe =>
    /\ CountsAgree
    /\ \A p \in Pids : Settled(p) =>
         \A i \in DOMAIN all_pipe_objects :
           RefCount(pipe_ref_map, {Sid(p)}, i)
             = Cardinality({d \in fds[p] : d[1] = all_pipe_objects[i].channel})
=============================================================================
