# SecureOS: a TLA+ model of the readers-writers flow monitor

SecureOS (`src/client`) adds *readers-writers* labels to a Linux host. A program
that runs in a secure shell has a library preloaded which wraps the calls that
move information (fork, open, read, write, kill, pipes, sockets, System V
queues and semaphores). Each wrapper asks a *rule engine* whether the call may
go ahead; the rule engine keeps the labels in a *database server* that it
reaches over two message queues. The point of the exercise is in
`src/client/examples/basic/readme`: "Indirect leaks/modifications of
information are blocked by RWFM".

This directory models the monitor in TLA+, checks small instances with TLC, and
proves the main results for every number of users, files, processes, queues
and clients with TLAPS.

## 1. The system

| component | state | operations | where it is modelled |
|---|---|---|---|
| labels (`user_set_manipulation_functions.h`, `database_model.h`) | 64-bit words, one bit per user | intersection, union, subset, membership | `Labels` (sets), `UserSets` (words) |
| label inference (`infer_object_labels.h`) | none | label of a file from owner, group and mode; of queues and semaphores from `ipc_perm` | `LabelInference`, `UserSets` |
| rule engine (`rule_engine.h`) | a named semaphore | one check per wrapped call, between `lock()` and `unlock()` | `RuleEngine` (files, fork, signals), `ChannelTables` (pipes, fifos, sockets), `IpcTables` (queues, semaphores) |
| database queries (`database_queries.h`) | none | one request and one answer per query, typed with the caller's pid | `DatabaseRpc` |
| database server (`database_server.c`, `database_helper_functions.h`) | growing arrays of ids, subjects, objects, users, groups, connections, pipes, queues, semaphores | read a request, work on an array, write the answer; remove the queues and exit on an unusable request | `DatabaseRpc` (subjects and objects, message by message), `ChannelTables` (connections, pipes), `IpcTables` (queues, semaphores) |
| preload library (`preload.c`, `signal_utils.h`) | `FORK_LOCK`, one name for all forks | the wrappers, around the kernel's calls | `SecureProcesses` (fork, open, read, write, kill, sigqueue), `SecureChannels` (pipe, connect, accept, send, recv, close, and read and write of sockets, which check nothing), `SystemV`, `GroupSignals` |
| pipes and fifos | pipe table with reference counts; a map from subjects to *positions* in it | pipe, open, read, write, close, fork | `ChannelTables`, `SecureChannels` |
| sockets | connection table with two peers | connect, accept, send, recv, close | `ChannelTables`, `SecureChannels` |
| System V queues and semaphores | two object tables | msgget, msgsnd, msgrcv, msgctl, semget, semop, semctl | `IpcTables`, `SystemV` |
| signals to groups | none; reads `/proc` | kill(0), kill(-1), kill(-n), killpg | `RuleEngine`, `GroupSignals` |
| kernel module (`Kernel Module/`) | the same tables inside the kernel, without a lock | hooks of clone, open, read, write: the same checks, warnings only | `KernelModule` |
| set-up programs, libc bindings, examples | users and groups; none | fill tables before clients run | the word of a group in `UserSets` |

**How they interact.** A wrapper first asks `is_rwfm_enabled` (a query outside
the lock). Then it makes its kernel call and its check, in an order that differs
from call to call: read and open act first, write and kill ask first, fork acts
first and lets the *child* do the check while the parent waits on `FORK_LOCK`, kill
looks its target's user up before it asks for the lock.
A check takes the rule engine's semaphore, sends up to a dozen queries one after
another, each one a message to the server and a message back, computes with the
copies of rows it got, perhaps writes a label back, and posts the semaphore.

**What is hard.** Between a check and its kernel call anything may happen in
other processes. A check that is atomic on paper is a dozen messages, through
queues that all processes share, and answers are told apart only by a pid which
the threads of a process have in common. Rows are never removed, but pids come
round again. A process may die while its parent waits for it, while its child
registers under it, or while it holds the lock. A pipe has its references counted
twice, by pipe and by process, and the second count names pipes by a position that
moves; the kernel opens before the database knows and closes after it has
forgotten. One bad query stops the server for the host, and a process whose query
was cut short looks at its stack for the answer. The System V wrappers let the kernel
act and ask later, about objects that may be gone by then. A signal to a group is
checked for a list read from `/proc` and delivered to whoever is in the group later.
The kernel module shares its tables between all calls of the machine without a lock,
and hooks the calls before the tables are filled.

**What makes it correct.**

- inference: the label of a file names exactly the users the kernel serves;
- rule engine: labels never fall; an owner is never shut out of his own
  processes; objects keep the label of their permissions;
- processes: no information reaches a user who may not read its source, and no
  user influences a file he may not write, *however many* files, forks and
  signals lie between;
- fork: a parent that has a child returns;
- pipes, fifos and sockets: no information leaves a process without the label of
  the channel saying so; a channel that is open is in its table; the two counts
  agree with each other and with the descriptors;
- queues and semaphores: what waits in one is read under the label under which it
  was put there, which lasts as long as the object does;
- signals to groups: everyone reached was asked about, and carries the label of
  what he was told;
- kernel module: information that goes astray leaves a warning in the log;
- words: computing with 64 bits is computing with sets of users;
- server and queries: each check is one atomic step; each answer goes to whoever
  asked; a result is still right when the lock is given back; the lock is given
  back.

## 2. The modules

| module | what it is |
|---|---|
| `Labels` | the set operations on labels: `Raise` (reading information) and `FlowsTo` (the comparison of a write) |
| `LabelInference` | `infer_file_labels`, step by step as the code does it, and what the kernel grants |
| `RuleEngine` | the abstract specification: the tables `subjects` and `objects` as functions, every check one step. `RESpec` calls it with any arguments |
| `SecureProcesses` | processes with their wrappers, over `RuleEngine`; where information comes from is tracked in auxiliary variables |
| `DatabaseRpc` | the same checks as clients, queues and server arrays: the implementation of `RuleEngine` |
| `ChannelTables` | the tables of pipes, pipe mappings and connections, and every check on them, beside those of `RuleEngine` |
| `SecureChannels` | processes that talk over pipes, fifos and sockets, over `ChannelTables` |
| `IpcTables` | the tables of message queues and semaphores and every check on them, beside those of `RuleEngine` |
| `SystemV` | processes that use queues and semaphores, over `IpcTables` |
| `GroupSignals` | processes in groups that signal each other, over `RuleEngine` |
| `KernelModule` | the kernel module, its tables and the processes whose calls it hooks, over `LabelInference` |
| `UserSets` | the operations of `user_set_manipulation_functions.h` on words, and what makes them operations on sets |
| `MCLabelInference`, `MCSecureProcesses`, `MCDatabaseRpc`, `MCSecureChannels`, `MCSystemV`, `MCGroupSignals`, `MCKernelModule` | instances for TLC |
| `LabelProofs`, `RuleEngineProofs`, `SecureProcessesProofs`, `DatabaseRpcProofs`, `SecureChannelsProofs`, `SystemVProofs`, `GroupSignalsProofs`, `KernelModuleProofs` | the theorems |

Definitions named `X_Something` before a definition `X` are mutants: what `X`
would be with a plausible bug. No specification uses them; each property is
checked to fail when its mutant takes the place of `X`.

### RuleEngine

`subjects` is `all_subject_ids` with `all_subjects`, from (uid, pid) to a row;
`objects` the same for files. A check takes its result as last parameter:
`"allowed"` (1), `"denied"` (0), `"error"` (-1), or `"stopped"`: `get_subject` or
`get_object` was asked for a row that is not there, `do_operation` returns -2 and
`start_server` removes the response queue and exits. `add_subject` and
`add_object` keep a row that exists (`AddRow`). `kill_many_check` takes the list of
peers as a set of (uid, pid): the order of the list decides only whether a peer
without a row comes before one whose owner is refused, so both results are possible.

### SecureProcesses

| action | code |
|---|---|
| `Fork`, `ForkFails` | `sem_open` with `O_CREAT`, `underlying_fork`; -1 goes on like a parent |
| `ForkCheck`, `Post` | the child: `fork_check(getppid())`; then `sem_open` and `sem_post` |
| `OpenLock`, `ForkReturn` | the parent: `sem_open`; `sem_wait`, when the value is positive, and `sem_unlink` |
| `Open` | `underlying_open`, which may create the file, and `file_open_check` |
| `Read`, `ReadCheck` | `underlying_read`; then `file_read_check`, the buffer cleared when refused |
| `Write`, `WriteData` | `file_write_check`; then `underlying_write` |
| `Kill`, `KillCheck`, `Deliver` | `get_uid_from_pid`, without the lock; `kill_check` of the subject that was found; `underlying_kill`, which finds whoever has the pid by then |
| `Exit` | a process ends; no wrapper sees it, so its row stays |
| `Unchecked` | a call whose `is_rwfm_enabled` was cut short when the server stopped |

`know[p]`, `content[f]` and `buf[p]` are auxiliary: which files information was
read from and which users influenced it. No modelled operation looks at them.
`Faults` names the departures from a well-behaved host that a run lets happen.

`FORK_LOCK` is one *name*. `locks` has the semaphores that have or had it: the first
parent creates one, `sem_unlink` takes the name from whichever has it, and who opened a
semaphore before keeps it. So with overlapping forks a parent may be woken by the child
of another one, and where nobody has the name `sem_open` fails and `sem_post` or
`sem_wait` gets a NULL pointer, which ends the process (`Named = {}` in `Post` and
`OpenLock`). `stranded`, also auxiliary, has the parents during whose fork another
parent took the name away.

### DatabaseRpc

A client is a thread. What it sends next is a function of the check it makes
(`job`) and the answers so far (`got`), as in the C functions, whose local
variables are nothing else: `ForkRequest`, `OpenRequest`, `ReadRequest`,
`FileRequest` (what reads and writes share), `KillRequest`. `Serve` is one round
of `start_server`, with one action per operation that changes a table; `LookUp`
is for those that do not. Indices are positions in sequences.

`SubjectTable` and `ObjectTable` map the arrays to the tables of `RuleEngine`: a
subject is there once both its id and its row are. `ChecksAreAtomic` says that
under this mapping every step of the server is the check of the client whose
request it works on, or changes nothing. It is stronger than `RE!RESpec`, which
would let the step be anybody's check.

### ChannelTables and SecureChannels

The three tables are sequences, because positions matter: `pipe_ref_map` names a
pipe by its position in `all_pipe_objects`, and `remove_pipe` moves the later
ones down (`WithoutOne`). Where the server indexes an array with a position that
is in no row, `Fetched` returns any label, and `Overwrites` either damages
nothing of interest or ends the server. `fork_check_and_copy` extends the
`fork_check` of `RuleEngine` by `copy_subject_info`: each mapping of the parent is
copied (`CopiedMaps`), and each row has as many references more as the parent's
mappings to its position say (`RefCount`, `CountedCopies`), which ends the server or
damages something where there is no row (`Dangling`).

| action | code |
|---|---|
| `Pipe`, `OpenFifo`, `Connect`, `Accept` | the underlying calls, which come first |
| `OpenCheck` | `create_pipe_check`, `open_fifo_check`, `connect_check` or `accept_check` |
| `Read`, `ReadCheck` | `underlying_read` or `underlying_recv`; then `pipe_read_check` or `recv_check`, the buffer cleared when refused |
| `Write`, `WriteData` | `pipe_write_check` or `send_check`; then the underlying call |
| `ReadSocket`, `WriteSocket` | `read` and `write` of a socket: neither `S_ISREG` nor `S_ISFIFO`, so there is no check |
| `Close`, `CloseFd` | `pipe_close_check` or `socket_close_check`; then `underlying_close` |
| `Fork`, `ForkCheck`, `Exit` | as in `SecureProcesses`; descriptors are inherited, and at the end the kernel closes them without the database |
| `ReadFile` | a whole `read` of a regular file |

`know`, `buf` and `data` are auxiliary, as before: what a process, a pending call
and the kernel's buffers have information from. `slips` has `"read"` or `"write"` as soon as
the unchecked wrapper of that name moved information through a socket; a labelled flow
is claimed up to then. A read does not say how many bytes
it takes, so what the bytes tell stays until the channel is gone.

### IpcTables and SystemV

The tables of queues and semaphores are functions from the ids of the kernel to
labels; positions do not matter here, the server searches by id. Where it finds
none it reads `all_msgq_objects[-1]`, any label, or, of an empty array, which
`realloc` made NULL, nothing: the server ends (`FetchedLabel`, `Missing`).

| action | code |
|---|---|
| `Get`, `GetCheck` | `underlying_msgget`, `underlying_semget`; then `create_msgq_check`, `create_sem_check` |
| `BadPointer` | `IPC_STAT` of `create_sem_check`, whose buffer is an uninitialised pointer, ends the process inside the lock |
| `Msgsnd`, `SendMsg` | `msgsnd_check`; then `underlying_msgsnd` |
| `Msgrcv`, `MsgrcvCheck` | `underlying_msgrcv`; then `msgrcv_check`, the buffer cleared when refused |
| `Msgctl`, `MsgctlCheck`, `Remove` | `underlying_msgctl`; `msgrcv_check`; for `IPC_RMID` `remove_msgq_check` |
| `Semop`, `SemWriteCheck`, `SemopKernel` | the loop over the operations with `sem_read_check`; `sem_write_check`; `underlying_semop` |
| `Semctl` | `underlying_semctl`, then `remove_sem_check` (`Remove`) |
| `ReadFile`, `Exit` | a whole `read` of a regular file; the end of a process |

The code lets some calls go further than their checks, and no label covers what they
tell. `slips` records that one has happened, `KnowledgeCovered` is claimed up to the
first: *semop* (the other check agreed, or later operations do what the first does
not), *semctl* (never checked), *tail* (a refused message that fills its buffer is
cleared but for its last bytes), *empty* (a message without text has a type), *gone*
(the queue was removed by the time of the check; also where the row of its id is there
again, because the `msgget` of a third process had its check in between and filled the
row from an `ipc_perm` that its `IPC_STAT` left unset). Those five are what a reader of
`preload.c` should know; the run and the theorem show that there is no sixth.

### GroupSignals

| action | code |
|---|---|
| `List` | `get_group_pids_from_pid` or `get_all_permitted_pids_from_pid`; with nobody on the list the call goes through unchecked |
| `Check` | `get_uid_from_pid` of everyone listed; `kill_check` of one, `kill_many_check` of several |
| `Deliver` | `underlying_kill`, `underlying_killpg`: the kernel signals whom it finds by then |
| `Fork`, `ForkCheck`, `ReadFile`, `Exit` | as above |
| `Setpgid` | a process makes or joins a group; no wrapper sees it |

`slips` again marks where the code gives up: *joined*, a process came into the group
after it was listed; *leader*, `kill(-g)` looks up the group of `g` and leaves `g`
out, as is right only where `g` is the caller.

### KernelModule

| action | code |
|---|---|
| `replace_syscalls`, `add_all_hosts`, `add_user_id`, `add_all_groups` | `syscall_interceptor_start`, with the moments at which a hooked call finds different tables |
| `restore_syscalls`, `release_memory` | `syscall_interceptor_end` |
| `Clone`, `CloneCheck`, `AddSubject` | `rwfm_clone`: the call, after which the child runs; then `clone_check` up to `add_subject_id`, and the rest of it |
| `Open`, `OpenCheck`, `AddObject`, `OpenFault` | `rwfm_open`: the call; then `file_open_check` up to `add_object_id`, and the rest; with users but no group in the tables it follows a NULL pointer |
| `AddHostless` | the end of a check that began without a host; its row is never found |
| `Read`, `ReadData`, `Write`, `WriteData` | `rwfm_read` and `rwfm_write`: the check, whose refusal is only a warning; then the call |
| `Exit` | a process ends; its row stays |

*Overlaps.* `krealloc` copies the ids and later the rows to longer arrays and frees the
old ones, on one CPU, while others scan, read and store. A check that adds a row is
therefore two steps, and between them (`Adding`) any other check may, beside what it
does otherwise, go wrong: a row that it stores, among them a label that a read has just
raised, may be lost or come back as it was, a row may hold what is in memory that has
been given away (`Damaged`, with the rows of `Garbage`), and its answer may be any. Then
`slips` has *race*, and neither `LeaksAreWarned` nor `RowsOnlyRise` claims any more. The
other slips: *early*, a child clones before its own check; *reuse*, a pid comes round;
*group*, a file is opened before its group is there; *unload*, a call is inside when the
tables go.

`clone_check` and the file checks are `RuleEngine`'s with one difference each that
matters: the parent registers the child, there are calls before there are users, and
a process without a row is an error and not the end of a server. So the module has
definitions of its own and shares `Labels` and `LabelInference`.

### UserSets

A word is a number, with the operations of `Bitwise`. `group_word` is how
`add_users_and_groups.c` builds a group, unknown members included, whose index is -1
and whose bit, on x86, the highest one. `UsersOf` reads a word as a set.

The models with sets take the members of a group to be registered. What is left out is
small: of a file with such a group the label has the highest bit, which no registered
subject has, so on words `is_subset_of` and `is_superset_of` can refuse a write that the
sets allow, and never the other way round. `WordsCheckedAsSets` says exactly that: words,
highest bit included, compare as the sets with one more user do, and what they allow the
sets of registered users allow.

## 3. What the runs check

| run | shows |
|---|---|
| `label_inference` | over all owners, groups and masks of three users the inferred label is what the kernel grants; inference, raising and comparing on words give what they give on sets, the bit of an unknown member included |
| `core` | two shells of two users and two further processes, a private file and a new one, forks that may fail: confidentiality, integrity, the inductive invariant of the proofs, labels only rise |
| `faults` | pids used again, forks that overlap or fail, a stopped server and the calls that then go through unchecked: labels still only rise, and the check that stops the server is made by, or about, a shell or a child before its `fork_check` |
| `fork_liveness` | overlapping and failing forks: a parent that has a child returns, unless the server stops or another parent takes the name `FORK_LOCK` away meanwhile |
| `rpc` | two clients, every check, one client mortal: atomic checks, matching answers, current results, ids with rows, and each client that lives gives the lock back |
| `channels` | two processes of two users and a child of the first, which may die, over a channel of each kind: labels cover what is known up to the first unchecked `read` or `write` of a socket, pipes that are open have rows, both counts agree with the descriptors, labels of channels only rise |
| `sysv` | two processes of two users with queues and a semaphore: labels cover what is known up to the first slip; the label of an object lasts as long as the object; only a process that uses something removed ends the server |
| `group_signals` | a group with processes of two users, their forks and all four calls: labels cover what signals tell up to the first slip, owners keep access, only an unregistered process on a list ends the server |
| `kernel_module` | loading, running and unloading over clones, opens, reads and writes: without a warning in the log, and up to the first slip, no information is where it may not be; labels only rise |
| `orphan`, `pipe_shift`, `kill_leader` | disagreements with what the repository says, see section 6 |

Two invariants need a word. `ResultIsCurrent` (`rpc`) compares the result a check
is about to return, computed from copies, with the tables at that moment.
`IdsHaveRows` says that the window in which a subject has an id but no row is
closed for whoever holds the lock next, a client that dies inside it included.

**Bounds.** They are named in the `MC` modules and the `.cfg` files.

- Two users: the smallest number for which a label can exclude somebody. Three
  for `label_inference`, so that owner, group and others are different people.
- Three or four pids in `SecureProcesses`: a shell of each user, and two pids for
  forks, so that chains of read, write, signal and fork across users happen.
  `WhileUp` ends a behaviour of `core` where the server stops, because
  confidentiality is not claimed beyond (`faults` goes on);
  `ShellsStay` lets the shells fork and open files only: nobody registers them, so
  any other call of theirs stops the server; `ShellFails` follows failed forks of shells
  only. The proofs need none of them.
- `fork_liveness`: a shell and three pids, so that two forks with a child, and a third or
  a failed one, share the name. There are no files; the server stops at any moment
  because a shell may signal (`ShellsSignal`: nobody else does). `OneFails`: one failed
  fork waits at a time. A fork that failed is a step of the run, but `ForkReturns` says
  nothing of its caller (section 6).
- Files: one that only its owner reads, or one he alone writes and everybody
  reads, and one that is created on the way. Information records are sets, so
  reading a file twice adds no state.
- Pids other than the shells are symmetric in the runs without liveness.
- `rpc`: two clients are enough for every pair of requests to interleave; queues
  have no bound, yet at most two requests and two answers are under way.

- `channels`: one channel whose kind is chosen at the start, a private file to
  have a secret from, a process of each user and a pid to fork. `MaxPeers` cuts
  off where a connection has had two peers too many (their number grows with each
  pair that uses the addresses of a row that stayed). `Forkers` and `Mortals` leave
  forking and dying to the process that can have the secret; the other one has
  nothing to pass on. `Races = {}` keeps three overlaps of open and close out: with
  `Races = {"open"}` `KnowledgeCovered` fails for fifos, with
  `Races = {"late_accept"}` for sockets (section 6). With two pipes
  the map goes wrong (`pipe_shift`), and that is all that this run cannot show with one
  channel: `MappingsMatch` says of itself that it is about a single pipe.
- `sysv`: a process of each user, one of them mortal and able to have a secret, the
  mode 0666 of the examples and 0600. `OneKind`: a behaviour has queues or a
  semaphore, which share nothing but the labels of processes. A second queue is there
  so that another row is added and removed while calls on the first go on
  (`QuietSecond`). `FirstSlip`: behaviours end at the first slip. `Reuse = FALSE`: ids
  are not given out again; a row that a refused `IPC_RMID` left behind would serve the
  next queue of that id.
- `group_signals`: the two jobs of different users in one group, one of them with uid
  0, and a pid to fork: enough for lists of none, one and several, for chains of two
  signals, and for a member that comes, goes or changes group between list, check and
  delivery. `OneCall`: two calls are in progress at once only when both are `kill(0)`.
- `kernel_module`: one user's shell and three pids for clones of clones, a 0600 and a
  0644 file of his, a second user whom the labels can exclude. `TwoCalls`: at most
  two calls are inside the module, so every pair of checks overlaps; `Garbage` has one
  row, that everybody may read; `NothingAmiss`: a behaviour ends with the first
  warning or slip, after which nothing is claimed; `QuietShell`: the shell clones only.
- `label_inference`: words of five bits for three users, so that no set is full and
  the bit of an unknown user is nobody's, as with 64 bits and up to 62 users. The
  loops of the code do not depend on the width.

**Deadlock.** `CHECK_DEADLOCK FALSE` where the system may really come to rest:
every process may have exited, and the models end where the server
stops or the holder of the lock is dead. The kernel module is loaded and unloaded once.

**Assumed of the environment.** One host. Fewer than 64 registered users, so a
set of users is a word without loss (at 64, `add_user` and `remove_user` do
nothing on a full set). The group of every file is registered: otherwise
`infer_object_labels.h` indexes an array with -1. So are its members (see `UserSets` for
those that are not). Processes do not change uid,
and in `SecureProcesses` have one thread and leave a buffer alone during a call.
The monitor stays on. A file keeps its permissions. Which descriptors are open is
left out: a process may name any file that its user may open, and may write
whenever the check agrees, the kernel's own permission deciding in `WriteData`. In `SecureChannels`
descriptors are explicit; there all processes are registered, single-threaded, open
a fifo once, to read or to write, and do not duplicate descriptors; pids are not used
again, inodes are below 2^31 (`GET_PIPE_INDEX` reads them into an int), sockets are
connected ones, and a `connect` that fails keeps the address its socket was bound
to, and one process forks at a time, whose handshake is one step, as in `GroupSignals`:
how forks overlap is what `SecureProcesses` is about. In `SystemV` processes are registered and use ids that `msgget` and `semget` gave
them. In `GroupSignals` a list of processes fits its buffers (512 characters for some 40
processes), what follows the digits in the `uid[10]` of `get_uid_from_pid` is not a digit, and
one step reads all of `/proc`. In `KernelModule` no clone fails (it would add a row
for a pid nobody has) and shifting by -1 gives the highest bit.

**Fairness.** `FairSpec` of `SecureProcesses` asks that a forked child runs its check and
its post, and a parent its `sem_open` (`ForkCheck`, `Post`, `OpenLock`): they are
scheduled processes inside the wrapper, and a child takes the rule engine's lock in its
turn. And that `sem_wait` returns where the value stays positive (`ForkReturn`).
Nothing is asked of what programs do. `FairSpec` of `DatabaseRpc` asks that the
server's endless loop goes round, and that a client that can go on *inside* a
check does. Nothing is asked of the semaphore (System V and POSIX semaphores do
not promise an order), so no property says that a client gets the lock.

## 4. What is proved

TLAPS checks, for every value of the constants that satisfies the assumptions
named in the modules:

| theorem | says |
|---|---|
| `InferenceMatchesKernel` | `InferenceIsKernelRule`: `infer_file_labels` agrees with the kernel for every stat record |
| `RuleEngineInvariant`, `RuleEngineLabelsOnlyRise` | `RESpec` keeps its types, owners' access and inferred objects; labels never fall |
| `TypeCorrect` | `TypeOK` of the processes, with all faults |
| `ImplementsRuleEngine` | `Spec => RESpec`: processes reach the tables only through checks |
| `OwnersKeepAccess`, `LabelsRise` | from the two above, with all faults |
| `FlowCovered` | `Faults \subseteq {"fork_fails"}` implies `[]FlowInv` |
| `ConfidentialityHolds`, `IntegrityHolds` | from `FlowInv`, under the same condition |
| `ServerStopsForUnregistered` | `StopsOnlyForUnregistered`, unless `"dies_in_fork" \in Faults` |

**The argument.** `Confidentiality` speaks of memories and contents and is not
inductive: whether a process may write depends on its *label*, not on what it
knows. `FlowInv` closes the gap: information is always *covered* by the label of
the place where it is. What is in a file is covered by the inferred label of the
file, also before anybody opened it; what a process knows by its row, or, while
it has none, is only its user's own; a child before its check goes by the row of
its parent, which is still there because it waits; and what is in the buffer of a
pending call is covered by the *destination*, which is what makes the gap between
check and call harmless: labels of subjects only rise (`LabelsOnlyRise`), those
of objects do not change (`ObjectsInferred`). `Raise` and `FlowsTo` are monotone
in the ways this needs (the lemmas of the proof modules). From coverage,
`OwnerKeepsAccess` turns "the readers of my label are readers of the source"
into "my user is a reader of the source".

`FlowInv` needs its condition: `orphan` shows that it fails with a parent that dies
in fork. It also fails with `Faults = {"pid_reuse"}`. And where forks overlap a parent may
be woken by the child of another fork and end before its own child's check, which is
`orphan` again. `LockInv` is the part of `FlowInv` that says why a parent that has a child
does not return early when forks do not overlap: the value of the one semaphore is
positive only after the child's check.

*Who stops the server.* A target that was found by the lookup has a row, or is a shell or
a child in fork; rows are never taken away, so at the check it has one, whoever has the
pid by then, unless it is still an outsider (`Outsider`). The one way out is a child that
was found in fork and died there, which is why `"dies_in_fork"` is excluded.

For the kernel module, from `KernelAssumption` and `NoUserAssumption`:

| theorem | says |
|---|---|
| `KernelTypes` | `TypeOK`, however the module is loaded and its calls overlap |
| `KernelRowsOnlyRise` | `RowsOnlyRise`, which excepts what follows a *race* |
| `KernelLeaksAreWarned` | `LeaksAreWarned`, up to the first warning or slip, *race* included |

`LeaksAreWarned` speaks of what is known and not of labels, so it is not inductive
either. `KernelInv` adds, for as long as there has been no warning and no slip (`Quiet`):
rows name the user of their process and the inferred readers of their file
(`RowsAreRight`); who knows something has a row whose readers may all know it, or is a
child that waits for its parent's `clone_check` (`KnowledgeIsCovered`); such a child has
no row, one parent, who waits for nobody, and knows nothing that the parent does not
(`ChildrenWait`); and a call between its check and its data is one that the check
allowed (`CallsAreChecked`). A child that waits cannot read or write unnoticed, as it has no
row and the answer is an error. Each action of the module keeps `Core` in a lemma of
its own (`CloneCore`, `ReadCore`, ...).

For the clients and the server, under `SingleThreaded` (no two clients are threads of one
process; every instance of the run satisfies it, and *Threads* in section 6 says what
happens without):

| theorem | says |
|---|---|
| `DatabaseRpcTypes` | `TypeOK` |
| `IdsGetRows` | `IdsHaveRows` |
| `ResultsAreCurrent` | `ResultIsCurrent` |
| `AnswersMatchRequests` | `AnswersMatch` |
| `ChecksAtomic` | `ChecksAreAtomic`: each step of the server is a check of the rule engine, that of the client it serves, or changes no table |
| `ImplementsRuleEngine` | `Spec => RE!RESpec`, the refinement |
| `RpcInvariance` | `RpcInv`, on which the others rest |

A result is computed from copies, so none of these is inductive. `RpcInv` says what a copy
is worth. `DBOK`: the arrays are tables, each id once and each row of one id. `QueueInv`:
there is at most one message per pid, from or for a client that waits or has died, which
is where `SingleThreaded` is needed. `LockInv`: at most one client is inside a check; when
there is none, no id is without its row (`Whole`), and the one inside `Knows`, from the
answers it has so far, what the tables say of everybody it asked about, be it that it has
just added the id that is without a row. The proof goes through the checks one query at a
time: what `Knows` says after an answer is what the next request needs. From there a step
of the server that writes a label writes what the rule engine's check would, and the other
steps change nothing that `SubjectTable` and `ObjectTable` show. That a search finds the
first match (`SelectInSeq` takes a least position) needs no induction of its own: the finite
sets `1..i` are well founded (`LeastIndex`).

For queues and semaphores, those marked * if the kernel gives no id out again (`~Reuse`:
Linux puts a sequence number into an id, which comes round only after many removals):

| theorem | says |
|---|---|
| `SystemVTypes` | `TypeOK`, with `IpcTables`' own types |
| `LabelsFixed` * | `IpcLabelsFixed` |
| `ServerStopsForRemoved` * | `StopsOnlyForRemoved` |
| `InformationCovered` * | `LeakInv` |
| `NoUncoveredKnowledge` * | `KnowledgeCovered` |

`IpcInv` says that an id in use has a row as long as the kernel has the object, that a
removal on its way is of something the kernel no longer has, and that bytes wait only in
what exists and has a row. `LeakInv` is, for as long as the server is up and nothing has
slipped, what `FlowInv` is for files: what is known is covered by the row of its process,
what waits by the row of the queue or semaphore, and what is in a pending call by the row
of its *object*, if that still exists. The attempt showed that the slip *gone* has to be
taken at the kernel and not in the table: a message, a removal and the late `msgget` of a
third process leave a row for a queue that is no more. No instance with two processes
reaches that.

For signals to groups, without further assumptions:

| theorem | says |
|---|---|
| `GroupSignalsTypes` | `TypeOK` |
| `OwnersKeepAccess` | `OwnerKeepsAccess` |
| `ServerStopsForStrangers` | `StopsOnlyForStrangers` |
| `SignalsCovered` | `LeakInv` |
| `NoUncoveredKnowledge` | `KnowledgeCovered` |

`GroupInv` says who has a row: everybody that can call, but for strangers that do nothing;
whoever an allowed call will reach; and of a fork that parent and child wait for each
other. `LeakInv` covers what a process knows by its row, or while it has none by its
parent's, and what a call that was allowed tells by the rows of *all* its list; that the
kernel reaches nobody else is what the slips *joined* and *leader* leave out.

For pipes, fifos and sockets, any number of each unless the last column says otherwise:

| theorem | says | if |
|---|---|---|
| `ChannelTypes` | `TypeOK` | |
| `ChannelInvariant` | `TypeInv`, `TableInv`: a channel has one row at most, in the table of its kind | |
| `ChannelLabelsRise` | `ChannelLabelsOnlyRise` | |
| `SinglePipeMatches` | `MappingsMatch`, which speaks of states with `OnePipe` | |
| `OpenPipesKnown` | `OpenPipesAreKnown` | `OnePipe` or `Forkers = {}` |
| `InformationCovered` | `Covered`, that is `FlowInv` while the server is up and `slips = {}` | the same, and `Races = {}` |
| `KnowledgeIsCovered` | `KnowledgeCovered` | the same, and `Races = {}` |

*The conditions* are those under which the properties are true of the code. `OnePipe` (at
most one of the channels is a pipe or fifo; sockets are as many as there are) and
`Forkers = {}` keep away from what `pipe_shift` shows: when a row is removed the later ones
move, the mappings keep the old positions, and the next fork counts another pipe. Without
forks nobody adds to a row what the mappings say, so any number of pipes keep their rows,
although their mappings go wrong; that is why `MappingsMatch` needs `OnePipe`. `Races = {}`
keeps away from the overlaps of open and close (section 6); descriptors that are opened and
closed again one after another, forks and deaths are all in.

*The invariants*, each of which needs those before it:

- `TableInv`: one row of a channel at most. A fifo or a connection is looked for before it
  is added; a pipe gets its row without a look, so until then there is none, and who made
  the pipe is the only one about to add it (`Making`).
- `CallsInv` (`ChannelCalls`): what a call is about is open, who calls has a row, and a
  child without one has what its parent, who waits, has.
- `MapInv` (`SinglePipe`): of a single pipe the mappings of a process count the ends it has
  open and the database knows of (`Counted`), and the row counts what all mappings
  say. An end is counted from its check, which comes after the kernel's open, to the check
  of its close, which comes before the kernel's, a child's from its `fork_check`; at
  those moments the descriptors and the counts differ.
- `CountInv` (`ManyPipes`): with many pipes a row counts *at least* the ends that are
  counted for its channel. It may count more: who exits gives nothing back.
- `FlowInv`: a channel that nobody has open is empty (`Emptied`), its row covers what
  is in it and what a read or write that was allowed has on its way (`Guarded`), what
  is about to get its row is empty (`Unwritten`), and the row of a process covers what it
  knows. A read takes the bytes before the check, a write puts them after it, so `Guarded`
  speaks of pending calls too, and works because labels of channels only rise. `Unwritten` is
  where `Races = {}` is needed: a row that goes while somebody opens the fifo would
  leave bytes that no label covers. `SocketEnds` says that
  a socket is only ever open as who connected or as who accepted.

*Sums.* `RefCount` and `CopiedMaps` are recursive functions over the positions of
`pipe_ref_map`. Their values are proved from their defining equations by a least
counterexample: a set of numbers that is not empty has a least one, because the finite sets
`1..i` are well founded (`LeastIndex`, `EveryNumber`). From this come the lemmas that carry the
proofs: one mapping more, less or changed changes the sum by its part; what a copy
adds is the parent's sum.

**Only model-checked.** `ForkReturns` and `LockReleased`, which are liveness. The words of
`UserSets` (`InferenceOnWords`, `ChecksOnWords`), which are computed on bits by the operators
of `Bitwise`, about which the prover knows nothing. Every other property of a passing run is a theorem, under the conditions
named above.

## 5. Plan

Done: labels, inference and words; the rule engine and the processes over it; queries and
server as its refinement; pipes, fifos and sockets; queues and semaphores; signals to
groups; the kernel module; all of them with proofs. To come:

1. `DatabaseRpc`: pids that come round while an answer waits, bounded queues, and the
   semaphore's own wait and post, which would make the lock's fairness a question.
2. Permissions that change after a file was first opened (its label stays), and inodes
   that are used again.
3. The queries on pipes, connections, queues and semaphores message by message, as a
   refinement of `ChannelTables` and `IpcTables`.

## 6. Where code and repository disagree

- **`orphan`** The child registers under `getppid()`. If its parent died first
  this is the reaper's pid and the child starts with its user's default label and
  its parent's secrets; confidentiality fails.
- **`pipe_shift`** After `remove_pipe` the positions in `pipe_ref_map` are stale. A
  fork then adds the child's references to another pipe, or past the array, and an
  open pipe loses its row.
- **`kill_leader`** `kill(-g)` asks `get_group_pids_from_pid` for the processes of group
  `g`, and that function leaves out the pid it is given, which is the leader's. A child
  that signals the group of its parent reaches the parent unchecked, against "check
  semantics for each process to be signalled" (`preload.c:381`).

Seen without a run of their own; each is a change of a configuration or a property of
a line:

- *A server that stops.* A `read_response` that fails because the queue was removed is
  not noticed; the unset answer of `is_rwfm_enabled` may read as "monitor off"
  (`NoLeak` as an invariant of `core`, without `CONSTRAINT`).
- *A fork that fails.* -1 is not 0, so the caller waits on `FORK_LOCK` for a child that
  does not exist (`ForkFails`): for ever, unless the child of somebody else's fork posts.
- *One name for all forks.* `/fork_lock` is created, posted, waited for and unlinked by
  every fork of the host. A parent may be woken by another's child; one whose semaphore
  lost its name may wait for a post that goes to a newer one; and a `sem_open` without
  `O_CREAT` after the `sem_unlink` of another parent fails, upon which `sem_post` or
  `sem_wait` follows a NULL pointer (`ForkReturns` without `p \in stranded` in
  `fork_liveness`).
- *read and write of a socket.* Only `recv` and `send` are checked; `read()` and `write()`
  ask whether the descriptor is a regular file or a fifo (`preload.c:74-81, 94-99`), and
  a socket is neither. What passes leaves no label (`KnowledgeCovered` in `channels`
  without `slips = {}`).
- *A raise that is lost.* In the kernel module `update_subject_label` may store into the
  array that another CPU's `add_subject` has copied and is about to free. The label is
  then the old one, and what was read goes on without a warning (`RowsOnlyRise` in
  `kernel_module` without `"race" \notin slips'`).
- *Threads.* `is_rwfm_enabled` is outside the lock that is "For ensuring mutual
  exclusion of database server access"; two threads of a process can take each other's
  answers (`AnswersMatch` in `rpc` with `PidOf <- OnePid`).
- *A fifo that is opened late.* Its label goes when the only process the database knows
  of closes it; another one, between its `open` and its `open_fifo_check`, still holds
  the bytes and gets a fresh label for them (`channels` with `Races = {"open"}`).
- *Equal labels.* A read from a pipe or socket whose label equals the reader's is
  refused (`ret_val` stays 0), as in `examples/pipe/pipe_basic.c`.
- *A refused removal.* `msgctl` has removed the queue when its check refuses
  (`MsgctlCheck` after `Msgctl`), and clears a buffer that is likely NULL.
- `add_subject` keeps the row of a dead process for whoever of the same user gets its
  pid; `examples/cwall/readme` gives a new file the label of its creator,
  `file_open_check` that of its permission bits; `kill(-1)` of root lists pid 1, which
  has no row, and so ends the server.

## 7. Not modelled, and why

- *Set-up.* `add_users_and_groups.c`, `enable_rwfm.c` and the scripts run before any
  client; the models begin with the users, groups and the switch as they leave them
  (only the word of a group is modelled, in `UserSets`). `SET_RWFM_ENABLED` is left
  out because the monitor is assumed to stay on.
- *libc bindings* only look up symbols; *examples* are programs under the monitor, not
  parts of it: the instances take their files, modes and groups from them.
- *The messages of queries on pipes, connections, queues and semaphores.*
  `DatabaseRpc` shows, and `DatabaseRpcProofs` proves, for subjects and objects that a check is atomic, whatever other
  clients send; those other operations go through the same `lock()`, queues and loop.
- *Wording.* Host names and formatting of messages carry no decision: a request is its
  operation and its arguments.
- *Limits.* Memory exhaustion of the server, full queues, and pids that come round
  while an answer waits are not considered; nor are inodes above 2^31 and lists longer
  than their buffers, where nothing of what is claimed holds.
- *Several threads*, shared or passed descriptors, `setuid`, and changes of a file's
  permissions are outside the assumptions of section 3.
