------------------------- MODULE MCSecureProcesses --------------------------
(***************************************************************************)
(* Instances of SecureProcesses for TLC: two users, the three kinds of     *)
(* files the examples of the repository use, and one file to be created.   *)
(***************************************************************************)
EXTENDS SecureProcesses, TLC

CONSTANTS u1, u2,              \* users
          sh1, sh2,            \* their shells
          p1, p2, p3,          \* other pids
          private, shared, made

MCShellUser == (sh1 :> u1) @@ (sh2 :> u2)
OneShellUser == sh1 :> u1

\* basic/readme: f1 is 0600 and f2 is 0644, both of u1.  The new file is u1's too
\* and gets 0666.
MCFileStat ==
  [f \in Files |->
     [uid |-> u1, members |-> {u1},
      mode |-> CASE f = private -> {"S_IRUSR", "S_IWUSR"}
                 [] f = shared  -> {"S_IRUSR", "S_IWUSR", "S_IRGRP", "S_IROTH"}
                 [] OTHER       -> ModeBits]]

PidSymmetry == Permutations(Pids \ Shells)

(***************************************************************************)
(* Bounds.  WhileUp: what happens after the server stopped is left to the  *)
(* runs that are about it.  ShellsStay: shells fork and open files but do  *)
(* nothing else that asks about them, since nobody registers them and the  *)
(* server stops, and they do not exit, so at most the other pids are       *)
(* forked.  ShellsSignal: of all processes only shells send signals, which *)
(* is enough to stop the server at any moment.  OneFails: one failed fork  *)
(* is waiting at a time.  ShellFails: what follows a failed fork is looked *)
(* at only where a shell made it (whoever waits does nothing else).        *)
(***************************************************************************)
WhileUp == server = "up"
ShellsStay == \A s \in Shells : pc[s] = "idle" \/ Forking(s)
ShellsSignal == \A p \in Pids \ Shells : pc[p] \notin {"found", "kill"}
Failed(p) == Forking(p) /\ on[p] = InitProc
OneFails == \A p, q \in Pids : Failed(p) /\ Failed(q) => p = q
ShellFails == \A p \in Pids \ Shells : ~Failed(p)
CoreBound == WhileUp /\ ShellsStay /\ ShellFails
=============================================================================
