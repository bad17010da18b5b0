--------------------------- MODULE MCKernelModule ---------------------------
(***************************************************************************)
(* Instances of KernelModule for TLC: the files f1 and f2 of examples/     *)
(* basic, 0600 and 0644, and the processes that a shell of their owner     *)
(* clones.                                                                 *)
(***************************************************************************)
EXTENDS KernelModule, Naturals, FiniteSets, TLC

CONSTANTS u1, u2, p1, p2, p3, p4, f1, f2

MCUser == p1 :> u1

\* A row that lets everybody read.
MCGarbage == {[owner |-> u1, readers |-> {u1, u2}, writers |-> {u1}]}

MCFileStat ==
  [f \in Files |-> [uid |-> u1, members |-> {u1},
                    mode |-> IF f = f1 THEN {"S_IRUSR", "S_IWUSR"}
                             ELSE {"S_IRUSR", "S_IWUSR", "S_IRGRP", "S_IROTH"}]]

(***************************************************************************)
(* Bounds.  NothingAmiss: what follows the first warning or the first slip *)
(* is not looked at; no property speaks of it.  TwoCalls: no three calls   *)
(* are in progress at once.  QuietShell: the shell only clones, and stays. *)
(***************************************************************************)
NothingAmiss == ~warned /\ slips = {}
TwoCalls == Cardinality({p \in Pids : pc[p] \notin {"free", "idle"}}) <= 2
QuietShell == pc[p1] \in {"idle", "cloned", "adding", "hostless"}
KernelBound == NothingAmiss /\ TwoCalls /\ QuietShell

PidSymmetry == Permutations(Pids \ Started)
=============================================================================
