--------------------------- MODULE MCDatabaseRpc ----------------------------
(***************************************************************************)
(* Instances of DatabaseRpc for TLC.                                       *)
(***************************************************************************)
EXTENDS DatabaseRpc, TLC

CONSTANTS u1, u2, p1, p2, c1, c2, private

\* Single-threaded processes, of one user or of two; two threads of one process.
OwnPids == [c \in Clients |-> IF c = c1 THEN p1 ELSE p2]
OnePid == [c \in Clients |-> p1]
OneOrTwoUsers == {[p \in Pids |-> u1], [p \in Pids |-> IF p = p1 THEN u1 ELSE u2]}

\* A 0600 file of u1.
RpcFileStat ==
  [f \in Files |-> [uid |-> u1, members |-> {u1}, mode |-> {"S_IRUSR", "S_IWUSR"}]]
=============================================================================
