--------------------------- MODULE MCGroupSignals ---------------------------
(***************************************************************************)
(* Instances of GroupSignals for TLC: the group of examples/signal, a      *)
(* leader and what it forked, and a process of another user in it.         *)
(***************************************************************************)
EXTENDS GroupSignals, TLC

CONSTANTS u1, u2, p1, p3, p4, secret_file

MCUser == (p1 :> u1) @@ (p3 :> u2)

SecretStat ==
  [f \in Files |-> [uid |-> u1, members |-> {u1}, mode |-> {"S_IRUSR", "S_IWUSR"}]]

(***************************************************************************)
(* Bounds.  FirstSlip: what follows the first slip, or the end of the      *)
(* server, is not looked at.  OneCall: two calls are in progress at once   *)
(* only when both are kill(0).                                             *)
(***************************************************************************)
WhileUp == server = "up"
FirstSlip == WhileUp /\ slips = {}
OneCall == \A p, q \in Pids :
             {pc[p], pc[q]} \subseteq {"listed", "deliver"} =>
               p = q \/ (on[p].form = "kill(0)" /\ on[q].form = "kill(0)")
GroupBound == FirstSlip /\ OneCall
=============================================================================
