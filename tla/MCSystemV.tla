----------------------------- MODULE MCSystemV ------------------------------
(***************************************************************************)
(* Instances of SystemV for TLC: a process of each of two users, the file  *)
(* of examples/message_queue that only its owner may read, and the mode    *)
(* 0666 that its programs give to msgget.                                  *)
(***************************************************************************)
EXTENDS SystemV, TLC

CONSTANTS u1, u2, p1, p2, q1, q2, i1, secret_file

TwoUsers == (p1 :> u1) @@ (p2 :> u2)

SecretStat ==
  [f \in Files |-> [uid |-> u1, members |-> {u1}, mode |-> {"S_IRUSR", "S_IWUSR"}]]

\* 0666 and 0600
QueueModes == {ModeBits, {"S_IRUSR", "S_IWUSR"}}

\* one up, one wait for zero, one down, and a down behind an up
Arrays == {<<1>>, <<0>>, <<-1>>, <<1, -1>>}

(***************************************************************************)
(* Bounds.  FirstSlip: what follows the first slip is not looked at.       *)
(* OneKind: queues and semaphores have tables of their own and share only  *)
(* the labels of processes, so a behaviour has queues or semaphores.       *)
(* QuietSecond: a second queue is used by p2 alone, has mode 0666 and the  *)
(* label of that mode, and no messages.                                    *)
(***************************************************************************)
FirstSlip == slips = {}
OneKind == born \subseteq Queues \/ born \subseteq Semaphores

QuietSecond ==
  q2 \in born =>
    /\ data[q2] = {} /\ q2 \notin ids[p1] /\ on[p1].id # q2
    /\ q2 \in DOMAIN ipcs => ipcs[q2].mode = ModeBits
    /\ q2 \in DOMAIN all_msgq_objects =>
         all_msgq_objects[q2] = [readers |-> Users, writers |-> Users]

SystemVBound == FirstSlip /\ OneKind /\ QuietSecond
=============================================================================
