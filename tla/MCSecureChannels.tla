-------------------------- MODULE MCSecureChannels --------------------------
(***************************************************************************)
(* Instances of SecureChannels for TLC: a worker of each user and one pid  *)
(* to fork, with the files of examples/basic/readme.                       *)
(***************************************************************************)
EXTENDS SecureChannels

CONSTANTS u1, u2, p1, p2, p3, private, shared, ch1, ch2, MaxPeers

TwoWorkers == (p1 :> u1) @@ (p2 :> u2)
OneWorker == p1 :> u1

ChannelFileStat ==
  [f \in Files |->
     [uid |-> u1, members |-> {u1},
      mode |-> IF f = private THEN {"S_IRUSR", "S_IWUSR"}
               ELSE {"S_IRUSR", "S_IWUSR", "S_IRGRP", "S_IROTH"}]]

(***************************************************************************)
(* The bound on a connection whose row is never removed: it counts each    *)
(* new pair of sockets that uses its addresses.                            *)
(***************************************************************************)
PeerBound ==
  \A i \in DOMAIN all_socket_connections : all_socket_connections[i].num_peers <= MaxPeers

(***************************************************************************)
(* What follows the first unchecked read or write of a socket that moved   *)
(* something is not looked at: it changes what is known, of which nothing  *)
(* is claimed any more, and the tables know nothing of it.                 *)
(***************************************************************************)
FirstSlip == slips = {}
=============================================================================
