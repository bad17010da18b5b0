--------------------------- MODULE LabelInference ---------------------------
(***************************************************************************)
(* infer_object_labels.h: how the label of a file is computed from the     *)
(* owner, the group and the nine permission bits that stat() reports.      *)
(*                                                                         *)
(* A stat record has the fields                                            *)
(*    uid      the registered user that owns the file, or NoUser when      *)
(*             get_user_id_index answers -1;                               *)
(*    members  the registered members of its group (the group itself is    *)
(*             registered: for an unknown group the C code indexes         *)
(*             all_group_ids with -1);                                     *)
(*    mode     the set of permission bits that are on.                     *)
(***************************************************************************)
EXTENDS Labels

CONSTANT NoUser                \* the index -1

ASSUME NoUserAssumption == NoUser \notin Users

ModeBits == {"S_IRUSR", "S_IRGRP", "S_IROTH", "S_IWUSR", "S_IWGRP", "S_IWOTH"}

StatRecord == [uid : Users \cup {NoUser}, members : UserSet, mode : SUBSET ModeBits]

\* Mutant of InferredSet: the owner that came in with the group stays.
InferredSet_KeepsOwner(stat, usr, grp, oth) ==
  (IF usr \in stat.mode THEN {stat.uid} ELSE {})
    \cup (IF grp \in stat.mode THEN stat.members ELSE {})
    \cup (IF oth \in stat.mode THEN (Users \ stat.members) \ {stat.uid} ELSE {})

(***************************************************************************)
(* One of the two halves of infer_file_labels, in the order of the code:   *)
(* add the owner, add the group, take the owner out again when the owner's *)
(* own bit is off, add everybody else.                                     *)
(***************************************************************************)
InferredSet(stat, usr, grp, oth) ==
  LET owner         == {stat.uid}
      with_owner    == IF usr \in stat.mode THEN owner ELSE {}
      with_group    == IF grp \in stat.mode THEN with_owner \cup stat.members
                                            ELSE with_owner
      owner_settled == IF usr \in stat.mode THEN with_group ELSE with_group \ owner
      other_members == (Users \ stat.members) \ owner
  IN  IF oth \in stat.mode THEN owner_settled \cup other_members ELSE owner_settled

infer_file_labels(stat) ==
  IF stat.uid = NoUser
    THEN [readers |-> {}, writers |-> {}]
    ELSE [readers |-> InferredSet(stat, "S_IRUSR", "S_IRGRP", "S_IROTH"),
          writers |-> InferredSet(stat, "S_IWUSR", "S_IWGRP", "S_IWOTH")]

(***************************************************************************)
(* What the kernel grants: exactly one of the three classes of bits speaks *)
(* for each user.                                                          *)
(***************************************************************************)
KernelGrants(stat, u, usr, grp, oth) ==
  \/ u = stat.uid /\ usr \in stat.mode
  \/ u # stat.uid /\ u \in stat.members /\ grp \in stat.mode
  \/ u # stat.uid /\ u \notin stat.members /\ oth \in stat.mode

KernelReaders(stat) ==
  {u \in Users : KernelGrants(stat, u, "S_IRUSR", "S_IRGRP", "S_IROTH")}
KernelWriters(stat) ==
  {u \in Users : KernelGrants(stat, u, "S_IWUSR", "S_IWGRP", "S_IWOTH")}

(***************************************************************************)
(* The inferred label of a file of a registered owner names exactly the    *)
(* users the kernel lets read and write it.  The order of additions and    *)
(* removals matters: an owner without the bit may be in the group that has *)
(* it, or among the others.                                                *)
(***************************************************************************)
InferenceIsKernelRule ==
  \A stat \in StatRecord :
    stat.uid # NoUser =>
      infer_file_labels(stat) = [readers |-> KernelReaders(stat),
                                 writers |-> KernelWriters(stat)]
=============================================================================
