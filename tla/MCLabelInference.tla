-------------------------- MODULE MCLabelInference --------------------------
(***************************************************************************)
(* infer_file_labels on every stat record there is for three users: every  *)
(* owner, registered or not, every group, every permission mask; and words *)
(* of five bits, so that neither is the set full nor the bit of an unknown *)
(* user a user's, as with 64 bits and at most 62 users.                    *)
(***************************************************************************)
EXTENDS UserSets

VARIABLE stat

Init == stat \in StatRecord
Next == UNCHANGED stat
Spec == Init /\ [][Next]_stat

\* The properties of UserSets, at the record of this state.
InferenceOnWords == WordsInferredAsSets(stat)
ChecksOnWords ==
  \A strange \in {{}, {-1}}, b \in SUBSET (Users \cup {-1}) :
    WordsCheckedAsSets(stat.members \cup strange, b)
=============================================================================
