---------------------------- MODULE LabelProofs -----------------------------
(***************************************************************************)
(* Theorems about label inference, for any set of users.                   *)
(***************************************************************************)
EXTENDS LabelInference, TLAPS

(***************************************************************************)
(* infer_file_labels gives a file of a registered owner exactly the        *)
(* readers and writers that the kernel's permission check has.             *)
(***************************************************************************)
THEOREM InferenceMatchesKernel == InferenceIsKernelRule
<1>1. ASSUME NEW stat \in StatRecord, NEW usr, NEW grp, NEW oth, stat.uid # NoUser
      PROVE  InferredSet(stat, usr, grp, oth)
               = {u \in Users : KernelGrants(stat, u, usr, grp, oth)}
  <2>1. stat.uid \in Users /\ stat.members \subseteq Users
    BY <1>1 DEF StatRecord, UserSet
  <2>2. ASSUME NEW u
        PROVE  u \in InferredSet(stat, usr, grp, oth)
                 <=> u \in Users /\ KernelGrants(stat, u, usr, grp, oth)
    BY <2>1 DEF InferredSet, KernelGrants
  <2>3. QED
    BY <2>2
<1>2. QED
  BY <1>1 DEF InferenceIsKernelRule, infer_file_labels, KernelReaders, KernelWriters

\* The inferred label of any file is a label.
LEMMA InferredIsLabel ==
  ASSUME NEW stat \in StatRecord
  PROVE  infer_file_labels(stat) \in Label
<1>1. ASSUME NEW usr, NEW grp, NEW oth, stat.uid # NoUser
      PROVE  InferredSet(stat, usr, grp, oth) \subseteq Users
  BY <1>1 DEF StatRecord, UserSet, InferredSet
<1>2. QED
  BY <1>1 DEF infer_file_labels, Label, UserSet
=============================================================================
