------------------------------- MODULE Labels -------------------------------
(***************************************************************************)
(* The readers-writers labels of the monitor.  A label is a pair of user   *)
(* sets, (readers, writers): who may come to know the information, and who *)
(* may have influenced it.  In the C code a USER_SET is a 64-bit word with *)
(* one bit per registered user; here it is a set of users.  The two agree  *)
(* as long as fewer than 64 users are registered (see README, "Bounds").   *)
(***************************************************************************)

CONSTANT Users                 \* the rows of all_user_ids

UserSet == SUBSET Users

Label == [readers : UserSet, writers : UserSet]

\* Mutants of Raise and FlowsTo: the label is replaced; the readers are left
\* alone; the writers are not compared.
Raise_Replaces(row, l) == [row EXCEPT !.readers = l.readers, !.writers = l.writers]
Raise_KeepsReaders(row, l) == [row EXCEPT !.writers = @ \cup l.writers]
FlowsTo_ReadersOnly(l, m) == m.readers \subseteq l.readers

(***************************************************************************)
(* Raise(row, l) is the label of a party that was itself at `row' once     *)
(* information labelled l reached it: set_intersection of the readers and  *)
(* set_union of the writers.                                               *)
(***************************************************************************)
Raise(row, l) == [row EXCEPT !.readers = @ \cap l.readers,
                             !.writers = @ \cup l.writers]

(***************************************************************************)
(* The two comparisons of every write check: is_superset_of the readers    *)
(* and is_subset_of the writers.                                           *)
(***************************************************************************)
FlowsTo(l, m) == m.readers \subseteq l.readers /\ l.writers \subseteq m.writers
=============================================================================
