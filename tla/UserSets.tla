------------------------------ MODULE UserSets ------------------------------
(***************************************************************************)
(* user_set_manipulation_functions.h as it is: a USER_SET is a word of     *)
(* Width bits, and the user whose row is i in all_user_ids is bit i.  The  *)
(* other modules compute with sets of users instead; the properties say    *)
(* when they may.                                                          *)
(*                                                                         *)
(* A word is a number here and its operations are those of C, modulo       *)
(* 2^Width.  Shifting by a number that is not below Width is undefined; an *)
(* x86 processor takes it modulo Width, so the index -1 of an unknown user *)
(* is the highest bit.                                                     *)
(***************************************************************************)
EXTENDS LabelInference, Integers, FiniteSets, Bitwise

CONSTANT Width

ASSUME WidthAssumption == /\ Width \in Nat \ {0}
                          /\ Users = 0 .. Cardinality(Users) - 1
                          /\ Cardinality(Users) < Width - 1

Max64 == 2^Width - 1
Complement(word) == Max64 - word

Bit(i) == 2^(i % Width)

\* The new value of the set.  It is full when all of Width bits are on, and stays.
add_user_to_label(i, label) == IF label = Max64 THEN label ELSE label | Bit(i)

\* Mutant of remove_user_from_set: tmp is not complemented.
remove_user_from_set_Keeps(i, set) == IF set = Max64 THEN set ELSE set & Bit(i)

remove_user_from_set(i, set) == IF set = Max64 THEN set ELSE set & Complement(Bit(i))

is_user_in_set(i, set) == (set & Bit(i)) # 0

set_union(set1, set2) == set1 | set2
set_intersection(set1, set2) == set1 & set2

\* Mutant of is_subset_of: the result is compared with the other set.
is_subset_of_Swapped(set1, set2) == (set1 & set2) = set2

is_subset_of(set1, set2) == (set1 & set2) = set1
is_superset_of(set1, set2) == (set1 | set2) = set1

\* The loop of get_all_users doubles n times; 2^Width wraps round to 0.
get_all_users(n) == (2^n - 1) % 2^Width

-----------------------------------------------------------------------------
(* Words for sets of users *)

\* The bits that belong to users; a word may have the highest bit as well.
UsersOf(word) == {i \in Users : is_user_in_set(i, word)}

\* main of add_users_and_groups.c adds the members one by one, unknown ones as -1.
group_word[members \in SUBSET (Users \cup {-1})] ==
  IF members = {} THEN 0
  ELSE LET i == CHOOSE i \in members : TRUE
       IN  add_user_to_label(i, group_word[members \ {i}])

\* One half of infer_file_labels, on words.
InferredWord(stat, group_members, usr, grp, oth) ==
  LET i             == stat.uid
      is_user       == usr \in stat.mode
      with_owner    == IF is_user THEN add_user_to_label(i, 0) ELSE 0
      with_group    == IF grp \in stat.mode THEN with_owner | group_members ELSE with_owner
      owner_settled == IF is_user THEN with_group ELSE remove_user_from_set(i, with_group)
      all_users     == get_all_users(Cardinality(Users))
      other_members == remove_user_from_set(i, all_users & Complement(group_members))
  IN  IF oth \in stat.mode THEN owner_settled | other_members ELSE owner_settled

-----------------------------------------------------------------------------
(* Properties *)

(***************************************************************************)
(* The labels that infer_file_labels computes on words have the users that *)
(* it has on sets, also when the group has a member whom nobody            *)
(* registered and who therefore is the highest bit.                        *)
(***************************************************************************)
WordsInferredAsSets(stat) ==
  stat.uid # NoUser =>
    \A strange \in {{}, {-1}} :
      LET word(usr, grp, oth) ==
            InferredWord(stat, group_word[stat.members \cup strange], usr, grp, oth)
      IN  infer_file_labels(stat) =
            [readers |-> UsersOf(word("S_IRUSR", "S_IRGRP", "S_IROTH")),
             writers |-> UsersOf(word("S_IWUSR", "S_IWGRP", "S_IWOTH"))]

(***************************************************************************)
(* What a check does to two labels, and asks of them, on words and on      *)
(* sets: Raise and FlowsTo of Labels are set_union, set_intersection and   *)
(* the two comparisons, for any labels, unknown members included.  These   *)
(* count as one more user, whose bit is the highest: the registered users  *)
(* of the result are those of the sets, but a comparison looks at that bit *)
(* too.  So a write that the words allow is one that the registered users  *)
(* allow, and the converse needs that bit to be in the order as well.      *)
(***************************************************************************)
WordsCheckedAsSets(a, b) ==
  LET word(s)  == group_word[s]
      row      == [readers |-> a, writers |-> b]
      obj      == [readers |-> b, writers |-> a]
      known(l) == [readers |-> l.readers \cap Users, writers |-> l.writers \cap Users]
      flows    == is_superset_of(word(a), word(b)) /\ is_subset_of(word(b), word(a))
  IN  /\ Raise(known(row), known(obj)) =
           [readers |-> UsersOf(set_intersection(word(a), word(b))),
            writers |-> UsersOf(set_union(word(b), word(a)))]
      /\ flows <=> FlowsTo(row, obj)
      /\ flows <=> FlowsTo(known(row), known(obj)) /\ (-1 \in b => -1 \in a)
      /\ \A u \in Users \cup {-1} : is_user_in_set(u, word(a)) <=> u \in a
=============================================================================
