-------------------------- MODULE RuleEngineProofs --------------------------
(***************************************************************************)
(* Theorems about the rule engine, for any set of users, files and pids.   *)
(***************************************************************************)
EXTENDS RuleEngine, LabelProofs, TLAPS

-----------------------------------------------------------------------------
(* Labels *)

LEMMA InferredObjectType ==
  ASSUME NEW f \in Files
  PROVE  /\ InferredObject(f) \in ObjectRow
         /\ InferredObject(f).readers = infer_file_labels(FileStat[f]).readers
         /\ InferredObject(f).writers = infer_file_labels(FileStat[f]).writers
<1>1. FileStat[f] \in StatRecord
  BY RuleEngineAssumption
<1>2. infer_file_labels(FileStat[f]) \in Label
  BY <1>1, InferredIsLabel
<1>3. FileStat[f].uid \in Users \cup {NoUser}
  BY <1>1 DEF StatRecord
<1>4. QED
  BY <1>2, <1>3 DEF InferredObject, ObjectRow, Label

\* Raise keeps the owner, and moves the label up to cover both.
LEMMA RaiseRow ==
  ASSUME NEW row \in SubjectRow, NEW l,
         l.readers \subseteq Users, l.writers \subseteq Users
  PROVE  /\ Raise(row, l) \in SubjectRow
         /\ Raise(row, l).owner = row.owner
         /\ Raise(row, l).readers = row.readers \cap l.readers
         /\ Raise(row, l).writers = row.writers \cup l.writers
         /\ FlowsTo(row, Raise(row, l))
  BY DEF Raise, SubjectRow, UserSet, FlowsTo

LEMMA DefaultRow ==
  ASSUME NEW u \in Users
  PROVE  DefaultSubject(u) \in SubjectRow
  BY DEF DefaultSubject, SubjectRow, UserSet

\* add_subject and add_object keep the type of their table.
LEMMA AddRowType ==
  ASSUME NEW table, NEW id, NEW row, NEW T, NEW R,
         DOMAIN table \subseteq T, table \in [DOMAIN table -> R], id \in T, row \in R
  PROVE  /\ DOMAIN AddRow(table, id, row) \subseteq T
         /\ AddRow(table, id, row) \in [DOMAIN AddRow(table, id, row) -> R]
  BY DEF AddRow

-----------------------------------------------------------------------------
(* The rule engine *)

REInv == RETypeOK /\ OwnerKeepsAccess /\ ObjectsInferred

\* What a check may do to the database, however it is called.
REStep ==
  /\ REInv'
  /\ \A s \in DOMAIN subjects :
       s \in DOMAIN subjects' /\ FlowsTo(subjects[s], subjects'[s])
  /\ \A f \in DOMAIN objects :
       f \in DOMAIN objects' /\ objects'[f] = objects[f]

LEMMA REUnchanged ==
  ASSUME REInv, UNCHANGED <<subjects, objects>>, server' \in {"up", "stopped"}
  PROVE  REStep
  BY DEF REInv, REStep, RETypeOK, OwnerKeepsAccess, ObjectsInferred, FlowsTo

\* One row is raised: what file_read_check and kill_check do.
LEMMA RaiseStep ==
  ASSUME REInv, NEW s \in DOMAIN subjects, NEW l,
         l.readers \subseteq Users, l.writers \subseteq Users, s[1] \in l.readers,
         subjects' = [subjects EXCEPT ![s] = Raise(@, l)],
         UNCHANGED <<objects, server>>
  PROVE  REStep
<1>1. subjects[s] \in SubjectRow /\ s \in SubjectIds
  BY DEF REInv, RETypeOK
<1>2. DOMAIN subjects' = DOMAIN subjects
  OBVIOUS
<1>3. subjects'[s] = Raise(subjects[s], l) /\ \A t \in DOMAIN subjects : t # s => subjects'[t] = subjects[t]
  OBVIOUS
<1>4. /\ subjects'[s] \in SubjectRow
      /\ subjects'[s].owner = subjects[s].owner
      /\ subjects'[s].readers = subjects[s].readers \cap l.readers
      /\ subjects'[s].writers = subjects[s].writers \cup l.writers
      /\ FlowsTo(subjects[s], subjects'[s])
  BY <1>1, <1>3, RaiseRow
<1>5. RETypeOK'
  <2>1. \A t \in DOMAIN subjects' : subjects'[t] \in SubjectRow
    BY <1>2, <1>3, <1>4 DEF REInv, RETypeOK
  <2>2. subjects' = [t \in DOMAIN subjects' |-> subjects'[t]]
    OBVIOUS
  <2>3. subjects' \in [DOMAIN subjects' -> SubjectRow]
    BY <2>1, <2>2
  <2>4. QED
    BY <1>2, <2>3 DEF REInv, RETypeOK
<1>6. OwnerKeepsAccess'
  BY <1>2, <1>3, <1>4 DEF REInv, OwnerKeepsAccess
<1>7. ObjectsInferred'
  BY DEF REInv, ObjectsInferred
<1>8. \A t \in DOMAIN subjects : t \in DOMAIN subjects' /\ FlowsTo(subjects[t], subjects'[t])
  BY <1>2, <1>3, <1>4 DEF FlowsTo
<1>9. QED
  BY <1>5, <1>6, <1>7, <1>8 DEF REStep, REInv

LEMMA ForkStep ==
  ASSUME REInv, NEW u \in Users, NEW child \in Pids, NEW parent,
         fork_check(u, child, parent)
  PROVE  REStep
<1> DEFINE row == IF <<u, parent>> \in DOMAIN subjects
                    THEN subjects[<<u, parent>>] ELSE DefaultSubject(u)
<1>1. subjects' = AddRow(subjects, <<u, child>>, row) /\ UNCHANGED <<objects, server>>
  BY DEF fork_check
<1>2. row \in SubjectRow /\ row.owner = u /\ u \in row.readers \cap row.writers
  <2>1. CASE <<u, parent>> \in DOMAIN subjects
    BY <2>1 DEF REInv, RETypeOK, OwnerKeepsAccess
  <2>2. CASE <<u, parent>> \notin DOMAIN subjects
    BY <2>2, DefaultRow DEF DefaultSubject
  <2>3. QED
    BY <2>1, <2>2
<1>3. <<u, child>> \in SubjectIds
  BY DEF SubjectIds
<1> HIDE DEF row
<1>4. RETypeOK'
  BY <1>1, <1>2, <1>3, AddRowType DEF REInv, RETypeOK
<1>5. /\ DOMAIN subjects' = DOMAIN subjects \cup {<<u, child>>}
      /\ \A t \in DOMAIN subjects : subjects'[t] = subjects[t]
      /\ <<u, child>> \notin DOMAIN subjects => subjects'[<<u, child>>] = row
  BY <1>1 DEF AddRow
<1>6. OwnerKeepsAccess'
  BY <1>2, <1>5 DEF REInv, OwnerKeepsAccess
<1>7. QED
  BY <1>1, <1>4, <1>5, <1>6 DEF REStep, REInv, ObjectsInferred, FlowsTo

LEMMA OpenStep ==
  ASSUME REInv, NEW f \in Files, file_open_check(f)
  PROVE  REStep
<1>1. objects' = AddRow(objects, f, InferredObject(f)) /\ UNCHANGED <<subjects, server>>
  BY DEF file_open_check
<1>2. InferredObject(f) \in ObjectRow
  BY InferredObjectType
<1>3. RETypeOK'
  BY <1>1, <1>2, AddRowType DEF REInv, RETypeOK
<1>4. /\ DOMAIN objects' = DOMAIN objects \cup {f}
      /\ \A g \in DOMAIN objects : objects'[g] = objects[g]
      /\ f \notin DOMAIN objects => objects'[f] = InferredObject(f)
  BY <1>1 DEF AddRow
<1>5. ObjectsInferred'
  BY <1>4 DEF REInv, ObjectsInferred
<1>6. QED
  BY <1>1, <1>3, <1>4, <1>5 DEF REStep, REInv, OwnerKeepsAccess, FlowsTo

LEMMA ReadStep ==
  ASSUME REInv, NEW s \in SubjectIds, NEW f \in Files, NEW ret,
         file_read_check(s, f, ret)
  PROVE  REStep
<1>1. CASE f \in DOMAIN objects /\ s \in DOMAIN subjects
           /\ subjects[s].owner \in objects[f].readers
           /\ subjects' = [subjects EXCEPT ![s] = Raise(@, objects[f])]
           /\ UNCHANGED <<objects, server>>
  <2>1. objects[f].readers \subseteq Users /\ objects[f].writers \subseteq Users
    BY <1>1 DEF REInv, RETypeOK, ObjectRow, UserSet
  <2>2. s[1] \in objects[f].readers
    BY <1>1 DEF REInv, OwnerKeepsAccess
  <2>3. QED
    BY <1>1, <2>1, <2>2, RaiseStep
<1>2. CASE UNCHANGED <<subjects, objects>> /\ server' \in {"up", "stopped"}
  BY <1>2, REUnchanged
<1>3. QED
  BY <1>1, <1>2 DEF file_read_check, StopServer, revars

LEMMA WriteStep ==
  ASSUME REInv, NEW s, NEW f, NEW ret, file_write_check(s, f, ret)
  PROVE  REStep
<1>1. UNCHANGED <<subjects, objects>> /\ server' \in {"up", "stopped"}
  BY DEF file_write_check, StopServer, revars
<1>2. QED
  BY <1>1, REUnchanged

LEMMA KillStep ==
  ASSUME REInv, NEW s \in SubjectIds, NEW peer \in SubjectIds, NEW ret,
         kill_check(s, peer, ret)
  PROVE  REStep
<1>1. CASE {s, peer} \subseteq DOMAIN subjects
           /\ subjects[peer].owner \in subjects[s].readers
           /\ subjects' = [subjects EXCEPT ![peer] = Raise(@, subjects[s])]
           /\ UNCHANGED <<objects, server>>
  <2>1. subjects[s].readers \subseteq Users /\ subjects[s].writers \subseteq Users
    BY <1>1 DEF REInv, RETypeOK, SubjectRow, UserSet
  <2>2. peer[1] \in subjects[s].readers
    BY <1>1 DEF REInv, OwnerKeepsAccess
  <2>3. QED
    BY <1>1, <2>1, <2>2, RaiseStep
<1>2. CASE UNCHANGED <<subjects, objects>> /\ server' \in {"up", "stopped"}
  BY <1>2, REUnchanged
<1>3. QED
  BY <1>1, <1>2 DEF kill_check, StopServer, revars

\* Several rows are raised from one label: what kill_many_check does.
LEMMA RaiseManyStep ==
  ASSUME REInv, NEW peers, NEW l,
         l.readers \subseteq Users, l.writers \subseteq Users,
         \A t \in peers \cap DOMAIN subjects : t[1] \in l.readers,
         subjects' = [t \in DOMAIN subjects |->
                        IF t \in peers THEN Raise(subjects[t], l) ELSE subjects[t]],
         UNCHANGED <<objects, server>>
  PROVE  REStep
<1>1. DOMAIN subjects' = DOMAIN subjects
  OBVIOUS
<1>2. ASSUME NEW t \in DOMAIN subjects
      PROVE  /\ subjects'[t] \in SubjectRow
             /\ subjects'[t].owner = t[1]
             /\ t[1] \in subjects'[t].readers \cap subjects'[t].writers
             /\ FlowsTo(subjects[t], subjects'[t])
  <2>1. /\ subjects[t] \in SubjectRow /\ subjects[t].owner = t[1]
        /\ t[1] \in subjects[t].readers \cap subjects[t].writers
    BY DEF REInv, RETypeOK, OwnerKeepsAccess
  <2>2. CASE t \in peers
    <3>1. subjects'[t] = Raise(subjects[t], l)
      BY <2>2
    <3>2. QED
      BY <2>1, <2>2, <3>1, RaiseRow
  <2>3. CASE t \notin peers
    <3>1. subjects'[t] = subjects[t]
      BY <2>3
    <3>2. QED
      BY <2>1, <3>1 DEF FlowsTo
  <2>4. QED
    BY <2>2, <2>3
<1>3. RETypeOK'
  <2>1. subjects' = [t \in DOMAIN subjects' |-> subjects'[t]]
    OBVIOUS
  <2>2. subjects' \in [DOMAIN subjects' -> SubjectRow]
    BY <1>1, <1>2, <2>1
  <2>3. QED
    BY <1>1, <2>2 DEF REInv, RETypeOK
<1>4. OwnerKeepsAccess'
  BY <1>1, <1>2 DEF OwnerKeepsAccess
<1>5. QED
  BY <1>1, <1>2, <1>3, <1>4 DEF REStep, REInv, ObjectsInferred

LEMMA KillManyStep ==
  ASSUME REInv, NEW s \in SubjectIds, NEW peers, NEW ret,
         kill_many_check(s, peers, ret)
  PROVE  REStep
<1>1. CASE /\ peers \cup {s} \subseteq DOMAIN subjects
           /\ \A peer \in peers : subjects[peer].owner \in subjects[s].readers
           /\ subjects' = [t \in DOMAIN subjects |->
                            IF t \in peers THEN Raise(subjects[t], subjects[s])
                                            ELSE subjects[t]]
           /\ UNCHANGED <<objects, server>>
  <2>1. subjects[s].readers \subseteq Users /\ subjects[s].writers \subseteq Users
    BY <1>1 DEF REInv, RETypeOK, SubjectRow, UserSet
  <2>2. \A t \in peers \cap DOMAIN subjects : t[1] \in subjects[s].readers
    BY <1>1 DEF REInv, OwnerKeepsAccess
  <2>3. QED
    BY <1>1, <2>1, <2>2, RaiseManyStep
<1>2. CASE UNCHANGED <<subjects, objects>> /\ server' \in {"up", "stopped"}
  BY <1>2, REUnchanged
<1>3. QED
  BY <1>1, <1>2 DEF kill_many_check, StopServer, revars

LEMMA RENextStep ==
  ASSUME REInv, [RENext]_revars
  PROVE  REStep
<1>1. CASE UNCHANGED revars
  <2>1. UNCHANGED <<subjects, objects>> /\ server' \in {"up", "stopped"}
    BY <1>1 DEF revars, REInv, RETypeOK
  <2>2. QED
    BY <2>1, REUnchanged
<1>2. CASE RENext
  BY <1>2, ForkStep, OpenStep, ReadStep, WriteStep, KillStep, KillManyStep DEF RENext
<1>3. QED
  BY <1>1, <1>2

LEMMA REInitInv == REInit => REInv
  BY DEF REInit, REInv, RETypeOK, OwnerKeepsAccess, ObjectsInferred

(***************************************************************************)
(* Whatever is asked of the rule engine, and in whatever order, its rows   *)
(* are well formed, owners keep their access, and files keep the label of  *)
(* their permissions.                                                      *)
(***************************************************************************)
THEOREM RuleEngineInvariant == RESpec => [](RETypeOK /\ OwnerKeepsAccess /\ ObjectsInferred)
<1>1. REInv /\ [RENext]_revars => REInv'
  BY RENextStep DEF REStep
<1>2. QED
  BY REInitInv, <1>1, PTL DEF RESpec, REInv

(***************************************************************************)
(* Whatever is asked of the rule engine, it never lowers a label.          *)
(***************************************************************************)
THEOREM RuleEngineLabelsOnlyRise == RESpec => LabelsOnlyRise
<1>1. REInv /\ [RENext]_revars => REInv'
  BY RENextStep DEF REStep
<1> DEFINE Rise == /\ \A s \in DOMAIN subjects :
                        s \in DOMAIN subjects' /\ FlowsTo(subjects[s], subjects'[s])
                   /\ \A f \in DOMAIN objects :
                        f \in DOMAIN objects' /\ objects'[f] = objects[f]
<1>2. REInv /\ [RENext]_revars => [Rise]_revars
  BY RENextStep DEF REStep
<1>3. QED
  BY REInitInv, <1>1, <1>2, PTL DEF RESpec, LabelsOnlyRise
=============================================================================
