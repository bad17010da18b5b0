------------------------- MODULE KernelModuleProofs -------------------------
(***************************************************************************)
(* Theorems about the kernel module, for any set of users, pids and files. *)
(***************************************************************************)
EXTENDS KernelModule, LabelProofs, TLAPS

-----------------------------------------------------------------------------
(* Tables *)

TablesOK ==
  /\ known \subseteq Users
  /\ DOMAIN subjects \subseteq Users \X Pids /\ subjects \in [DOMAIN subjects -> Row]
  /\ DOMAIN objects \subseteq Files /\ objects \in [DOMAIN objects -> Row]

\* What a call may do to the tables.
TableStep ==
  /\ TablesOK' /\ known' = known
  /\ \A s \in DOMAIN subjects :
       s \in DOMAIN subjects' /\ FlowsTo(subjects[s], subjects'[s])
  /\ \A f \in DOMAIN objects :
       f \in DOMAIN objects' /\ objects'[f] = objects[f]

LEMMA TablesUnchanged ==
  ASSUME TablesOK, UNCHANGED tables
  PROVE  TableStep
  BY DEF TablesOK, TableStep, tables, FlowsTo

\* Raise keeps the owner, and moves the label up to cover both.
LEMMA RaiseRow ==
  ASSUME NEW row \in Row, NEW l \in Row
  PROVE  /\ Raise(row, l) \in Row
         /\ Raise(row, l).owner = row.owner
         /\ Raise(row, l).readers = row.readers \cap l.readers
         /\ FlowsTo(row, Raise(row, l))
  BY DEF Raise, Row, UserSet, BitSet, FlowsTo

LEMMA ClonedRow ==
  ASSUME TablesOK, NEW u \in Users, NEW p \in Pids
  PROVE  ClonedSubject(u, p) \in Row
  BY DEF TablesOK, ClonedSubject, DefaultSubject, Row, UserSet, BitSet

LEMMA AddSubjectStep ==
  ASSUME TablesOK, NEW s \in Users \X Pids, NEW row \in Row,
         subjects' = AddedRow(subjects, s, row), known' = known, objects' = objects
  PROVE  TableStep
<1>1. /\ DOMAIN subjects' = DOMAIN subjects \cup {s}
      /\ \A i \in DOMAIN subjects : subjects'[i] = subjects[i]
  BY DEF AddedRow
<1>2. subjects' \in [DOMAIN subjects' -> Row]
  BY DEF AddedRow, TablesOK
<1>3. QED
  BY <1>1, <1>2 DEF TablesOK, TableStep, FlowsTo

\* What is left of a table when its copy goes wrong is still a table.
LEMMA DamagedTable ==
  ASSUME NEW table, table \in [DOMAIN table -> Row], NEW t \in Damaged(table)
  PROVE  DOMAIN t \subseteq DOMAIN table /\ t \in [DOMAIN t -> Row]
<1>1. Garbage \subseteq Row
  BY KernelAssumption
<1>2. CASE t = table
  BY <1>2
<1>3. ASSUME NEW i \in DOMAIN table, t \in {[table EXCEPT ![i] = row] : row \in Garbage}
      PROVE  DOMAIN t \subseteq DOMAIN table /\ t \in [DOMAIN t -> Row]
  BY <1>1, <1>3
<1>4. ASSUME NEW i \in DOMAIN table, t = [j \in DOMAIN table \ {i} |-> table[j]]
      PROVE  DOMAIN t \subseteq DOMAIN table /\ t \in [DOMAIN t -> Row]
  BY <1>4
<1>5. \/ t = table
      \/ \E i \in DOMAIN table : \/ t \in {[table EXCEPT ![i] = row] : row \in Garbage}
                                \/ t = [j \in DOMAIN table \ {i} |-> table[j]]
  BY DEF Damaged
<1>6. QED
  BY <1>2, <1>3, <1>4, <1>5

LEMMA AddObjectStep ==
  ASSUME TablesOK, NEW f \in Files, NEW row \in Row,
         objects' = AddedRow(objects, f, row), known' = known, subjects' = subjects
  PROVE  TableStep
<1>1. /\ DOMAIN objects' = DOMAIN objects \cup {f}
      /\ \A i \in DOMAIN objects : objects'[i] = objects[i]
  BY DEF AddedRow
<1>2. objects' \in [DOMAIN objects' -> Row]
  BY DEF AddedRow, TablesOK
<1>3. QED
  BY <1>1, <1>2 DEF TablesOK, TableStep, FlowsTo

\* Whatever is read as the members of a group, the row that is made of it is one.
LEMMA InferredRow ==
  ASSUME NEW f \in Files, NEW row \in InferredObjects(f)
  PROVE  row \in Row
<1>1. FileStat[f] \in StatRecord
  BY KernelAssumption
<1>2. ASSUME NEW stat \in StatRecord
      PROVE  [owner   |-> FileStat[f].uid,
              readers |-> infer_file_labels(stat).readers,
              writers |-> infer_file_labels(stat).writers] \in Row
  <2>1. infer_file_labels(stat) \in Label
    BY InferredIsLabel
  <2>2. QED
    BY <1>1, <2>1 DEF Label, Row, UserSet, BitSet, StatRecord
<1>3. ASSUME NEW stat \in StatRecord
      PROVE  [owner   |-> stat.uid,
              readers |-> infer_file_labels(stat).readers,
              writers |-> infer_file_labels(stat).writers] \in Row
  <2>1. infer_file_labels(stat) \in Label
    BY InferredIsLabel
  <2>2. QED
    BY <2>1 DEF Label, Row, UserSet, BitSet, StatRecord
<1>4. [FileStat[f] EXCEPT !.uid = NoUser] \in StatRecord
  BY <1>1 DEF StatRecord
<1>5. ASSUME NEW m \in UserSet
      PROVE  [FileStat[f] EXCEPT !.members = m] \in StatRecord
  BY <1>1 DEF StatRecord
<1>6. FileStat[f].members \in UserSet
  BY <1>1 DEF StatRecord
<1>7. QED
  BY <1>3, <1>4, <1>5, <1>6 DEF InferredObjects

-----------------------------------------------------------------------------
(* The inductive invariant *)

Quiet == ~warned /\ slips = {}

\* Rows of processes name their user; those of files have the inferred label, or none.
RowsAreRight ==
  /\ ~HostAdded => DOMAIN subjects = {}
  /\ \A s \in DOMAIN subjects : subjects[s].owner \in {s[1], NoUser}
  /\ \A f \in DOMAIN objects :
       \/ objects[f].readers = ReadersOf(f)
       \/ objects[f].readers = {} /\ objects[f].writers = {}

\* A process that knows something has a row that covers it, or is yet to get one.
KnowledgeIsCovered ==
  \A p \in Pids :
    /\ ~Live(p) => know[p] = {}
    /\ know[p] # {} /\ phase # "gone" => Sid(p) \in DOMAIN subjects \/ AwaitsCheck(p)
    /\ Sid(p) \in DOMAIN subjects =>
         \A g \in know[p] : subjects[Sid(p)].readers \subseteq ReadersOf(g)

\* Until its clone_check a child has no row, and nothing but what its parent knows.
ChildrenWait ==
  \A q \in Pids : Cloning(q) =>
    /\ ~AwaitsCheck(q)
    /\ <<uid[q], on[q]>> \notin DOMAIN subjects
    /\ \A r \in Pids : Cloning(r) /\ on[r] = on[q] => r = q
    /\ Live(on[q]) => uid[on[q]] = uid[q] /\ know[on[q]] \subseteq know[q]

\* Between its check and its data, a call may go on.
CallsAreChecked ==
  \A p \in Pids :
    /\ pc[p] = "read" => /\ Sid(p) \in DOMAIN subjects
                         /\ subjects[Sid(p)].readers \subseteq ReadersOf(on[p])
                         /\ uid[p] \in ReadersOf(on[p])
    /\ pc[p] = "write" => \A g \in know[p] : ReadersOf(on[p]) \subseteq ReadersOf(g)
    /\ phase = "gone" => pc[p] \in {"idle", "free"}

NoLeaks ==
  \A g \in Files :
    /\ \A p \in Pids : g \in know[p] => uid[p] \in ReadersOf(g)
    /\ \A f \in Files : g \in content[f] => ReadersOf(f) \subseteq ReadersOf(g)

Core == RowsAreRight /\ KnowledgeIsCovered /\ ChildrenWait /\ CallsAreChecked /\ NoLeaks

KernelInv == TypeOK /\ (Quiet => Core)

-----------------------------------------------------------------------------
(* Types, and the tables across each action *)

PCs == {"free", "idle", "cloned", "adding", "hostless", "opened", "labelling", "read", "write"}

\* The calls that are on a file.
InFile == {"opened", "labelling", "read", "write"}

ProcessesOK ==
  /\ pc \in [Pids -> PCs]
  /\ uid \in [Pids -> Users \cup {NoUser}]
  /\ on \in [Pids -> Pids \cup Files]
  /\ \A p \in Pids :
       /\ Live(p) <=> uid[p] \in Users
       /\ pc[p] \in InFile => on[p] \in Files
       /\ pc[p] \notin InFile => on[p] \in Pids
  /\ know \in [Pids -> SUBSET Files] /\ content \in [Files -> SUBSET Files]
  /\ warned \in BOOLEAN
  /\ slips \subseteq {"early", "reuse", "race", "group", "unload"}

RowsRise ==
  /\ \A s \in DOMAIN subjects :
       s \in DOMAIN subjects' /\ FlowsTo(subjects[s], subjects'[s])
  /\ \A f \in DOMAIN objects :
       f \in DOMAIN objects' /\ objects'[f] = objects[f]

KernelStep == TypeOK' /\ (phase' # "gone" /\ "race" \notin slips' => RowsRise)

LEMMA TypeParts ==
  TypeOK <=> /\ phase \in Phases
             /\ phase \in {"groups", "loaded", "unhooked"} => known = Users
             /\ TablesOK /\ ProcessesOK
  BY DEF TypeOK, TablesOK, ProcessesOK, PCs, InFile

LEMMA RacedStep ==
  ASSUME TypeOK, TablesOK', ProcessesOK', phase' = phase, known' = known, "race" \in slips'
  PROVE  KernelStep
  BY TypeParts DEF KernelStep, TypeOK, TablesOK, ProcessesOK, PCs, InFile

LEMMA CallStep ==
  ASSUME TypeOK, TableStep, ProcessesOK', phase' = phase
  PROVE  KernelStep
  BY TypeParts DEF TableStep, KernelStep, RowsRise, TypeOK, TablesOK, ProcessesOK, PCs, InFile

LEMMA InitType == Init => TypeOK
<1>1. SUFFICES ASSUME Init PROVE TypeOK
  OBVIOUS
<1>2. phase \in Phases /\ phase \notin {"groups", "loaded", "unhooked"}
  BY <1>1 DEF Init, Phases
<1>3. TablesOK
  BY <1>1 DEF Init, TablesOK
<1>4. ProcessesOK
  <2>1. \A p \in Started : User[p] \in Users
    BY KernelAssumption
  <2>2. /\ pc = [p \in Pids |-> IF p \in Started THEN "idle" ELSE "free"]
        /\ uid = [p \in Pids |-> IF p \in Started THEN User[p] ELSE NoUser]
        /\ on = [p \in Pids |-> p]
    BY <1>1 DEF Init
  <2>3. /\ know \in [Pids -> SUBSET Files] /\ content \in [Files -> SUBSET Files]
        /\ warned \in BOOLEAN /\ slips = {}
    BY <1>1 DEF Init
  <2>4. QED
    BY <2>1, <2>2, <2>3, NoUserAssumption DEF ProcessesOK, PCs, InFile, Live
<1>5. QED
  BY <1>2, <1>3, <1>4, TypeParts

LEMMA LoadStep ==
  ASSUME TypeOK,
         \/ replace_syscalls \/ add_all_hosts \/ add_all_groups
         \/ \E u \in Users : add_user_id(u)
         \/ restore_syscalls
  PROVE  KernelStep
<1>1. /\ UNCHANGED <<subjects, objects, processes>>
      /\ slips' \subseteq slips \cup {"race"}
  BY DEF replace_syscalls, add_all_hosts, add_all_groups, add_user_id, restore_syscalls, tables,
         SlipOfLoading
<1>2. ProcessesOK'
  BY <1>1, TypeParts DEF processes, ProcessesOK, PCs, InFile, Live
<1>3. /\ phase' \in Phases /\ known' \subseteq Users
      /\ phase' \in {"groups", "loaded", "unhooked"} => known' = Users
  BY DEF TypeOK, Phases, replace_syscalls, add_all_hosts, add_all_groups, add_user_id,
         restore_syscalls, tables
<1>4. TablesOK'
  BY <1>1, <1>3 DEF TypeOK, TablesOK
<1>5. RowsRise
  BY <1>1 DEF RowsRise, FlowsTo
<1>6. TypeOK'
  BY <1>2, <1>3, <1>4 DEF TypeOK, TablesOK, ProcessesOK, PCs, InFile
<1>7. QED
  BY <1>5, <1>6 DEF KernelStep

LEMMA UnloadStep ==
  ASSUME TypeOK, release_memory
  PROVE  KernelStep
<1>1. /\ phase' = "gone" /\ known' = {} /\ UNCHANGED processes
      /\ subjects' = [s \in {} |-> {}] /\ objects' = [f \in {} |-> {}]
      /\ slips' \subseteq {"early", "reuse", "race", "group", "unload"}
  BY DEF release_memory, TypeOK
<1>2. ProcessesOK'
  BY <1>1, TypeParts DEF processes, ProcessesOK, PCs, InFile, Live
<1>3. TablesOK'
  BY <1>1 DEF TablesOK
<1>4. TypeOK'
  BY <1>1, <1>2, <1>3 DEF TypeOK, TablesOK, ProcessesOK, PCs, InFile, Phases
<1>5. QED
  BY <1>1, <1>4 DEF KernelStep

\* The process is back from its call, or has no file to do with.
LEMMA IdleAgain ==
  ASSUME ProcessesOK, NEW p \in Pids, Live(p), NEW what \in Pids,
         NEW call \in PCs \ (InFile \cup {"free"}), Go(p, call, what), uid' = uid
  PROVE  /\ pc' \in [Pids -> PCs]
         /\ on' \in [Pids -> Pids \cup Files]
         /\ \A r \in Pids :
              /\ (pc'[r] # "free") <=> uid'[r] \in Users
              /\ pc'[r] \in InFile => on'[r] \in Files
              /\ pc'[r] \notin InFile => on'[r] \in Pids
  BY DEF ProcessesOK, PCs, InFile, Go, Live

\* The process goes into a call on a file.
LEMMA IntoCall ==
  ASSUME ProcessesOK, NEW p \in Pids, Live(p), NEW f \in Files,
         NEW call \in InFile, Go(p, call, f), uid' = uid
  PROVE  /\ pc' \in [Pids -> PCs]
         /\ on' \in [Pids -> Pids \cup Files]
         /\ \A r \in Pids :
              /\ (pc'[r] # "free") <=> uid'[r] \in Users
              /\ pc'[r] \in InFile => on'[r] \in Files
              /\ pc'[r] \notin InFile => on'[r] \in Pids
  BY DEF ProcessesOK, PCs, InFile, Go, Live

LEMMA CloneStep ==
  ASSUME TypeOK, NEW p \in Pids, NEW c \in Pids, Clone(p, c)
  PROVE  KernelStep
<1>1. ProcessesOK
  BY TypeParts
<1>2. uid[p] \in Users /\ p # c
  BY <1>1 DEF ProcessesOK, PCs, InFile, Clone, Live
<1>3. ProcessesOK'
  BY <1>1, <1>2 DEF ProcessesOK, PCs, InFile, Clone, Live
<1>4. TableStep
  BY TypeParts, TablesUnchanged DEF Clone
<1>5. QED
  BY <1>3, <1>4, CallStep DEF Clone

LEMMA CloneCheckStep ==
  ASSUME TypeOK, NEW p \in Pids, CloneCheck(p)
  PROVE  KernelStep
<1>1. ProcessesOK /\ TablesOK
  BY TypeParts
<1>2. on[p] \in Pids /\ Live(p)
  BY <1>1 DEF ProcessesOK, PCs, InFile, CloneCheck, Live
<1>3. /\ UNCHANGED <<phase, tables, uid, know, content, warned, slips>>
      /\ \/ Go(p, "hostless", p) \/ Go(p, "idle", p) \/ Go(p, "adding", on[p])
  BY DEF CloneCheck
<1>4. ProcessesOK'
  <2>1. {"hostless", "idle", "adding"} \subseteq PCs \ (InFile \cup {"free"})
    BY DEF PCs, InFile
  <2>2. QED
    BY <1>1, <1>2, <1>3, <2>1, IdleAgain DEF ProcessesOK, Live
<1>5. QED
  BY <1>1, <1>3, <1>4, TablesUnchanged, CallStep

LEMMA AddSubjectTypeStep ==
  ASSUME TypeOK, NEW p \in Pids, AddSubject(p)
  PROVE  KernelStep
<1>1. ProcessesOK /\ TablesOK
  BY TypeParts
<1>2. uid[p] \in Users /\ on[p] \in Pids /\ Live(p)
  BY <1>1 DEF ProcessesOK, PCs, InFile, AddSubject, Live
<1>3. /\ Go(p, "idle", p) /\ UNCHANGED <<phase, known, objects, uid, know, content, warned>>
      /\ slips' \subseteq slips \cup {"race"}
  BY DEF AddSubject
<1>4. ProcessesOK'
  <2>1. "idle" \in PCs \ (InFile \cup {"free"})
    BY DEF PCs, InFile
  <2>2. QED
    BY <1>1, <1>2, <1>3, <2>1, IdleAgain DEF ProcessesOK, Live
<1> DEFINE added == clone_check(uid[p], on[p], p)
<1>5. subjects' = added => TableStep
  <2>1. CASE HostAdded
    <3>1. ClonedSubject(uid[p], p) \in Row /\ <<uid[p], on[p]>> \in Users \X Pids
      BY <1>1, <1>2, ClonedRow
    <3>2. QED
      BY <1>1, <1>3, <2>1, <3>1, AddSubjectStep DEF clone_check
  <2>2. CASE ~HostAdded
    BY <1>1, <1>3, <2>2, TablesUnchanged DEF clone_check, tables
  <2>3. QED
    BY <2>1, <2>2
<1>6. DOMAIN added \subseteq Users \X Pids /\ added \in [DOMAIN added -> Row]
  <2>1. ClonedSubject(uid[p], p) \in Row
    BY <1>1, <1>2, ClonedRow
  <2>2. QED
    BY <1>1, <1>2, <2>1 DEF clone_check, AddedRow, TablesOK
<1>7. CASE subjects' = added /\ slips' = slips
  BY <1>3, <1>4, <1>5, <1>7, CallStep
<1> HIDE DEF added
<1>8. CASE subjects' \in Damaged(added) /\ "race" \in slips'
  <2>1. DOMAIN subjects' \subseteq DOMAIN added /\ subjects' \in [DOMAIN subjects' -> Row]
    BY <1>6, <1>8, DamagedTable
  <2>2. TablesOK'
    BY <1>1, <1>3, <1>6, <2>1 DEF TablesOK
  <2>3. QED
    BY <1>3, <1>4, <1>8, <2>2, RacedStep
<1>9. QED
  BY <1>7, <1>8 DEF AddSubject, added

LEMMA AddHostlessStep ==
  ASSUME TypeOK, NEW p \in Pids, AddHostless(p)
  PROVE  KernelStep
<1>1. ProcessesOK /\ TablesOK /\ Live(p)
  BY TypeParts DEF AddHostless, Live
<1>2. Go(p, "idle", p) /\ UNCHANGED <<phase, tables, uid, know, content, warned, slips>>
  BY DEF AddHostless
<1>3. "idle" \in PCs \ (InFile \cup {"free"})
  BY DEF PCs, InFile
<1>4. ProcessesOK'
  BY <1>1, <1>2, <1>3, IdleAgain DEF ProcessesOK, Live
<1>5. QED
  BY <1>1, <1>2, <1>4, TablesUnchanged, CallStep

LEMMA OpenStep ==
  ASSUME TypeOK, NEW p \in Pids, NEW f \in Files, Open(p, f)
  PROVE  KernelStep
<1>1. ProcessesOK /\ TablesOK /\ Live(p)
  BY TypeParts DEF Open, Live
<1>2. Go(p, "opened", f) /\ UNCHANGED <<phase, tables, uid, know, content, warned, slips>>
  BY DEF Open
<1>3. ProcessesOK'
  BY <1>1, <1>2, IntoCall DEF ProcessesOK, PCs, InFile, Live
<1>4. QED
  BY <1>1, <1>2, <1>3, TablesUnchanged, CallStep

LEMMA OpenCheckStep ==
  ASSUME TypeOK, NEW p \in Pids, OpenCheck(p)
  PROVE  KernelStep
<1>1. ProcessesOK /\ TablesOK /\ Live(p)
  BY TypeParts DEF OpenCheck, Live
<1>2. on[p] \in Files
  BY <1>1 DEF ProcessesOK, PCs, InFile, OpenCheck
<1>3. /\ UNCHANGED <<phase, tables, uid, know, content, warned, slips>>
      /\ \/ Go(p, "hostless", p) \/ Go(p, "idle", p) \/ Go(p, "labelling", on[p])
  BY DEF OpenCheck
<1>4. ProcessesOK'
  <2>1. {"hostless", "idle"} \subseteq PCs \ (InFile \cup {"free"}) /\ "labelling" \in InFile
    BY DEF PCs, InFile
  <2>2. QED
    BY <1>1, <1>2, <1>3, <2>1, IdleAgain, IntoCall DEF ProcessesOK, Live
<1>5. QED
  BY <1>1, <1>3, <1>4, TablesUnchanged, CallStep

LEMMA AddObjectTypeStep ==
  ASSUME TypeOK, NEW p \in Pids, AddObject(p)
  PROVE  KernelStep
<1>1. ProcessesOK /\ TablesOK /\ Live(p)
  BY TypeParts DEF AddObject, Live
<1>2. on[p] \in Files
  BY <1>1 DEF ProcessesOK, PCs, InFile, AddObject
<1>3. /\ Go(p, "idle", p) /\ UNCHANGED <<phase, known, subjects, uid, know, content, warned>>
      /\ slips' \subseteq slips \cup {"group", "race"}
  BY DEF AddObject
<1>4. ProcessesOK'
  <2>1. "idle" \in PCs \ (InFile \cup {"free"})
    BY DEF PCs, InFile
  <2>2. QED
    BY <1>1, <1>3, <2>1, IdleAgain DEF ProcessesOK, Live
<1>5. PICK row \in InferredObjects(on[p]) :
        \/ objects' = file_open_check(on[p], row)
        \/ objects' \in Damaged(file_open_check(on[p], row)) /\ "race" \in slips'
  BY DEF AddObject
<1>6. row \in Row
  BY <1>2, InferredRow
<1> DEFINE added == file_open_check(on[p], row)
<1>7. objects' = added => TableStep
  <2>1. CASE HostAdded
    BY <1>1, <1>2, <1>3, <1>6, <2>1, AddObjectStep DEF file_open_check
  <2>2. CASE ~HostAdded
    BY <1>1, <1>3, <2>2, TablesUnchanged DEF file_open_check, tables
  <2>3. QED
    BY <2>1, <2>2
<1>8. DOMAIN added \subseteq Files /\ added \in [DOMAIN added -> Row]
  BY <1>1, <1>2, <1>6 DEF file_open_check, AddedRow, TablesOK
<1>9. CASE objects' = added
  BY <1>3, <1>4, <1>7, <1>9, CallStep
<1> HIDE DEF added
<1>10. CASE objects' \in Damaged(added) /\ "race" \in slips'
  <2>1. DOMAIN objects' \subseteq DOMAIN added /\ objects' \in [DOMAIN objects' -> Row]
    BY <1>8, <1>10, DamagedTable
  <2>2. TablesOK'
    BY <1>1, <1>3, <1>8, <2>1 DEF TablesOK
  <2>3. QED
    BY <1>3, <1>4, <1>10, <2>2, RacedStep
<1>11. QED
  BY <1>5, <1>9, <1>10 DEF added

LEMMA OpenFaultStep ==
  ASSUME TypeOK, NEW p \in Pids, OpenFault(p)
  PROVE  KernelStep
<1>1. ProcessesOK /\ TablesOK
  BY TypeParts
<1>2. on[p] \in Files
  BY <1>1 DEF ProcessesOK, PCs, InFile, OpenFault
<1>3. Die(p) /\ UNCHANGED <<phase, known, subjects, content, warned>> /\ slips' = slips \cup {"group"}
  BY DEF OpenFault
<1>4. ProcessesOK'
  BY <1>1, <1>3, NoUserAssumption DEF ProcessesOK, PCs, InFile, Die, Live
<1>5. PICK row \in Garbage : objects' = AddedRow(objects, on[p], row)
  BY DEF OpenFault
<1>6. row \in Row
  BY KernelAssumption
<1>7. TableStep
  BY <1>1, <1>2, <1>3, <1>5, <1>6, AddObjectStep
<1>8. QED
  BY <1>3, <1>4, <1>7, CallStep

LEMMA ExitStep ==
  ASSUME TypeOK, NEW p \in Pids, Exit(p)
  PROVE  KernelStep
<1>1. ProcessesOK /\ TablesOK
  BY TypeParts
<1>2. Die(p) /\ UNCHANGED <<phase, tables, content, warned, slips>>
  BY DEF Exit
<1>3. ProcessesOK'
  BY <1>1, <1>2, NoUserAssumption DEF ProcessesOK, PCs, InFile, Die, Live
<1>4. QED
  BY <1>1, <1>2, <1>3, TablesUnchanged, CallStep

LEMMA ReadCheckTables ==
  ASSUME TablesOK, NEW s, NEW f, NEW ret, file_read_check(s, f, ret)
  PROVE  TableStep
<1>1. CASE UNCHANGED tables
  BY <1>1, TablesUnchanged
<1>2. CASE Known(s, f) /\ subjects' = [subjects EXCEPT ![s] = Raise(@, objects[f])]
             /\ UNCHANGED <<known, objects>>
  <2>1. subjects[s] \in Row /\ objects[f] \in Row /\ s \in DOMAIN subjects
    BY <1>2 DEF Known, TablesOK
  <2>2. Raise(subjects[s], objects[f]) \in Row /\ FlowsTo(subjects[s], Raise(subjects[s], objects[f]))
    BY <2>1, RaiseRow
  <2>3. /\ DOMAIN subjects' = DOMAIN subjects
        /\ subjects'[s] = Raise(subjects[s], objects[f])
        /\ \A t \in DOMAIN subjects : t # s => subjects'[t] = subjects[t]
    BY <1>2, <2>1
  <2>4. subjects' \in [DOMAIN subjects -> Row]
    BY <1>2, <2>2, <2>3 DEF TablesOK
  <2>5. \A t \in DOMAIN subjects : FlowsTo(subjects[t], subjects'[t])
    <3>1. TAKE t \in DOMAIN subjects
    <3>2. CASE t = s
      BY <2>2, <2>3, <3>2
    <3>3. CASE t # s
      BY <2>3, <3>3 DEF FlowsTo
    <3>4. QED
      BY <3>2, <3>3
  <2>6. QED
    BY <1>2, <2>3, <2>4, <2>5 DEF TablesOK, TableStep
<1>3. QED
  BY <1>1, <1>2 DEF file_read_check

LEMMA ReadStep ==
  ASSUME TypeOK, NEW p \in Pids, NEW f \in Files, Read(p, f)
  PROVE  KernelStep
<1>1. ProcessesOK /\ TablesOK /\ Live(p)
  BY TypeParts DEF Read, Live
<1>2. /\ Go(p, "read", f) /\ UNCHANGED <<phase, uid, know, content>> /\ warned' \in BOOLEAN
      /\ slips' \subseteq slips \cup {"race"}
  BY <1>1 DEF Read, ProcessesOK
<1>3. ProcessesOK'
  <2>1. "read" \in InFile
    BY DEF InFile
  <2>2. QED
    BY <1>1, <1>2, <2>1, IntoCall DEF ProcessesOK, Live
<1>4. CASE \E ret \in Results : file_read_check(Sid(p), f, ret)
  BY <1>1, <1>2, <1>3, <1>4, ReadCheckTables, CallStep
<1>5. CASE subjects' \in Damaged(subjects) /\ UNCHANGED <<known, objects>> /\ "race" \in slips'
  <2>1. DOMAIN subjects' \subseteq DOMAIN subjects /\ subjects' \in [DOMAIN subjects' -> Row]
    BY <1>1, <1>5, DamagedTable DEF TablesOK
  <2>2. TablesOK'
    BY <1>1, <1>5, <2>1 DEF TablesOK
  <2>3. QED
    BY <1>2, <1>3, <1>5, <2>2, RacedStep
<1>6. QED
  BY <1>4, <1>5 DEF Read

LEMMA WriteStep ==
  ASSUME TypeOK, NEW p \in Pids, NEW f \in Files, Write(p, f)
  PROVE  KernelStep
<1>1. ProcessesOK /\ TablesOK /\ Live(p)
  BY TypeParts DEF Write, Live
<1>2. /\ Go(p, "write", f) /\ UNCHANGED <<phase, tables, uid, know, content>>
      /\ warned' \in BOOLEAN /\ slips' \subseteq slips \cup {"race"}
  BY <1>1 DEF Write, file_write_check, ProcessesOK
<1>3. ProcessesOK'
  <2>1. "write" \in InFile
    BY DEF InFile
  <2>2. QED
    BY <1>1, <1>2, <2>1, IntoCall DEF ProcessesOK, Live
<1>4. QED
  BY <1>1, <1>2, <1>3, TablesUnchanged, CallStep

LEMMA ReadDataStep ==
  ASSUME TypeOK, NEW p \in Pids, ReadData(p)
  PROVE  KernelStep
<1>1. ProcessesOK /\ TablesOK /\ Live(p) /\ on[p] \in Files
  BY TypeParts DEF ReadData, Live, ProcessesOK, PCs, InFile
<1>2. /\ Go(p, "idle", p) /\ UNCHANGED <<phase, tables, uid, content, warned, slips>>
      /\ know' = [know EXCEPT ![p] = @ \cup content[on[p]]]
  BY DEF ReadData
<1>3. know' \in [Pids -> SUBSET Files]
  BY <1>1, <1>2 DEF ProcessesOK, PCs, InFile
<1>4. ProcessesOK'
  BY <1>1, <1>2, <1>3, IdleAgain DEF ProcessesOK, PCs, InFile, Live
<1>5. QED
  BY <1>1, <1>2, <1>4, TablesUnchanged, CallStep

LEMMA WriteDataStep ==
  ASSUME TypeOK, NEW p \in Pids, WriteData(p)
  PROVE  KernelStep
<1>1. ProcessesOK /\ TablesOK /\ Live(p) /\ on[p] \in Files
  BY TypeParts DEF WriteData, Live, ProcessesOK, PCs, InFile
<1>2. /\ Go(p, "idle", p) /\ UNCHANGED <<phase, tables, uid, know, warned, slips>>
      /\ content' = [content EXCEPT ![on[p]] = @ \cup know[p]]
  BY DEF WriteData
<1>3. content' \in [Files -> SUBSET Files]
  BY <1>1, <1>2 DEF ProcessesOK, PCs, InFile
<1>4. ProcessesOK'
  BY <1>1, <1>2, <1>3, IdleAgain DEF ProcessesOK, PCs, InFile, Live
<1>5. QED
  BY <1>1, <1>2, <1>4, TablesUnchanged, CallStep

LEMMA NextStep == TypeOK /\ Next => KernelStep
  BY LoadStep, UnloadStep, CloneStep, CloneCheckStep, AddSubjectTypeStep, AddHostlessStep,
     OpenStep, OpenCheckStep, AddObjectTypeStep, OpenFaultStep, ExitStep, ReadStep, WriteStep,
     ReadDataStep, WriteDataStep DEF Next

\* A step that changes nothing.
LEMMA TypeStutter == TypeOK /\ UNCHANGED vars => TypeOK'
<1>1. SUFFICES ASSUME TypeOK, UNCHANGED vars PROVE TypeOK'
  OBVIOUS
<1>2. TableStep /\ phase' = phase
  BY <1>1, TypeParts, TablesUnchanged DEF vars
<1>3. ProcessesOK'
  BY <1>1, TypeParts DEF vars, ProcessesOK, PCs, InFile, Live
<1>4. QED
  BY <1>1, <1>2, <1>3, CallStep DEF KernelStep

\* The tables and the processes of the kernel module keep their types.
THEOREM KernelTypes == Spec => []TypeOK
<1>1. TypeOK /\ [Next]_vars => TypeOK'
  BY NextStep, TypeStutter DEF KernelStep
<1>2. QED
  BY InitType, <1>1, PTL DEF Spec

(***************************************************************************)
(* The kernel module lowers no label of a process, and changes none of a   *)
(* file, until it is unloaded or a check goes wrong because it overlapped  *)
(* one that was copying the tables.                                        *)
(***************************************************************************)
THEOREM KernelRowsOnlyRise == Spec => RowsOnlyRise
<1>1. TypeOK /\ [Next]_vars =>
        [phase' # "gone" /\ "race" \notin slips' =>
           /\ \A s \in DOMAIN subjects :
                s \in DOMAIN subjects' /\ FlowsTo(subjects[s], subjects'[s])
           /\ \A f \in DOMAIN objects :
                f \in DOMAIN objects' /\ objects'[f] = objects[f]]_vars
  BY NextStep DEF KernelStep, RowsRise
<1>2. QED
  BY KernelTypes, <1>1, PTL DEF Spec, RowsOnlyRise

-----------------------------------------------------------------------------
(* Warnings: the inductive step, one action at a time *)

LEMMA InitCore == Init => Core
<1>1. SUFFICES ASSUME Init PROVE Core
  OBVIOUS
<1>2. /\ phase = "absent" /\ DOMAIN subjects = {} /\ DOMAIN objects = {}
      /\ know = [p \in Pids |-> {}] /\ content = [f \in Files |-> {f}]
      /\ \A p \in Pids : pc[p] \in {"idle", "free"}
  BY <1>1 DEF Init
<1>3. QED
  BY <1>2 DEF Core, RowsAreRight, KnowledgeIsCovered, ChildrenWait, CallsAreChecked, NoLeaks, Cloning

\* A warning is not taken back, and neither is a slip.
LEMMA QuietBefore == TypeOK /\ Next /\ Quiet' => Quiet
<1>1. SUFFICES ASSUME TypeOK, Next PROVE slips \subseteq slips' /\ (warned => warned')
  BY DEF Quiet, TypeOK
<1>2. CASE \/ replace_syscalls \/ add_all_hosts \/ add_all_groups
           \/ \E u \in Users : add_user_id(u)
           \/ restore_syscalls \/ release_memory
  BY <1>2 DEF replace_syscalls, add_all_hosts, add_all_groups, add_user_id, restore_syscalls,
              release_memory, processes, SlipOfLoading
<1>3. CASE \E p, q \in Pids : Clone(p, q)
  BY <1>3 DEF Clone
<1>4. CASE \E p \in Pids, f \in Files : Open(p, f) \/ Read(p, f) \/ Write(p, f)
  <2>1. ASSUME NEW p \in Pids, NEW f \in Files, Open(p, f)
        PROVE  slips' = slips /\ warned' = warned
    BY <2>1 DEF Open
  <2>2. ASSUME NEW p \in Pids, NEW f \in Files, Read(p, f)
        PROVE  slips \subseteq slips' /\ (warned => warned')
    <3>1. slips \subseteq slips'
      BY <2>2 DEF Read
    <3>2. (\E ret \in Results : warned' = (warned \/ ret # "allowed")) \/ warned' \in {warned, TRUE}
      BY <2>2 DEF Read
    <3>3. warned => warned'
      BY Zenon, <3>2
    <3>4. QED
      BY <3>1, <3>3
  <2>3. ASSUME NEW p \in Pids, NEW f \in Files, Write(p, f)
        PROVE  slips \subseteq slips' /\ (warned => warned')
    <3>1. slips \subseteq slips'
      BY <2>3 DEF Write
    <3>2. (\E ret \in Results : warned' = (warned \/ ret # "allowed")) \/ warned' \in {warned, TRUE}
      BY <2>3 DEF Write
    <3>3. warned => warned'
      BY Zenon, <3>2
    <3>4. QED
      BY <3>1, <3>3
  <2>4. QED
    BY <1>4, <2>1, <2>2, <2>3
<1>5. CASE \E p \in Pids : \/ CloneCheck(p) \/ AddSubject(p) \/ AddHostless(p)
                          \/ OpenCheck(p) \/ AddObject(p) \/ OpenFault(p)
  BY <1>5 DEF CloneCheck, AddSubject, AddHostless, OpenCheck, AddObject, OpenFault
<1>6. CASE \E p \in Pids : ReadData(p) \/ WriteData(p) \/ Exit(p)
  BY <1>6 DEF ReadData, WriteData, Exit
<1>7. QED
  BY <1>1, <1>2, <1>3, <1>4, <1>5, <1>6 DEF Next

LEMMA LoadCore ==
  ASSUME TypeOK, Core,
         \/ replace_syscalls \/ add_all_hosts \/ add_all_groups
         \/ \E u \in Users : add_user_id(u)
         \/ restore_syscalls
  PROVE  Core'
<1>1. /\ UNCHANGED <<subjects, objects, pc, uid, on, know, content>>
      /\ HostAdded => HostAdded'
      /\ phase # "gone" /\ phase' # "gone"
  BY DEF replace_syscalls, add_all_hosts, add_all_groups, add_user_id, restore_syscalls,
         processes, tables, HostAdded
<1>2. /\ \A p : AwaitsCheck(p)' <=> AwaitsCheck(p)
      /\ \A p : Live(p)' <=> Live(p)
      /\ \A p : Sid(p)' = Sid(p)
  BY <1>1 DEF AwaitsCheck, Live, Sid, Cloning
<1>3. RowsAreRight /\ KnowledgeIsCovered /\ ChildrenWait /\ CallsAreChecked /\ NoLeaks
  BY DEF Core
<1>4. RowsAreRight'
  BY <1>1, <1>3 DEF RowsAreRight
<1>5. KnowledgeIsCovered'
  BY <1>1, <1>2, <1>3 DEF KnowledgeIsCovered
<1>6. ChildrenWait'
  BY <1>1, <1>3 DEF ChildrenWait, AwaitsCheck, Live, Cloning
<1>7. CallsAreChecked'
  BY <1>1, <1>2, <1>3 DEF CallsAreChecked
<1>8. NoLeaks'
  BY <1>1, <1>3 DEF NoLeaks
<1>9. QED
  BY <1>4, <1>5, <1>6, <1>7, <1>8 DEF Core

LEMMA UnloadCore ==
  ASSUME TypeOK, Core, release_memory, Quiet'
  PROVE  Core'
<1>1. /\ UNCHANGED <<pc, uid, on, know, content>> /\ phase' = "gone"
      /\ DOMAIN subjects' = {} /\ DOMAIN objects' = {}
  BY DEF release_memory, processes
<1>2. \A p \in Pids : pc[p] \in {"idle", "free"}
  BY DEF release_memory, Quiet
<1>3. RowsAreRight' /\ KnowledgeIsCovered' /\ NoLeaks'
  BY <1>1 DEF Core, RowsAreRight, KnowledgeIsCovered, NoLeaks, Live
<1>4. ChildrenWait' /\ CallsAreChecked'
  BY <1>1, <1>2 DEF ChildrenWait, CallsAreChecked, Cloning
<1>5. QED
  BY <1>3, <1>4 DEF Core

(***************************************************************************)
(* What a process does in calls on files is nothing to those who clone.    *)
(***************************************************************************)
LEMMA CallFrame ==
  ASSUME ProcessesOK, NEW p \in Pids, pc[p] \notin {"free", "cloned", "adding"},
         NEW call, call \notin {"free", "cloned", "adding"}, NEW what, Go(p, call, what), uid' = uid
  PROVE  /\ \A r \in Pids : /\ Live(r)' <=> Live(r)
                            /\ AwaitsCheck(r)' <=> AwaitsCheck(r)
                            /\ Sid(r)' = Sid(r)
                            /\ Cloning(r)' <=> Cloning(r)
                            /\ r # p \/ Cloning(r) => pc'[r] = pc[r] /\ on'[r] = on[r]
         /\ pc'[p] = call /\ on'[p] = what
<1>1. /\ pc'[p] = call /\ on'[p] = what
      /\ \A r \in Pids : r # p => pc'[r] = pc[r] /\ on'[r] = on[r]
  BY DEF ProcessesOK, PCs, InFile, Go
<1>2. \A r \in Pids : /\ Cloning(r)' <=> Cloning(r)
                      /\ r # p \/ Cloning(r) => pc'[r] = pc[r] /\ on'[r] = on[r]
                      /\ Live(r)' <=> Live(r)
  BY <1>1 DEF Live, Cloning
<1>3. \A r \in Pids : AwaitsCheck(r)' <=> AwaitsCheck(r)
  BY <1>2 DEF AwaitsCheck
<1>4. \A r \in Pids : Sid(r)' = Sid(r)
  BY DEF Sid
<1>5. QED
  BY <1>1, <1>2, <1>3, <1>4

\* The parents and the children that wait are as they were.
LEMMA ChildrenFrame ==
  ASSUME ProcessesOK, ChildrenWait, DOMAIN subjects' = DOMAIN subjects,
         uid' = uid,
         \A r \in Pids : /\ Live(r)' <=> Live(r)
                         /\ AwaitsCheck(r)' <=> AwaitsCheck(r)
                         /\ Cloning(r)' <=> Cloning(r)
                         /\ Cloning(r) =>
                              on'[r] = on[r] /\ know'[r] = know[r] /\ know'[on[r]] = know[on[r]]
  PROVE  ChildrenWait'
<1>1. SUFFICES ASSUME NEW q \in Pids, Cloning(q)'
               PROVE  /\ ~AwaitsCheck(q)'
                      /\ <<uid'[q], on'[q]>> \notin DOMAIN subjects'
                      /\ \A r \in Pids : Cloning(r)' /\ on'[r] = on'[q] => r = q
                      /\ Live(on[q])' => uid'[on'[q]] = uid'[q] /\ know'[on'[q]] \subseteq know'[q]
  BY DEF ChildrenWait, Live, AwaitsCheck
<1>2. Cloning(q) /\ on[q] \in Pids
  BY <1>1 DEF ProcessesOK, PCs, InFile, Cloning
<1>3. QED
  BY <1>2 DEF ChildrenWait

\* The tables are as they were, and the call is one that CallsAreChecked allows.
LEMMA CallCore ==
  ASSUME TypeOK, Core, NEW p \in Pids, pc[p] \notin {"free", "cloned", "adding"},
         NEW call \in {"idle", "opened", "labelling", "hostless", "read", "write"}, NEW what, Go(p, call, what),
         UNCHANGED <<phase, subjects, uid, know, content>>,
         RowsAreRight',
         call # "idle" => phase # "gone",
         call = "read" => /\ Sid(p) \in DOMAIN subjects
                          /\ subjects[Sid(p)].readers \subseteq ReadersOf(what)
                          /\ uid[p] \in ReadersOf(what),
         call = "write" => \A g \in know[p] : ReadersOf(what) \subseteq ReadersOf(g)
  PROVE  Core'
<1>1. ProcessesOK
  BY TypeParts
<1>2. /\ \A r \in Pids : /\ Live(r)' <=> Live(r)
                         /\ AwaitsCheck(r)' <=> AwaitsCheck(r)
                         /\ Sid(r)' = Sid(r)
                         /\ Cloning(r)' <=> Cloning(r)
                         /\ r # p \/ Cloning(r) => pc'[r] = pc[r] /\ on'[r] = on[r]
      /\ pc'[p] = call /\ on'[p] = what
  BY <1>1, CallFrame
<1>3. KnowledgeIsCovered /\ ChildrenWait /\ CallsAreChecked /\ NoLeaks
  BY DEF Core
<1>4. KnowledgeIsCovered'
  BY <1>2, <1>3 DEF KnowledgeIsCovered
<1>5. ChildrenWait'
  BY <1>1, <1>2, <1>3, ChildrenFrame
<1>6. CallsAreChecked'
  <2>1. ASSUME NEW r \in Pids
        PROVE  /\ pc'[r] = "read" => /\ Sid(r)' \in DOMAIN subjects'
                                     /\ subjects'[Sid(r)'].readers \subseteq ReadersOf(on'[r])
                                     /\ uid'[r] \in ReadersOf(on'[r])
               /\ pc'[r] = "write" => \A g \in know'[r] : ReadersOf(on'[r]) \subseteq ReadersOf(g)
               /\ phase' = "gone" => pc'[r] \in {"idle", "free"}
    <3>1. CASE r = p
      BY <1>2, <3>1
    <3>2. CASE r # p
      BY <1>2, <1>3, <3>2 DEF CallsAreChecked
    <3>3. QED
      BY <3>1, <3>2
  <2>2. QED
    BY <2>1 DEF CallsAreChecked
<1>7. NoLeaks'
  BY <1>3 DEF NoLeaks
<1>8. QED
  BY <1>4, <1>5, <1>6, <1>7 DEF Core

LEMMA OpenCore ==
  ASSUME TypeOK, Core, NEW p \in Pids, NEW f \in Files, Open(p, f)
  PROVE  Core'
<1>1. /\ Go(p, "opened", f) /\ UNCHANGED <<phase, subjects, uid, know, content>>
      /\ pc[p] \notin {"free", "cloned", "adding"} /\ phase # "gone"
  BY DEF Open, Hooked, tables
<1>2. RowsAreRight'
  BY DEF Open, Core, RowsAreRight, HostAdded, tables
<1>3. QED
  BY <1>1, <1>2, CallCore

\* The row of a file that is opened is right, or a slip.
LEMMA InferredReaders ==
  ASSUME TypeOK, NEW f \in Files, NEW row \in InferredObjects(f), HostAdded,
         phase = "groups" => row.readers = ReadersOf(f)
  PROVE  row.readers = ReadersOf(f) \/ (row.readers = {} /\ row.writers = {})
<1>1. FileStat[f] \in StatRecord
  BY KernelAssumption
<1>2. CASE FileStat[f].uid \notin known
  <2>1. row = [owner   |-> NoUser,
               readers |-> infer_file_labels([FileStat[f] EXCEPT !.uid = NoUser]).readers,
               writers |-> infer_file_labels([FileStat[f] EXCEPT !.uid = NoUser]).writers]
    BY <1>1, <1>2 DEF InferredObjects, StatRecord
  <2>2. infer_file_labels([FileStat[f] EXCEPT !.uid = NoUser]) = [readers |-> {}, writers |-> {}]
    BY <1>1 DEF infer_file_labels, StatRecord
  <2>3. QED
    BY <2>1, <2>2
<1>3. CASE FileStat[f].uid \in known /\ phase # "groups"
  <2>1. [FileStat[f] EXCEPT !.members = FileStat[f].members] = FileStat[f]
    BY <1>1 DEF StatRecord
  <2>2. PICK m \in {FileStat[f].members} :
          row = [owner   |-> [FileStat[f] EXCEPT !.members = m].uid,
                 readers |-> infer_file_labels([FileStat[f] EXCEPT !.members = m]).readers,
                 writers |-> infer_file_labels([FileStat[f] EXCEPT !.members = m]).writers]
    BY <1>3 DEF InferredObjects
  <2>3. QED
    BY <2>1, <2>2 DEF ReadersOf
<1>4. QED
  BY <1>2, <1>3

\* The object is not added yet.
LEMMA OpenCheckCore ==
  ASSUME TypeOK, Core, NEW p \in Pids, OpenCheck(p)
  PROVE  Core'
<1>1. /\ UNCHANGED <<phase, tables, uid, know, content>>
      /\ pc[p] = "opened"
      /\ \/ Go(p, "hostless", p) \/ Go(p, "idle", p) \/ Go(p, "labelling", on[p])
  BY DEF OpenCheck
<1>2. phase # "gone"
  BY <1>1 DEF Core, CallsAreChecked
<1>3. RowsAreRight' /\ subjects' = subjects
  BY <1>1 DEF Core, RowsAreRight, HostAdded, tables
<1>4. QED
  BY <1>1, <1>2, <1>3, CallCore

\* A file_open_check without a host ends like one that does nothing.
LEMMA AddHostlessCore ==
  ASSUME TypeOK, Core, NEW p \in Pids, AddHostless(p)
  PROVE  Core'
<1>1. /\ UNCHANGED <<phase, tables, uid, know, content>>
      /\ pc[p] = "hostless" /\ Go(p, "idle", p)
  BY DEF AddHostless
<1>2. RowsAreRight' /\ subjects' = subjects
  BY <1>1 DEF Core, RowsAreRight, HostAdded, tables
<1>3. QED
  BY <1>1, <1>2, CallCore

LEMMA AddObjectCore ==
  ASSUME TypeOK, Core, NEW p \in Pids, AddObject(p), Quiet'
  PROVE  Core'
<1>1. /\ Go(p, "idle", p) /\ UNCHANGED <<phase, subjects, uid, know, content>>
      /\ pc[p] \notin {"free", "cloned", "adding"} /\ on[p] \in Files
  BY TypeParts DEF AddObject, ProcessesOK, PCs, InFile
<1>2. RowsAreRight
  BY DEF Core
<1>3. RowsAreRight'
  <2>1. CASE objects' = objects
    BY <1>1, <1>2, <2>1 DEF RowsAreRight, HostAdded
  <2>2. CASE objects' # objects
    <3>1. PICK row \in InferredObjects(on[p]) :
            /\ objects' = file_open_check(on[p], row)
            /\ slips' = IF phase = "groups" /\ row.readers # ReadersOf(on[p])
                          THEN slips \cup {"group"} ELSE slips
      BY DEF AddObject, Quiet
    <3>2. /\ HostAdded /\ objects' = AddedRow(objects, on[p], row)
          /\ phase = "groups" => row.readers = ReadersOf(on[p])
      BY <2>2, <3>1 DEF file_open_check, Quiet
    <3>3. row.readers = ReadersOf(on[p]) \/ (row.readers = {} /\ row.writers = {})
      BY <1>1, <3>2, InferredReaders
    <3>4. \A f \in DOMAIN objects' : \/ f \in DOMAIN objects /\ objects'[f] = objects[f]
                                     \/ f = on[p] /\ objects'[f] = row
      BY <3>2 DEF AddedRow
    <3>5. HostAdded'
      BY <1>1, <3>2 DEF HostAdded
    <3>6. QED
      BY <1>1, <1>2, <3>3, <3>4, <3>5 DEF RowsAreRight
  <2>3. QED
    BY <2>1, <2>2
<1>4. QED
  BY <1>1, <1>3, CallCore

LEMMA ExitCore ==
  ASSUME TypeOK, Core, NEW p \in Pids, Exit(p)
  PROVE  Core'
<1> Die(p) /\ pc[p] = "idle" /\ UNCHANGED <<phase, tables, content>>
  BY DEF Exit
<1>1. ProcessesOK /\ TablesOK
  BY TypeParts
<1>2. /\ pc'[p] = "free" /\ know'[p] = {} /\ uid'[p] = NoUser
      /\ \A r \in Pids : r # p => /\ pc'[r] = pc[r] /\ on'[r] = on[r]
                                  /\ uid'[r] = uid[r] /\ know'[r] = know[r]
      /\ \A r \in Pids : Cloning(r)' => r # p /\ Cloning(r)
      /\ \A r \in Pids : Cloning(r) => r # p /\ Cloning(r)'
  BY <1>1 DEF ProcessesOK, PCs, InFile, Die, Cloning
<1>3. /\ \A r \in Pids : AwaitsCheck(r)' <=> AwaitsCheck(r)
      /\ \A r \in Pids : r # p => Sid(r)' = Sid(r) /\ (Live(r)' <=> Live(r))
      /\ Sid(p)' \notin DOMAIN subjects /\ ~Live(p)'
  BY <1>1, <1>2, NoUserAssumption DEF AwaitsCheck, Sid, Live, TablesOK
<1>4. /\ RowsAreRight /\ KnowledgeIsCovered /\ ChildrenWait /\ CallsAreChecked /\ NoLeaks
      /\ UNCHANGED <<phase, subjects, objects, content>>
  BY DEF Core, tables
<1>5. RowsAreRight'
  BY <1>4 DEF RowsAreRight, HostAdded
<1>6. KnowledgeIsCovered'
  <2>1. ASSUME NEW r \in Pids
        PROVE  /\ ~Live(r)' => know'[r] = {}
               /\ know'[r] # {} /\ phase' # "gone" => Sid(r)' \in DOMAIN subjects' \/ AwaitsCheck(r)'
               /\ Sid(r)' \in DOMAIN subjects' =>
                    \A g \in know'[r] : subjects'[Sid(r)'].readers \subseteq ReadersOf(g)
    <3>1. CASE r = p
      BY <1>2, <1>3, <1>4, <3>1
    <3>2. CASE r # p
      BY <1>2, <1>3, <1>4, <3>2 DEF KnowledgeIsCovered
    <3>3. QED
      BY <3>1, <3>2
  <2>2. QED
    BY <2>1 DEF KnowledgeIsCovered
<1>7. ChildrenWait'
  <2>1. ASSUME NEW q \in Pids, Cloning(q)'
        PROVE  /\ ~AwaitsCheck(q)'
               /\ <<uid'[q], on'[q]>> \notin DOMAIN subjects'
               /\ \A r \in Pids : Cloning(r)' /\ on'[r] = on'[q] => r = q
               /\ Live(on[q])' => uid'[on'[q]] = uid'[q] /\ know'[on'[q]] \subseteq know'[q]
    <3>1. Cloning(q) /\ q # p /\ on[q] \in Pids /\ on'[q] = on[q]
      BY <1>1, <1>2, <2>1 DEF ProcessesOK, PCs, InFile, Cloning
    <3>2. pc'[on[q]] # "free" => on[q] # p
      BY <1>2
    <3>3. QED
      BY <1>2, <1>3, <1>4, <3>1, <3>2 DEF ChildrenWait, Live
  <2>2. QED
    BY <2>1 DEF ChildrenWait
<1>8. CallsAreChecked'
  <2>1. ASSUME NEW r \in Pids
        PROVE  /\ pc'[r] = "read" => /\ Sid(r)' \in DOMAIN subjects'
                                     /\ subjects'[Sid(r)'].readers \subseteq ReadersOf(on'[r])
                                     /\ uid'[r] \in ReadersOf(on'[r])
               /\ pc'[r] = "write" => \A g \in know'[r] : ReadersOf(on'[r]) \subseteq ReadersOf(g)
               /\ phase' = "gone" => pc'[r] \in {"idle", "free"}
    <3>1. CASE r = p
      BY <1>2, <3>1
    <3>2. CASE r # p
      BY <1>2, <1>3, <1>4, <3>2 DEF CallsAreChecked
    <3>3. QED
      BY <3>1, <3>2
  <2>2. QED
    BY <2>1 DEF CallsAreChecked
<1>9. NoLeaks'
  <2>1. ASSUME NEW g \in Files, NEW r \in Pids, g \in know'[r]
        PROVE  uid'[r] \in ReadersOf(g)
    BY <1>2, <1>4, <2>1 DEF NoLeaks
  <2>2. QED
    BY <1>4, <2>1 DEF NoLeaks
<1>10. QED
  BY <1>5, <1>6, <1>7, <1>8, <1>9 DEF Core

\* A check that allows has found both rows, and that of the file is right.
LEMMA AllowedRows ==
  ASSUME TypeOK, RowsAreRight, NEW p \in Pids, NEW f \in Files, Known(Sid(p), f)
  PROVE  /\ subjects[Sid(p)].owner \in objects[f].readers =>
              uid[p] \in ReadersOf(f) /\ objects[f].readers = ReadersOf(f)
         /\ subjects[Sid(p)].owner \in objects[f].writers => objects[f].readers = ReadersOf(f)
<1>1. Sid(p) \in DOMAIN subjects /\ f \in DOMAIN objects /\ TablesOK
  BY TypeParts DEF Known
<1>2. subjects[Sid(p)].owner \in {uid[p], NoUser}
  BY <1>1 DEF RowsAreRight, Sid
<1>3. objects[f].readers \subseteq Users
  BY <1>1 DEF TablesOK, Row, UserSet
<1>4. objects[f].readers = ReadersOf(f) \/ (objects[f].readers = {} /\ objects[f].writers = {})
  BY <1>1 DEF RowsAreRight
<1>5. QED
  BY <1>2, <1>3, <1>4, NoUserAssumption

LEMMA WriteCore ==
  ASSUME TypeOK, Core, NEW p \in Pids, NEW f \in Files, Write(p, f), Quiet'
  PROVE  Core'
<1>1. /\ Go(p, "write", f) /\ UNCHANGED <<phase, tables, uid, know, content>>
      /\ pc[p] \notin {"free", "cloned", "adding"} /\ phase # "gone"
      /\ file_write_check(Sid(p), f, "allowed")
  BY DEF Write, Hooked, file_write_check, Quiet
<1>2. /\ Known(Sid(p), f) /\ subjects[Sid(p)].owner \in objects[f].writers
      /\ objects[f].readers \subseteq subjects[Sid(p)].readers
  BY <1>1 DEF file_write_check, FlowsTo
<1>3. RowsAreRight /\ KnowledgeIsCovered
  BY DEF Core
<1>4. RowsAreRight'
  BY <1>1, <1>3 DEF RowsAreRight, HostAdded, tables
<1>5. \A g \in know[p] : ReadersOf(f) \subseteq ReadersOf(g)
  <2>1. objects[f].readers = ReadersOf(f)
    BY <1>2, <1>3, AllowedRows
  <2>2. \A g \in know[p] : subjects[Sid(p)].readers \subseteq ReadersOf(g)
    BY <1>2, <1>3 DEF Known, KnowledgeIsCovered
  <2>3. QED
    BY <1>2, <2>1, <2>2
<1>6. subjects' = subjects
  BY <1>1 DEF tables
<1>7. QED
  BY <1>1, <1>4, <1>5, <1>6, CallCore

LEMMA ReadCore ==
  ASSUME TypeOK, Core, NEW p \in Pids, NEW f \in Files, Read(p, f), Quiet'
  PROVE  Core'
<1>1. /\ Go(p, "read", f) /\ UNCHANGED <<phase, uid, know, content>>
      /\ pc[p] \notin {"free", "cloned", "adding"} /\ phase # "gone"
      /\ file_read_check(Sid(p), f, "allowed")
  BY DEF Read, Hooked, Results, Quiet
<1>2. /\ Known(Sid(p), f) /\ subjects[Sid(p)].owner \in objects[f].readers
      /\ subjects' = [subjects EXCEPT ![Sid(p)] = Raise(@, objects[f])]
      /\ objects' = objects
  BY <1>1 DEF file_read_check
<1>3. /\ RowsAreRight /\ KnowledgeIsCovered /\ ChildrenWait /\ CallsAreChecked /\ NoLeaks
      /\ ProcessesOK /\ TablesOK
  BY TypeParts DEF Core
<1>4. uid[p] \in ReadersOf(f) /\ objects[f].readers = ReadersOf(f)
  BY <1>2, <1>3, AllowedRows
<1>5. /\ DOMAIN subjects' = DOMAIN subjects /\ Sid(p) \in DOMAIN subjects
      /\ \A s \in DOMAIN subjects : /\ subjects'[s].owner = subjects[s].owner
                                    /\ subjects'[s].readers \subseteq subjects[s].readers
      /\ subjects'[Sid(p)].readers \subseteq ReadersOf(f)
  <2>1. Sid(p) \in DOMAIN subjects /\ subjects[Sid(p)] \in Row /\ objects[f] \in Row
    BY <1>2, <1>3 DEF Known, TablesOK
  <2>2. /\ Raise(subjects[Sid(p)], objects[f]).owner = subjects[Sid(p)].owner
        /\ Raise(subjects[Sid(p)], objects[f]).readers = subjects[Sid(p)].readers \cap objects[f].readers
    BY <2>1, RaiseRow
  <2>3. /\ DOMAIN subjects' = DOMAIN subjects
        /\ \A s \in DOMAIN subjects :
             subjects'[s] = IF s = Sid(p) THEN Raise(subjects[s], objects[f]) ELSE subjects[s]
    BY <1>2, <2>1
  <2>4. QED
    BY <1>4, <2>1, <2>2, <2>3
<1>6. /\ \A r \in Pids : /\ Live(r)' <=> Live(r)
                         /\ AwaitsCheck(r)' <=> AwaitsCheck(r)
                         /\ Sid(r)' = Sid(r)
                         /\ Cloning(r)' <=> Cloning(r)
                         /\ r # p \/ Cloning(r) => pc'[r] = pc[r] /\ on'[r] = on[r]
      /\ pc'[p] = "read" /\ on'[p] = f
  BY <1>1, <1>3, CallFrame
<1>7. RowsAreRight'
  BY <1>1, <1>2, <1>3, <1>5 DEF RowsAreRight, HostAdded
<1>8. KnowledgeIsCovered'
  BY <1>1, <1>3, <1>5, <1>6 DEF KnowledgeIsCovered
<1>9. ChildrenWait'
  BY <1>1, <1>3, <1>5, <1>6, ChildrenFrame
<1>10. CallsAreChecked'
  <2>1. ASSUME NEW r \in Pids
        PROVE  /\ pc'[r] = "read" => /\ Sid(r)' \in DOMAIN subjects'
                                     /\ subjects'[Sid(r)'].readers \subseteq ReadersOf(on'[r])
                                     /\ uid'[r] \in ReadersOf(on'[r])
               /\ pc'[r] = "write" => \A g \in know'[r] : ReadersOf(on'[r]) \subseteq ReadersOf(g)
               /\ phase' = "gone" => pc'[r] \in {"idle", "free"}
    <3>1. CASE r = p
      BY <1>1, <1>4, <1>5, <1>6, <3>1
    <3>2. CASE r # p
      BY <1>1, <1>3, <1>5, <1>6, <3>2 DEF CallsAreChecked
    <3>3. QED
      BY <3>1, <3>2
  <2>2. QED
    BY <2>1 DEF CallsAreChecked
<1>11. NoLeaks'
  BY <1>1, <1>3 DEF NoLeaks
<1>12. QED
  BY <1>7, <1>8, <1>9, <1>10, <1>11 DEF Core

LEMMA WriteDataCore ==
  ASSUME TypeOK, Core, NEW p \in Pids, WriteData(p)
  PROVE  Core'
<1>1. /\ Go(p, "idle", p) /\ UNCHANGED <<phase, tables, uid, know>>
      /\ pc[p] = "write" /\ content' = [content EXCEPT ![on[p]] = @ \cup know[p]]
  BY DEF WriteData
<1>2. /\ RowsAreRight /\ KnowledgeIsCovered /\ ChildrenWait /\ CallsAreChecked /\ NoLeaks
      /\ ProcessesOK /\ subjects' = subjects /\ objects' = objects
  BY <1>1, TypeParts DEF Core, tables
<1>3. /\ \A r \in Pids : /\ Live(r)' <=> Live(r)
                         /\ AwaitsCheck(r)' <=> AwaitsCheck(r)
                         /\ Sid(r)' = Sid(r)
                         /\ Cloning(r)' <=> Cloning(r)
                         /\ r # p \/ Cloning(r) => pc'[r] = pc[r] /\ on'[r] = on[r]
      /\ pc'[p] = "idle" /\ on'[p] = p
  BY <1>1, <1>2, CallFrame
<1>4. RowsAreRight'
  BY <1>1, <1>2 DEF RowsAreRight, HostAdded
<1>5. KnowledgeIsCovered'
  BY <1>1, <1>2, <1>3 DEF KnowledgeIsCovered
<1>6. ChildrenWait'
  BY <1>1, <1>2, <1>3, ChildrenFrame
<1>7. CallsAreChecked'
  BY <1>1, <1>2, <1>3 DEF CallsAreChecked
<1>8. NoLeaks'
  <2>1. \A f \in Files : content'[f] \subseteq content[f] \cup (IF f = on[p] THEN know[p] ELSE {})
    BY <1>1, <1>2 DEF ProcessesOK, PCs, InFile
  <2>2. \A g \in know[p] : ReadersOf(on[p]) \subseteq ReadersOf(g)
    BY <1>1, <1>2 DEF CallsAreChecked
  <2>3. ASSUME NEW g \in Files, NEW f \in Files, g \in content'[f]
        PROVE  ReadersOf(f) \subseteq ReadersOf(g)
    <3>1. CASE g \in content[f]
      BY <1>2, <3>1 DEF NoLeaks
    <3>2. CASE f = on[p] /\ g \in know[p]
      BY <2>2, <3>2
    <3>3. QED
      BY <2>1, <2>3, <3>1, <3>2
  <2>4. QED
    BY <1>1, <1>2, <2>3 DEF NoLeaks
<1>9. QED
  BY <1>4, <1>5, <1>6, <1>7, <1>8 DEF Core

LEMMA ReadDataCore ==
  ASSUME TypeOK, Core, NEW p \in Pids, ReadData(p)
  PROVE  Core'
<1>1. /\ Go(p, "idle", p) /\ UNCHANGED <<phase, tables, uid, content>>
      /\ pc[p] = "read" /\ know' = [know EXCEPT ![p] = @ \cup content[on[p]]]
  BY DEF ReadData
<1>2. /\ RowsAreRight /\ KnowledgeIsCovered /\ ChildrenWait /\ CallsAreChecked /\ NoLeaks
      /\ ProcessesOK /\ subjects' = subjects /\ objects' = objects /\ on[p] \in Files
  BY <1>1, TypeParts DEF Core, tables, ProcessesOK, PCs, InFile
<1>3. /\ \A r \in Pids : /\ Live(r)' <=> Live(r)
                         /\ AwaitsCheck(r)' <=> AwaitsCheck(r)
                         /\ Sid(r)' = Sid(r)
                         /\ Cloning(r)' <=> Cloning(r)
                         /\ r # p \/ Cloning(r) => pc'[r] = pc[r] /\ on'[r] = on[r]
      /\ pc'[p] = "idle" /\ on'[p] = p
  BY <1>1, <1>2, CallFrame
<1>4. /\ Sid(p) \in DOMAIN subjects /\ uid[p] \in ReadersOf(on[p])
      /\ subjects[Sid(p)].readers \subseteq ReadersOf(on[p]) /\ Live(p)
  BY <1>1, <1>2 DEF CallsAreChecked, Live
<1>5. /\ know'[p] = know[p] \cup content[on[p]]
      /\ \A r \in Pids : r # p => know'[r] = know[r]
  BY <1>1, <1>2 DEF ProcessesOK, PCs, InFile
<1>6. \A g \in content[on[p]] : g \in Files /\ ReadersOf(on[p]) \subseteq ReadersOf(g)
  BY <1>2 DEF ProcessesOK, PCs, InFile, NoLeaks
<1>7. RowsAreRight'
  BY <1>1, <1>2 DEF RowsAreRight, HostAdded
<1>8. KnowledgeIsCovered'
  <2>1. ASSUME NEW r \in Pids
        PROVE  /\ ~Live(r)' => know'[r] = {}
               /\ know'[r] # {} /\ phase' # "gone" => Sid(r)' \in DOMAIN subjects' \/ AwaitsCheck(r)'
               /\ Sid(r)' \in DOMAIN subjects' =>
                    \A g \in know'[r] : subjects'[Sid(r)'].readers \subseteq ReadersOf(g)
    <3>1. CASE r = p
      <4>1. \A g \in know[p] : subjects[Sid(p)].readers \subseteq ReadersOf(g)
        BY <1>2, <1>4 DEF KnowledgeIsCovered
      <4>2. QED
        BY <1>2, <1>3, <1>4, <1>5, <1>6, <3>1, <4>1
    <3>2. CASE r # p
      BY <1>1, <1>2, <1>3, <1>5, <3>2 DEF KnowledgeIsCovered
    <3>3. QED
      BY <3>1, <3>2
  <2>2. QED
    BY <2>1 DEF KnowledgeIsCovered
<1>9. ChildrenWait'
  <2>1. ASSUME NEW q \in Pids, Cloning(q)
        PROVE  q # p /\ on[q] # p /\ on[q] \in Pids
    <3>1. <<uid[q], on[q]>> \notin DOMAIN subjects /\ (Live(on[q]) => uid[on[q]] = uid[q])
      BY <1>2, <2>1 DEF ChildrenWait
    <3>2. QED
      BY <1>1, <1>2, <1>4, <2>1, <3>1 DEF Sid, ProcessesOK, PCs, InFile, Cloning
  <2>2. \A q \in Pids : Cloning(q) =>
          on'[q] = on[q] /\ know'[q] = know[q] /\ know'[on[q]] = know[on[q]]
    BY <1>3, <1>5, <2>1
  <2>3. QED
    BY <1>1, <1>2, <1>3, <2>2, ChildrenFrame
<1>10. CallsAreChecked'
  <2>1. ASSUME NEW r \in Pids
        PROVE  /\ pc'[r] = "read" => /\ Sid(r)' \in DOMAIN subjects'
                                     /\ subjects'[Sid(r)'].readers \subseteq ReadersOf(on'[r])
                                     /\ uid'[r] \in ReadersOf(on'[r])
               /\ pc'[r] = "write" => \A g \in know'[r] : ReadersOf(on'[r]) \subseteq ReadersOf(g)
               /\ phase' = "gone" => pc'[r] \in {"idle", "free"}
    <3>1. CASE r = p
      BY <1>3, <3>1
    <3>2. CASE r # p
      BY <1>1, <1>2, <1>3, <1>5, <3>2 DEF CallsAreChecked
    <3>3. QED
      BY <3>1, <3>2
  <2>2. QED
    BY <2>1 DEF CallsAreChecked
<1>11. NoLeaks'
  <2>1. ASSUME NEW g \in Files, NEW r \in Pids, g \in know'[r]
        PROVE  uid'[r] \in ReadersOf(g)
    <3>1. CASE g \in know[r]
      BY <1>1, <1>2, <3>1 DEF NoLeaks
    <3>2. CASE r = p /\ g \in content[on[p]]
      BY <1>1, <1>4, <1>6, <3>2
    <3>3. QED
      BY <1>5, <2>1, <3>1, <3>2
  <2>2. QED
    BY <1>1, <1>2, <2>1 DEF NoLeaks
<1>12. QED
  BY <1>7, <1>8, <1>9, <1>10, <1>11 DEF Core

LEMMA CloneCore ==
  ASSUME TypeOK, Core, NEW p \in Pids, NEW c \in Pids, Clone(p, c), Quiet'
  PROVE  Core'
<1>1. /\ pc[p] = "idle" /\ pc[c] = "free" /\ p # c /\ phase # "gone"
      /\ pc' = [pc EXCEPT ![p] = "cloned", ![c] = "idle"] /\ on' = [on EXCEPT ![p] = c]
      /\ uid' = [uid EXCEPT ![c] = uid[p]] /\ know' = [know EXCEPT ![c] = know[p]]
      /\ UNCHANGED <<phase, subjects, objects, content>>
  BY DEF Clone, Hooked, tables
<1>2. ~AwaitsCheck(c) /\ ~AwaitsCheck(p) /\ <<uid[p], c>> \notin DOMAIN subjects
  BY DEF Clone, Quiet
<1>3. /\ RowsAreRight /\ KnowledgeIsCovered /\ ChildrenWait /\ CallsAreChecked /\ NoLeaks
      /\ ProcessesOK
  BY TypeParts DEF Core
<1>4. /\ pc'[p] = "cloned" /\ on'[p] = c /\ uid'[p] = uid[p] /\ know'[p] = know[p]
      /\ pc'[c] = "idle" /\ uid'[c] = uid[p] /\ know'[c] = know[p]
      /\ \A r \in Pids : r # p => on'[r] = on[r]
      /\ \A r \in Pids : r # c => uid'[r] = uid[r] /\ know'[r] = know[r]
      /\ \A r \in Pids : r # p /\ r # c => pc'[r] = pc[r]
      /\ \A r \in Pids : Cloning(r)' <=> r = p \/ Cloning(r)
  BY <1>1, <1>3 DEF ProcessesOK, PCs, InFile, Cloning
<1>5. /\ \A r \in Pids : AwaitsCheck(r)' <=> r = c \/ AwaitsCheck(r)
      /\ \A r \in Pids : r # c => Sid(r)' = Sid(r) /\ (Live(r)' <=> Live(r))
      /\ Sid(c)' \notin DOMAIN subjects /\ Live(c)'
  <2>1. ASSUME NEW r \in Pids
        PROVE  AwaitsCheck(r)' <=> r = c \/ AwaitsCheck(r)
    <3>1. AwaitsCheck(r)' <=> \E q \in Pids : Cloning(q)' /\ on'[q] = r
      BY DEF AwaitsCheck
    <3>2. \A q \in Pids : q # p => (Cloning(q)' /\ on'[q] = r <=> Cloning(q) /\ on[q] = r)
      BY <1>4
    <3>3. Cloning(p)' /\ on'[p] = c /\ ~Cloning(p)
      BY <1>1, <1>4 DEF Cloning
    <3>4. QED
      BY <3>1, <3>2, <3>3 DEF AwaitsCheck, Cloning
  <2>2. \A r \in Pids : r # c => Sid(r)' = Sid(r)
    BY <1>4 DEF Sid
  <2>3. \A r \in Pids : r # c => (Live(r)' <=> Live(r))
    BY <1>1, <1>4 DEF Live, Cloning
  <2>4. Sid(c)' \notin DOMAIN subjects /\ Live(c)'
    BY <1>2, <1>4 DEF Sid, Live
  <2>5. QED
    BY <2>1, <2>2, <2>3, <2>4
<1>6. RowsAreRight'
  BY <1>1, <1>3 DEF RowsAreRight, HostAdded
<1>7. KnowledgeIsCovered'
  <2>1. ASSUME NEW r \in Pids
        PROVE  /\ ~Live(r)' => know'[r] = {}
               /\ know'[r] # {} /\ phase' # "gone" => Sid(r)' \in DOMAIN subjects' \/ AwaitsCheck(r)'
               /\ Sid(r)' \in DOMAIN subjects' =>
                    \A g \in know'[r] : subjects'[Sid(r)'].readers \subseteq ReadersOf(g)
    <3>1. CASE r = c
      BY <1>1, <1>5, <3>1
    <3>2. CASE r # c
      BY <1>1, <1>3, <1>4, <1>5, <3>2 DEF KnowledgeIsCovered
    <3>3. QED
      BY <3>1, <3>2
  <2>2. QED
    BY <2>1 DEF KnowledgeIsCovered
<1>8. ChildrenWait'
  <2>1. ASSUME NEW q \in Pids, Cloning(q)'
        PROVE  /\ ~AwaitsCheck(q)'
               /\ <<uid'[q], on'[q]>> \notin DOMAIN subjects'
               /\ \A r \in Pids : Cloning(r)' /\ on'[r] = on'[q] => r = q
               /\ Live(on[q])' => uid'[on'[q]] = uid'[q] /\ know'[on'[q]] \subseteq know'[q]
    <3>1. \A r \in Pids : r # p /\ Cloning(r) => r # c /\ on[r] # c /\ on[r] # p /\ on[r] \in Pids
      BY <1>1, <1>2, <1>3 DEF AwaitsCheck, ProcessesOK, PCs, InFile, Cloning
    <3>2. CASE q = p
      <4>1. ~AwaitsCheck(p)'
        BY <1>1, <1>2, <1>5
      <4>2. <<uid'[p], on'[p]>> \notin DOMAIN subjects'
        BY <1>1, <1>2, <1>4
      <4>3. \A r \in Pids : Cloning(r)' /\ on'[r] = on'[p] => r = p
        BY <1>4, <3>1
      <4>4. uid'[on'[p]] = uid'[p] /\ know'[on'[p]] \subseteq know'[p]
        BY <1>4
      <4>5. QED
        BY <3>2, <4>1, <4>2, <4>3, <4>4
    <3>3. CASE q # p
      <4>1. Cloning(q) /\ q # c /\ on[q] # c /\ on[q] \in Pids /\ on'[q] = on[q]
        BY <1>4, <2>1, <3>1, <3>3
      <4>2. ~AwaitsCheck(q)' /\ <<uid'[q], on'[q]>> \notin DOMAIN subjects'
        BY <1>1, <1>3, <1>4, <1>5, <4>1 DEF ChildrenWait
      <4>3. \A r \in Pids : Cloning(r)' /\ on'[r] = on'[q] => r = q
        <5>1. \A r \in Pids : Cloning(r) /\ on[r] = on[q] => r = q
          BY <1>3, <4>1 DEF ChildrenWait
        <5>2. QED
          BY <1>4, <4>1, <5>1
      <4>4. Live(on[q])' => uid'[on'[q]] = uid'[q] /\ know'[on'[q]] \subseteq know'[q]
        <5>1. pc'[on[q]] # "free" => Live(on[q])
          BY <1>1, <1>4, <4>1 DEF Live
        <5>2. Live(on[q])' => pc'[on[q]] # "free"
          BY <4>1 DEF Live
        <5>3. Live(on[q]) => uid[on[q]] = uid[q] /\ know[on[q]] \subseteq know[q]
          BY <1>3, <4>1 DEF ChildrenWait
        <5>4. QED
          BY <1>4, <4>1, <5>1, <5>2, <5>3
      <4>5. QED
        BY <4>2, <4>3, <4>4
    <3>4. QED
      BY <3>2, <3>3
  <2>2. QED
    BY <2>1, <1>4 DEF ChildrenWait, Live
<1>9. CallsAreChecked'
  <2>1. ASSUME NEW r \in Pids
        PROVE  /\ pc'[r] = "read" => /\ Sid(r)' \in DOMAIN subjects'
                                     /\ subjects'[Sid(r)'].readers \subseteq ReadersOf(on'[r])
                                     /\ uid'[r] \in ReadersOf(on'[r])
               /\ pc'[r] = "write" => \A g \in know'[r] : ReadersOf(on'[r]) \subseteq ReadersOf(g)
               /\ phase' = "gone" => pc'[r] \in {"idle", "free"}
    <3>1. CASE r = p \/ r = c
      BY <1>1, <1>4, <3>1
    <3>2. CASE r # p /\ r # c
      BY ZenonT(40), <1>1, <1>3, <1>4, <1>5, <3>2 DEF CallsAreChecked
    <3>3. QED
      BY <3>1, <3>2
  <2>2. QED
    BY <2>1 DEF CallsAreChecked
<1>10. NoLeaks'
  <2>1. ASSUME NEW g \in Files, NEW r \in Pids, g \in know'[r]
        PROVE  uid'[r] \in ReadersOf(g)
    BY <1>3, <1>4, <2>1 DEF NoLeaks
  <2>2. QED
    BY <1>1, <1>3, <2>1 DEF NoLeaks
<1>11. QED
  BY <1>6, <1>7, <1>8, <1>9, <1>10 DEF Core

\* clone_check is over: the child waits no longer.
LEMMA ClonedCore ==
  ASSUME TypeOK, Core, NEW p \in Pids, Cloning(p),
         NEW call \in {"idle", "hostless"}, Go(p, call, p),
         subjects' = clone_check(uid[p], on[p], p),
         UNCHANGED <<phase, objects, uid, know, content>>
  PROVE  Core'
<1> DEFINE c == on[p]
           s == <<uid[p], c>>
<1>1. /\ RowsAreRight /\ KnowledgeIsCovered /\ ChildrenWait /\ CallsAreChecked /\ NoLeaks
      /\ ProcessesOK /\ TablesOK
  BY TypeParts DEF Core
<1>2. /\ Cloning(p) /\ Live(p) /\ uid[p] \in Users /\ c \in Pids /\ phase # "gone"
      /\ subjects' = clone_check(uid[p], c, p)
      /\ UNCHANGED <<phase, objects, uid, know, content>>
  BY <1>1 DEF Cloning, ProcessesOK, PCs, InFile, Live, CallsAreChecked
<1>3. /\ pc'[p] = call /\ on'[p] = p
      /\ \A r \in Pids : r # p => pc'[r] = pc[r] /\ on'[r] = on[r]
      /\ \A r \in Pids : Cloning(r)' <=> r # p /\ Cloning(r)
  BY <1>1 DEF Go, ProcessesOK, PCs, InFile, Cloning
<1>4. /\ ~AwaitsCheck(p) /\ s \notin DOMAIN subjects
      /\ \A r \in Pids : Cloning(r) /\ on[r] = c => r = p
      /\ Live(c) => uid[c] = uid[p] /\ know[c] \subseteq know[p]
      /\ ~Live(c) => know[c] = {}
  BY <1>1, <1>2 DEF ChildrenWait, KnowledgeIsCovered
<1>5. know[p] # {} => HostAdded /\ Sid(p) \in DOMAIN subjects
  BY <1>1, <1>2, <1>4 DEF KnowledgeIsCovered, RowsAreRight
<1>6. /\ HostAdded => DOMAIN subjects' = DOMAIN subjects \cup {s}
      /\ HostAdded => subjects'[s] = ClonedSubject(uid[p], p)
      /\ ~HostAdded => subjects' = subjects /\ DOMAIN subjects = {}
      /\ \A t \in DOMAIN subjects : t \in DOMAIN subjects' /\ subjects'[t] = subjects[t]
      /\ \A t \in DOMAIN subjects' : t \in DOMAIN subjects \/ t = s
  BY <1>1, <1>2, <1>4 DEF clone_check, AddedRow, RowsAreRight
<1>7. /\ ClonedSubject(uid[p], p).owner \in {uid[p], NoUser}
      /\ \A g \in know[p] : ClonedSubject(uid[p], p).readers \subseteq ReadersOf(g)
  <2>1. CASE Sid(p) \in DOMAIN subjects
    <3>1. ClonedSubject(uid[p], p) = subjects[Sid(p)]
      BY <2>1 DEF ClonedSubject, Sid
    <3>2. subjects[Sid(p)].owner \in {uid[p], NoUser}
      BY <1>1, <2>1 DEF RowsAreRight, Sid
    <3>3. \A g \in know[p] : subjects[Sid(p)].readers \subseteq ReadersOf(g)
      BY <1>1, <2>1 DEF KnowledgeIsCovered
    <3>4. QED
      BY <3>1, <3>2, <3>3
  <2>2. CASE Sid(p) \notin DOMAIN subjects
    <3>1. ClonedSubject(uid[p], p).owner \in {uid[p], NoUser}
      BY <2>2 DEF ClonedSubject, DefaultSubject, Sid
    <3>2. QED
      BY <1>5, <2>2, <3>1
  <2>3. QED
    BY <2>1, <2>2
<1>8. \A r \in Pids : AwaitsCheck(r)' <=> r # c /\ AwaitsCheck(r)
  <2>1. ASSUME NEW r \in Pids
        PROVE  AwaitsCheck(r)' <=> r # c /\ AwaitsCheck(r)
    <3>1. AwaitsCheck(r)' <=> \E q \in Pids : Cloning(q)' /\ on'[q] = r
      BY DEF AwaitsCheck
    <3>2. AwaitsCheck(r) <=> \E q \in Pids : Cloning(q) /\ on[q] = r
      BY DEF AwaitsCheck
    <3>3. \A q \in Pids : Cloning(q)' => q # p /\ Cloning(q) /\ on'[q] = on[q] /\ on[q] # c
      BY <1>3, <1>4
    <3>4. QED
      BY <1>2, <1>3, <3>1, <3>2, <3>3
  <2>2. QED
    BY <2>1
<1>9. \A r \in Pids : Sid(r)' = Sid(r) /\ (Live(r)' <=> Live(r))
  BY <1>2, <1>3 DEF Sid, Live
<1> HIDE DEF s, c
<1>10. s[1] = uid[p] /\ (Live(c) => Sid(c) = s) /\ \A r \in Pids : Sid(r) = s => r = c
  BY <1>4 DEF s, Sid
<1>11. RowsAreRight'
  <2>1. ~HostAdded' => DOMAIN subjects' = {}
    BY <1>2, <1>6 DEF HostAdded
  <2>2. \A t \in DOMAIN subjects' : subjects'[t].owner \in {t[1], NoUser}
    BY <1>1, <1>6, <1>7, <1>10 DEF RowsAreRight
  <2>3. QED
    BY <1>1, <1>2, <2>1, <2>2 DEF RowsAreRight
<1>12. KnowledgeIsCovered'
  <2>1. ASSUME NEW r \in Pids
        PROVE  /\ ~Live(r)' => know'[r] = {}
               /\ know'[r] # {} /\ phase' # "gone" => Sid(r)' \in DOMAIN subjects' \/ AwaitsCheck(r)'
               /\ Sid(r)' \in DOMAIN subjects' =>
                    \A g \in know'[r] : subjects'[Sid(r)'].readers \subseteq ReadersOf(g)
    <3>1. CASE r = c /\ know[c] # {}
      <4>1. HostAdded /\ Sid(c) = s /\ Live(c) /\ know[c] \subseteq know[p]
        BY <1>4, <1>5, <1>10, <3>1
      <4>2. QED
        BY <1>2, <1>6, <1>7, <1>9, <3>1, <4>1
    <3>2. CASE r = c /\ know[c] = {}
      BY <1>2, <3>2
    <3>3. CASE r # c
      BY <1>1, <1>2, <1>6, <1>8, <1>9, <1>10, <3>3 DEF KnowledgeIsCovered
    <3>4. QED
      BY <3>1, <3>2, <3>3
  <2>2. QED
    BY <2>1 DEF KnowledgeIsCovered
<1>13. ChildrenWait'
  <2>1. ASSUME NEW q \in Pids, Cloning(q)'
        PROVE  /\ ~AwaitsCheck(q)'
               /\ <<uid'[q], on'[q]>> \notin DOMAIN subjects'
               /\ \A r \in Pids : Cloning(r)' /\ on'[r] = on'[q] => r = q
               /\ Live(on[q])' => uid'[on'[q]] = uid'[q] /\ know'[on'[q]] \subseteq know'[q]
    <3>1. q # p /\ Cloning(q) /\ on'[q] = on[q] /\ on[q] \in Pids
      BY <1>1, <1>3, <2>1 DEF ProcessesOK, PCs, InFile, Cloning
    <3>2. /\ ~AwaitsCheck(q) /\ <<uid[q], on[q]>> \notin DOMAIN subjects /\ on[q] # c
          /\ \A r \in Pids : Cloning(r) /\ on[r] = on[q] => r = q
          /\ Live(on[q]) => uid[on[q]] = uid[q] /\ know[on[q]] \subseteq know[q]
      BY <1>1, <1>4, <3>1 DEF ChildrenWait
    <3>3. <<uid[q], on[q]>> # s
      BY <3>2 DEF s
    <3>4. <<uid'[q], on'[q]>> \notin DOMAIN subjects'
      BY <1>2, <1>6, <3>1, <3>2, <3>3
    <3>5. \A r \in Pids : Cloning(r)' /\ on'[r] = on'[q] => r = q
      BY <1>3, <3>1, <3>2
    <3>6. Live(on[q])' => uid'[on'[q]] = uid'[q] /\ know'[on'[q]] \subseteq know'[q]
      <4>1. Live(on[q])' => pc'[on[q]] # "free"
        BY <3>1 DEF Live
      <4>2. pc'[on[q]] # "free" => Live(on[q])
        BY <1>2, <1>3, <3>1 DEF Live
      <4>3. QED
        BY <1>2, <3>1, <3>2, <4>1, <4>2
    <3>7. QED
      BY <1>8, <3>2, <3>4, <3>5, <3>6
  <2>2. QED
    BY <2>1 DEF ChildrenWait, Live
<1>14. CallsAreChecked'
  <2>1. ASSUME NEW r \in Pids
        PROVE  /\ pc'[r] = "read" => /\ Sid(r)' \in DOMAIN subjects'
                                     /\ subjects'[Sid(r)'].readers \subseteq ReadersOf(on'[r])
                                     /\ uid'[r] \in ReadersOf(on'[r])
               /\ pc'[r] = "write" => \A g \in know'[r] : ReadersOf(on'[r]) \subseteq ReadersOf(g)
               /\ phase' = "gone" => pc'[r] \in {"idle", "free"}
    <3>1. CASE r = p
      BY <1>2, <1>3, <3>1
    <3>2. CASE r # p
      BY <1>1, <1>2, <1>3, <1>6, <1>9, <3>2 DEF CallsAreChecked
    <3>3. QED
      BY <3>1, <3>2
  <2>2. QED
    BY <2>1 DEF CallsAreChecked
<1>15. NoLeaks'
  BY <1>1, <1>2 DEF NoLeaks
<1>16. QED
  BY <1>11, <1>12, <1>13, <1>14, <1>15 DEF Core

\* The child's id is there, and its row is not.
LEMMA AddingCore ==
  ASSUME TypeOK, Core, NEW p \in Pids, pc[p] = "cloned", Go(p, "adding", on[p]),
         UNCHANGED <<phase, tables, uid, know, content>>
  PROVE  Core'
<1>1. /\ pc'[p] = "adding" /\ on' = on
      /\ \A r \in Pids : r # p => pc'[r] = pc[r]
  BY TypeParts DEF Go, ProcessesOK
<1>2. /\ \A r \in Pids : Cloning(r)' <=> Cloning(r)
      /\ \A r \in Pids : Live(r)' <=> Live(r)
      /\ \A r \in Pids : Sid(r)' = Sid(r)
  BY <1>1 DEF Cloning, Live, Sid
<1>3. \A r \in Pids : AwaitsCheck(r)' <=> AwaitsCheck(r)
  BY <1>1, <1>2 DEF AwaitsCheck
<1>4. /\ RowsAreRight /\ KnowledgeIsCovered /\ ChildrenWait /\ CallsAreChecked /\ NoLeaks
      /\ UNCHANGED <<phase, subjects, objects, uid, know, content>>
  BY DEF Core, tables
<1>5. RowsAreRight' /\ NoLeaks'
  BY <1>4 DEF RowsAreRight, HostAdded, NoLeaks
<1>6. KnowledgeIsCovered'
  BY <1>2, <1>3, <1>4 DEF KnowledgeIsCovered
<1>7. ChildrenWait'
  BY <1>1, <1>2, <1>3, <1>4, TypeParts, ChildrenFrame
<1>8. CallsAreChecked'
  BY <1>1, <1>2, <1>4 DEF CallsAreChecked
<1>9. QED
  BY <1>5, <1>6, <1>7, <1>8 DEF Core

LEMMA CloneCheckCore ==
  ASSUME TypeOK, Core, NEW p \in Pids, CloneCheck(p)
  PROVE  Core'
<1>1. pc[p] = "cloned" /\ UNCHANGED <<phase, tables, uid, know, content>>
  BY DEF CloneCheck
<1>2. CASE Go(p, "adding", on[p])
  BY <1>1, <1>2, AddingCore
<1>3. CASE ~HostAdded /\ Go(p, "hostless", p)
  <2>1. subjects' = clone_check(uid[p], on[p], p) /\ UNCHANGED objects /\ Cloning(p)
    BY <1>1, <1>3 DEF clone_check, tables, Cloning
  <2>2. QED
    BY <1>1, <1>3, <2>1, ClonedCore
<1>4. ASSUME <<uid[p], on[p]>> \in DOMAIN subjects PROVE FALSE
  BY <1>1, <1>4 DEF Core, ChildrenWait, Cloning
<1>5. QED
  BY <1>2, <1>3, <1>4 DEF CloneCheck

LEMMA AddSubjectCore ==
  ASSUME TypeOK, Core, NEW p \in Pids, AddSubject(p), Quiet'
  PROVE  Core'
<1>1. /\ subjects' = clone_check(uid[p], on[p], p)
      /\ Go(p, "idle", p) /\ UNCHANGED <<phase, objects, uid, know, content>> /\ Cloning(p)
  BY DEF AddSubject, Quiet, Cloning
<1>2. QED
  BY <1>1, ClonedCore

LEMMA CoreNext == TypeOK /\ Core /\ Next /\ Quiet' => Core'
<1>1. SUFFICES ASSUME TypeOK, Core, Next, Quiet' PROVE Core'
  OBVIOUS
<1>2. ASSUME NEW p \in Pids, OpenFault(p)
      PROVE  FALSE
  BY <1>1, <1>2 DEF OpenFault, Quiet
<1>3. QED
  BY <1>1, <1>2, LoadCore, UnloadCore, CloneCore, CloneCheckCore, AddSubjectCore, AddHostlessCore,
     OpenCore, OpenCheckCore, AddObjectCore, ReadCore, ReadDataCore, WriteCore, WriteDataCore,
     ExitCore DEF Next

LEMMA CoreStutter == Core /\ UNCHANGED vars => Core'
<1>1. SUFFICES ASSUME Core, UNCHANGED vars PROVE Core'
  OBVIOUS
<1>2. UNCHANGED <<phase, subjects, objects, pc, uid, on, know, content>>
  BY <1>1 DEF vars, tables
<1>3. /\ \A p : AwaitsCheck(p)' <=> AwaitsCheck(p)
      /\ \A p : Live(p)' <=> Live(p)
      /\ \A p : Sid(p)' = Sid(p)
  BY <1>2 DEF AwaitsCheck, Live, Sid, Cloning
<1>4. RowsAreRight /\ KnowledgeIsCovered /\ ChildrenWait /\ CallsAreChecked /\ NoLeaks
  BY <1>1 DEF Core
<1>5. RowsAreRight' /\ NoLeaks'
  BY <1>2, <1>4 DEF RowsAreRight, HostAdded, NoLeaks
<1>6. KnowledgeIsCovered'
  BY <1>2, <1>3, <1>4 DEF KnowledgeIsCovered
<1>7. ChildrenWait'
  BY <1>2, <1>4 DEF ChildrenWait, AwaitsCheck, Live, Cloning
<1>8. CallsAreChecked'
  BY <1>2, <1>3, <1>4 DEF CallsAreChecked
<1>9. QED
  BY <1>5, <1>6, <1>7, <1>8 DEF Core

(***************************************************************************)
(* Whatever the processes do, and while the module loads: information has  *)
(* gone where a file's permissions do not let it only if the kernel log    *)
(* has a warning, or a label came out wrong in one of the ways of slips.   *)
(***************************************************************************)
THEOREM KernelLeaksAreWarned == Spec => []LeaksAreWarned
<1>1. Init => KernelInv
  BY InitType, InitCore DEF KernelInv
<1>2. KernelInv /\ [Next]_vars => KernelInv'
  <2>1. SUFFICES ASSUME KernelInv, [Next]_vars PROVE KernelInv'
    OBVIOUS
  <2>2. CASE Next
    BY <2>1, <2>2, NextStep, QuietBefore, CoreNext DEF KernelInv, KernelStep
  <2>3. CASE UNCHANGED vars
    <3>1. Quiet' => Quiet
      BY <2>3 DEF vars, Quiet
    <3>2. QED
      BY <2>1, <2>3, <3>1, TypeStutter, CoreStutter DEF KernelInv
  <2>4. QED
    BY <2>1, <2>2, <2>3
<1>3. KernelInv => LeaksAreWarned
  BY DEF KernelInv, Quiet, Core, NoLeaks, LeaksAreWarned
<1>4. QED
  BY <1>1, <1>2, <1>3, PTL DEF Spec
=============================================================================
