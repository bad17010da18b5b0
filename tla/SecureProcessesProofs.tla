----------------------- MODULE SecureProcessesProofs ------------------------
(***************************************************************************)
(* Theorems about the secure processes, for any set of users, files, pids  *)
(* and shells.  The first ones hold whatever faults occur; the flow of     *)
(* information is only what it should be on a host without them.           *)
(***************************************************************************)
EXTENDS SecureProcesses, RuleEngineProofs

-----------------------------------------------------------------------------
(* Types *)

PCs == {"free", "idle", "forking", "forkwait", "forked", "posting",
        "read", "write", "found", "kill"}

LEMMA InfoFacts ==
  /\ Nothing \in Info
  /\ \A u \in Users : OwnInfo(u) \in Info
  /\ \A i, j \in Info : Join(i, j) \in Info
  BY DEF Nothing, OwnInfo, Join, Info, UserSet

LEMMA InitialContentType ==
  ASSUME NEW f \in Files
  PROVE  InitialContent(f) \in Info
<1>1. infer_file_labels(FileStat[f]).writers \in UserSet
  BY InferredIsLabel, RuleEngineAssumption DEF Label
<1>2. QED
  BY <1>1, InfoFacts DEF InitialContent, Info

LEMMA InitTypeOK == Init => TypeOK
<1> SUFFICES ASSUME Init PROVE TypeOK
  OBVIOUS
<1>1. RETypeOK
  BY REInitInv DEF Init, REInv
<1>2. /\ pc \in [Pids -> PCs] /\ uid \in [Pids -> Users \cup {NoUser}]
      /\ on \in [Pids -> Files \cup Pids \cup {InitProc} \cup SubjectIds]
  BY ProcessAssumption DEF Init, PCs
<1>3. \A p \in Pids : /\ pc[p] = "free" <=> uid[p] = NoUser
                      /\ pc[p] \in {"free", "idle"}
  BY ProcessAssumption, NoUserAssumption DEF Init
<1>4. know \in [Pids -> Info] /\ buf \in [Pids -> Info]
  BY InfoFacts, ProcessAssumption DEF Init
<1>5. content \in [Files -> Info]
  BY InitialContentType DEF Init
<1>6. /\ exists \subseteq Files /\ woken \subseteq Pids /\ stranded \subseteq Pids
      /\ locks \subseteq Semaphore
  BY DEF Init
<1>7. QED
  BY <1>1, <1>2, <1>3, <1>4, <1>5, <1>6 DEF TypeOK, PCs

\* A live process has a user.
LEMMA LiveUser ==
  ASSUME TypeOK, NEW p \in Pids, pc[p] # "free"
  PROVE  uid[p] \in Users /\ Sid(p) \in SubjectIds
  BY DEF TypeOK, Sid, SubjectIds

(***************************************************************************)
(* Every step of the processes is a step of the rule engine, or none.      *)
(***************************************************************************)
LEMMA StepOfRuleEngine ==
  ASSUME TypeOK, [Next]_vars
  PROVE  [RENext]_revars
<1>1. ASSUME NEW p \in Pids, NEW c \in Pids, Fork(p, c) \/ ForkFails(p) \/ Kill(p, c)
      PROVE  [RENext]_revars
  BY <1>1 DEF Fork, ForkFails, Kill
<1>2. ASSUME NEW c \in Pids, ForkCheck(c)
      PROVE  [RENext]_revars
  <2>1. uid[c] \in Users /\ on[c] \in Pids \cup {InitProc}
    BY <1>2, LiveUser DEF ForkCheck, TypeOK
  <2>2. fork_check(uid[c], c, on[c])
    BY <1>2 DEF ForkCheck
  <2>3. QED
    BY <2>1, <2>2 DEF RENext
<1>3. ASSUME NEW p \in Pids, Post(p) \/ OpenLock(p) \/ ForkReturn(p)
      PROVE  [RENext]_revars
  BY <1>3 DEF Post, OpenLock, ForkReturn, Ends
<1>4. ASSUME NEW p \in Pids, NEW f \in Files, Open(p, f)
      PROVE  [RENext]_revars
  BY <1>4 DEF Open, RENext
<1>5. ASSUME NEW p \in Pids, NEW f \in Files, Read(p, f)
      PROVE  [RENext]_revars
  BY <1>5 DEF Read
<1>6. ASSUME NEW p \in Pids, NEW f \in Files, Write(p, f)
      PROVE  [RENext]_revars
  <2>1. Sid(p) \in SubjectIds
    BY <1>6, LiveUser DEF Write
  <2>2. \E ret \in Results : file_write_check(Sid(p), f, ret)
    BY <1>6 DEF Write, Results
  <2>3. QED
    BY <2>1, <2>2 DEF RENext
<1>7. ASSUME NEW p \in Pids, ReadCheck(p)
      PROVE  [RENext]_revars
  <2>1. Sid(p) \in SubjectIds /\ on[p] \in Files
    BY <1>7, LiveUser DEF ReadCheck, TypeOK
  <2>2. \E ret \in Results : file_read_check(Sid(p), on[p], ret)
    BY <1>7 DEF ReadCheck, Results
  <2>3. QED
    BY <2>1, <2>2 DEF RENext
<1>8. ASSUME NEW p \in Pids, WriteData(p)
      PROVE  [RENext]_revars
  BY <1>8 DEF WriteData
<1>9. ASSUME NEW p \in Pids, Deliver(p)
      PROVE  [RENext]_revars
  BY <1>9 DEF Deliver
<1>10. ASSUME NEW p \in Pids, KillCheck(p)
       PROVE  [RENext]_revars
  <2>1. Sid(p) \in SubjectIds /\ on[p] \in SubjectIds
    BY <1>10, LiveUser DEF KillCheck, TypeOK
  <2>2. \E ret \in Results : kill_check(Sid(p), on[p], ret)
    BY <1>10 DEF KillCheck, Results
  <2>3. QED
    BY <2>1, <2>2 DEF RENext
<1>11. ASSUME NEW p \in Pids, Exit(p)
       PROVE  [RENext]_revars
  BY <1>11 DEF Exit, Ends
<1>12. ASSUME NEW p \in Pids, Unchecked(p)
       PROVE  [RENext]_revars
  BY <1>12 DEF Unchecked
<1>13. CASE UNCHANGED vars
  BY <1>13 DEF vars, revars
<1>14. QED
  BY <1>1, <1>2, <1>3, <1>4, <1>5, <1>6, <1>7, <1>8, <1>9, <1>10, <1>11, <1>12, <1>13
     DEF Next

\* The part of TypeOK about the processes.
ProcTypeOK ==
  /\ pc \in [Pids -> PCs]
  /\ uid \in [Pids -> Users \cup {NoUser}]
  /\ on \in [Pids -> Files \cup Pids \cup {InitProc} \cup SubjectIds]
  /\ \A p \in Pids :
       /\ pc[p] = "free" <=> uid[p] = NoUser
       /\ pc[p] \in {"read", "write"} => on[p] \in Files
       /\ pc[p] \in {"found", "kill"} => on[p] \in SubjectIds
       /\ pc[p] \in {"forking", "forkwait", "forked"} => on[p] \in Pids \cup {InitProc}
  /\ know \in [Pids -> Info] /\ buf \in [Pids -> Info]
  /\ content \in [Files -> Info]
  /\ exists \subseteq Files /\ woken \subseteq Pids

\* The part about the semaphores.
LockTypeOK == locks \subseteq Semaphore /\ stranded \subseteq Pids

LEMMA TypeOKParts == TypeOK <=> RETypeOK /\ ProcTypeOK /\ LockTypeOK
  BY DEF TypeOK, ProcTypeOK, LockTypeOK, PCs

LEMMA CutShortType ==
  ASSUME NEW p \in Pids, CutShort(p)
  PROVE  woken' \subseteq Pids
  BY DEF CutShort

LEMMA EndsType ==
  ASSUME ProcTypeOK, NEW p \in Pids, Ends(p)
  PROVE  ProcTypeOK'
<1>1. /\ pc' = [pc EXCEPT ![p] = "free"] /\ uid' = [uid EXCEPT ![p] = NoUser]
      /\ on' = [r \in Pids |-> IF r = p \/ (pc[r] = "forked" /\ on[r] = p)
                                 THEN InitProc ELSE on[r]]
      /\ know' = [know EXCEPT ![p] = Nothing] /\ buf' = [buf EXCEPT ![p] = Nothing]
      /\ woken' \subseteq Pids /\ UNCHANGED <<content, exists>>
  BY DEF Ends, ProcTypeOK
<1>2. QED
  BY <1>1, InfoFacts DEF ProcTypeOK, PCs

LEMMA ProcTypeStep ==
  ASSUME ProcTypeOK, [Next]_vars
  PROVE  ProcTypeOK'
<1>1. ASSUME NEW p \in Pids, NEW c \in Pids, Fork(p, c)
      PROVE  ProcTypeOK'
  BY <1>1, NoUserAssumption DEF Fork, CanFork, ProcTypeOK, PCs
<1>2. ASSUME NEW c \in Pids, ForkCheck(c)
      PROVE  ProcTypeOK'
  BY <1>2 DEF ForkCheck, ProcTypeOK, PCs
<1>3. ASSUME NEW p \in Pids, ForkFails(p)
      PROVE  ProcTypeOK'
  <2>1. pc[p] = "idle" /\ pc' = [pc EXCEPT ![p] = "forking"]
        /\ UNCHANGED <<uid, know, buf, content, exists, woken>> /\ on' = [on EXCEPT ![p] = InitProc]
    BY <1>3 DEF ForkFails, CanFork
  <2>2. QED
    BY <2>1 DEF ProcTypeOK, PCs
<1>4. ASSUME NEW p \in Pids, NEW f \in Files, Open(p, f)
      PROVE  ProcTypeOK'
  BY <1>4 DEF Open, ProcTypeOK
<1>5. ASSUME NEW p \in Pids, NEW f \in Files, Read(p, f)
      PROVE  ProcTypeOK'
  BY <1>5 DEF Read, ProcTypeOK, PCs
<1>6. ASSUME NEW p \in Pids, NEW f \in Files, Write(p, f)
      PROVE  ProcTypeOK'
  BY <1>6, CutShortType DEF Write, ProcTypeOK, PCs
<1>7. ASSUME NEW p \in Pids, ReadCheck(p)
      PROVE  ProcTypeOK'
  BY <1>7, CutShortType, InfoFacts DEF ReadCheck, Return, ProcTypeOK, PCs
<1>8. ASSUME NEW p \in Pids, WriteData(p)
      PROVE  ProcTypeOK'
  BY <1>8, InfoFacts DEF WriteData, Return, ProcTypeOK, PCs
<1>9. ASSUME NEW p \in Pids, Deliver(p)
      PROVE  ProcTypeOK'
  <2>1. /\ Return(p) /\ UNCHANGED <<uid, content, exists, woken>> /\ pc[p] = "kill"
        /\ know' = IF KernelSignals(uid[p], on[p][2])
                     THEN [know EXCEPT ![on[p][2]] = Join(@, buf[p])] ELSE know
    BY <1>9 DEF Deliver
  <2>2. know' \in [Pids -> Info]
    BY <2>1, InfoFacts DEF ProcTypeOK
  <2>3. QED
    BY <2>1, <2>2, InfoFacts DEF Return, ProcTypeOK, PCs
<1>10. ASSUME NEW p \in Pids, NEW q \in Pids, Kill(p, q)
       PROVE  ProcTypeOK'
  <2>1. Sid(q) \in SubjectIds
    BY <1>10 DEF Kill, Live, Sid, SubjectIds, ProcTypeOK
  <2>2. QED
    BY <1>10, <2>1 DEF Kill, ProcTypeOK, PCs
<1>11. ASSUME NEW p \in Pids, KillCheck(p)
       PROVE  ProcTypeOK'
  BY <1>11, CutShortType, InfoFacts DEF KillCheck, Return, ProcTypeOK, PCs
<1>12. ASSUME NEW p \in Pids, Exit(p)
       PROVE  ProcTypeOK'
  BY <1>12, EndsType DEF Exit
<1>13. ASSUME NEW p \in Pids, Post(p) \/ OpenLock(p)
       PROVE  ProcTypeOK'
  <2>1. CASE Ends(p)
    BY <2>1, EndsType
  <2>2. CASE Post(p) /\ ~Ends(p)
    BY <2>2 DEF Post, ProcTypeOK, PCs
  <2>3. CASE OpenLock(p) /\ ~Ends(p)
    BY <2>3 DEF OpenLock, ProcTypeOK, PCs
  <2>4. QED
    BY <1>13, <2>1, <2>2, <2>3
<1>14. ASSUME NEW p \in Pids, ForkReturn(p)
       PROVE  ProcTypeOK'
  <2>1. Return(p) /\ UNCHANGED <<uid, know, content, exists, woken>> /\ pc[p] = "forkwait"
    BY <1>14 DEF ForkReturn
  <2>2. QED
    BY <2>1, InfoFacts DEF Return, ProcTypeOK, PCs
<1>15. ASSUME NEW p \in Pids, Unchecked(p)
       PROVE  ProcTypeOK'
  BY <1>15, InfoFacts, NoUserAssumption DEF Unchecked, Return, ProcTypeOK, PCs
<1>16. CASE UNCHANGED vars
  BY <1>16 DEF vars, ProcTypeOK
<1>17. QED
  BY <1>1, <1>2, <1>3, <1>4, <1>5, <1>6, <1>7, <1>8, <1>9, <1>10, <1>11, <1>12, <1>13, <1>14,
     <1>15, <1>16 DEF Next

LEMMA LeftByType ==
  ASSUME NEW p, NEW sems \in SUBSET Semaphore
  PROVE  LeftBy(p, sems) \subseteq Semaphore
  BY DEF LeftBy, Semaphore

LEMMA LockTypeStep ==
  ASSUME LockTypeOK, [Next]_vars
  PROVE  LockTypeOK'
<1>1. ASSUME CreateLock, UNCHANGED stranded
      PROVE  LockTypeOK'
  <2>1. [named |-> TRUE, value |-> 0, waiters |-> {}] \in Semaphore
    BY DEF Semaphore
  <2>2. CASE Named # {}
    BY <1>1, <2>2 DEF CreateLock, LockTypeOK
  <2>3. CASE Named = {}
    BY <1>1, <2>1, <2>3 DEF CreateLock, LockTypeOK
  <2>4. QED
    BY <2>2, <2>3
<1>2. ASSUME NEW p \in Pids, Ends(p)
      PROVE  LockTypeOK'
  BY <1>2, LeftByType DEF Ends, LockTypeOK
<1>3. ASSUME NEW p \in Pids, NEW s \in locks,
             \/ locks' = (locks \ {s}) \cup {[s EXCEPT !.value = @ + 1]}
             \/ locks' = (locks \ {s}) \cup {[s EXCEPT !.waiters = @ \cup {p}]},
             UNCHANGED stranded
      PROVE  LockTypeOK'
  <2>1. s \in Semaphore
    BY DEF LockTypeOK
  <2>2. [s EXCEPT !.value = @ + 1] \in Semaphore /\ [s EXCEPT !.waiters = @ \cup {p}] \in Semaphore
    BY <2>1 DEF Semaphore
  <2>3. QED
    BY <1>3, <2>2 DEF LockTypeOK
<1>4. ASSUME NEW p \in Pids, ForkReturn(p)
      PROVE  LockTypeOK'
  <2>1. PICK s \in locks :
          /\ p \in s.waiters /\ s.value > 0
          /\ locks' = LeftBy(p, {[t EXCEPT !.named = FALSE] :
                                   t \in (locks \ {s}) \cup {[s EXCEPT !.value = @ - 1]}})
    BY <1>4 DEF ForkReturn
  <2>2. s \in Semaphore /\ [s EXCEPT !.value = @ - 1] \in Semaphore
    BY <2>1 DEF LockTypeOK, Semaphore
  <2>3. \A t \in Semaphore : [t EXCEPT !.named = FALSE] \in Semaphore
    BY DEF Semaphore
  <2>4. {[t EXCEPT !.named = FALSE] : t \in (locks \ {s}) \cup {[s EXCEPT !.value = @ - 1]}}
          \in SUBSET Semaphore
    BY <2>2, <2>3 DEF LockTypeOK
  <2>5. stranded' \subseteq Pids
    BY <1>4 DEF ForkReturn, LockTypeOK
  <2>6. QED
    BY <2>1, <2>4, <2>5, LeftByType DEF LockTypeOK
<1>5. CASE UNCHANGED forkvars
  BY <1>5 DEF forkvars, LockTypeOK
<1>6. ASSUME NEW p \in Pids, NEW c \in Pids, Fork(p, c) \/ ForkFails(p)
      PROVE  LockTypeOK'
  BY <1>1, <1>6 DEF Fork, ForkFails
<1>7. ASSUME NEW p \in Pids, Post(p) \/ OpenLock(p)
      PROVE  LockTypeOK'
  BY <1>2, <1>3, <1>7 DEF Post, OpenLock, Named
<1>8. ASSUME NEW p \in Pids, Exit(p)
      PROVE  LockTypeOK'
  BY <1>2, <1>8 DEF Exit
<1>9. ASSUME NEW p \in Pids, NEW q \in Pids, NEW f \in Files,
             \/ ForkCheck(p) \/ Open(p, f) \/ Read(p, f) \/ Write(p, f)
      PROVE  UNCHANGED forkvars
  BY <1>9 DEF ForkCheck, Open, Read, Write
<1>10. ASSUME NEW p \in Pids, NEW q \in Pids,
             \/ ForkCheck(p) \/ ReadCheck(p) \/ WriteData(p) \/ KillCheck(p) \/ Deliver(p)
             \/ Kill(p, q) \/ Unchecked(p)
      PROVE  UNCHANGED forkvars
  BY <1>10 DEF ForkCheck, ReadCheck, WriteData, KillCheck, Deliver, Kill, Unchecked
<1>11. CASE UNCHANGED vars
  BY <1>5, <1>11 DEF vars, forkvars
<1>12. QED
  BY <1>4, <1>5, <1>6, <1>7, <1>8, <1>9, <1>10, <1>11 DEF Next

LEMMA TypeStep ==
  ASSUME TypeOK, REInv, [Next]_vars
  PROVE  TypeOK' /\ REStep
<1>1. REStep
  BY StepOfRuleEngine, RENextStep
<1>2. ProcTypeOK' /\ LockTypeOK'
  BY TypeOKParts, ProcTypeStep, LockTypeStep
<1>3. QED
  BY <1>1, <1>2 DEF TypeOK, ProcTypeOK, LockTypeOK, PCs, REStep, REInv

LEMMA Invariance == Spec => [](TypeOK /\ REInv)
<1>1. Init => TypeOK /\ REInv
  BY InitTypeOK, REInitInv DEF Init
<1>2. TypeOK /\ REInv /\ [Next]_vars => (TypeOK /\ REInv)'
  BY TypeStep DEF REStep
<1>3. QED
  BY <1>1, <1>2, PTL DEF Spec

(***************************************************************************)
(* Types are kept by every wrapper and kernel step, whatever the faults.   *)
(***************************************************************************)
THEOREM TypeCorrect == Spec => []TypeOK
  BY Invariance, PTL

(***************************************************************************)
(* The wrappers implement the rule engine's specification: they only ever  *)
(* change the database by its checks.                                      *)
(***************************************************************************)
THEOREM ImplementsRuleEngine == Spec => RESpec
<1>1. Init => REInit
  BY DEF Init
<1>2. TypeOK /\ REInv /\ [Next]_vars => [RENext]_revars
  BY StepOfRuleEngine
<1>3. QED
  BY <1>1, <1>2, Invariance, PTL DEF Spec, RESpec

(***************************************************************************)
(* No interleaving of wrappers, no exit and no reused pid takes a user out *)
(* of the readers or the writers of his own processes.                     *)
(***************************************************************************)
THEOREM OwnersKeepAccess == Spec => []OwnerKeepsAccess
  BY ImplementsRuleEngine, RuleEngineInvariant, PTL

(***************************************************************************)
(* No interleaving of wrappers, no exit and no reused pid lowers a label.  *)
(***************************************************************************)
THEOREM LabelsRise == Spec => LabelsOnlyRise
  BY ImplementsRuleEngine, RuleEngineLabelsOnlyRise, PTL

-----------------------------------------------------------------------------
(* Information flow *)

LEMMA CoveredJoin ==
  ASSUME NEW i \in Info, NEW j \in Info, NEW l, Covered(i, l), Covered(j, l)
  PROVE  Covered(Join(i, j), l)
  BY DEF Covered, Join, Info

LEMMA CoveredRises ==
  ASSUME NEW i, NEW l, NEW m, Covered(i, l), FlowsTo(l, m)
  PROVE  Covered(i, m)
  BY DEF Covered, FlowsTo

LEMMA OwnCovered ==
  ASSUME NEW u
  PROVE  /\ Covered(OwnInfo(u), DefaultSubject(u))
         /\ \A l : Covered(Nothing, l)
  BY DEF Covered, OwnInfo, DefaultSubject, Nothing

\* The files start out covered by their labels, the processes know nothing else.
LEMMA InitFlow == Init => FlowInv
<1> SUFFICES ASSUME Init PROVE ContentCovered /\ LockInv /\ \A p \in Pids : ProcessInv(p)
  BY DEF FlowInv
<1>1. ASSUME NEW f \in Files
      PROVE  Covered(content[f], InferredObject(f))
  BY InferredObjectType
     DEF Init, InitialContent, Covered, Nothing, ReadersOf
<1>2. ASSUME NEW p \in Pids
      PROVE  ProcessInv(p)
  <2>1. pc[p] \in {"free", "idle"} /\ DOMAIN subjects = {}
    BY DEF Init, REInit
  <2>2. CASE p \in Shells
    BY <2>1, <2>2 DEF Init, ProcessInv, MemoryCovered, Registered
  <2>3. CASE p \notin Shells
    BY <2>1, <2>3 DEF Init, ProcessInv, MemoryCovered, Registered
  <2>4. QED
    BY <2>2, <2>3
<1>3. LockInv
  <2>1. \A p \in Pids : ~Forking(p) /\ ~Child(p)
    BY DEF Init, Forking, Child
  <2>2. locks = {}
    BY DEF Init
  <2>3. QED
    BY <2>1, <2>2 DEF LockInv
<1>4. QED
  BY <1>1, <1>2, <1>3 DEF ContentCovered

\* The state in which a step that leaves the server up is taken, and what is
\* already known of the step.
Before ==
  /\ TypeOK /\ REInv /\ REStep
  /\ ContentCovered /\ LockInv /\ \A p \in Pids : ProcessInv(p)

\* The step registers nobody under pid q.
RowsKept(q) == \A u \in Users : <<u, q>> \in DOMAIN subjects' <=> <<u, q>> \in DOMAIN subjects

LEMMA MemoryKept ==
  ASSUME Before, NEW p \in Pids, NEW q \in Pids, RowsKept(q),
         uid[q] \in Users, uid'[p] = uid[p], uid'[q] = uid[q], know'[p] = know[p],
         MemoryCovered(p, q)
  PROVE  MemoryCovered(p, q)'
<1>1. Sid(q)' = Sid(q) /\ (Registered(q)' <=> Registered(q))
  BY DEF Sid, Registered, RowsKept
<1>2. CASE Registered(q)
  <2>1. FlowsTo(subjects[Sid(q)], subjects'[Sid(q)])
    BY <1>2 DEF Before, REStep, Registered
  <2>2. Covered(know[p], subjects'[Sid(q)])
    BY <1>2, <2>1, CoveredRises DEF MemoryCovered
  <2>3. QED
    BY <1>1, <1>2, <2>2 DEF MemoryCovered, Covered, ReadersOf
<1>3. CASE ~Registered(q)
  BY <1>1, <1>3 DEF MemoryCovered
<1>4. QED
  BY <1>2, <1>3

\* A process in a wrapper keeps what it remembers covered, and its row.
LEMMA OwnKept ==
  ASSUME Before, NEW r \in Pids, pc[r] \notin {"free", "forked"}, RowsKept(r),
         uid'[r] = uid[r], know'[r] = know[r]
  PROVE  /\ MemoryCovered(r, r)'
         /\ \A u \in Users : <<u, r>> \in DOMAIN subjects' => u = uid'[r]
<1>1. ProcessInv(r) /\ uid[r] \in Users
  BY LiveUser DEF Before
<1>2. QED
  BY <1>1, MemoryKept DEF ProcessInv, RowsKept

(***************************************************************************)
(* A process that does not move keeps its invariant, provided the parent   *)
(* it refers to keeps what the invariant says of it.                       *)
(***************************************************************************)
LEMMA ProcessKept ==
  ASSUME Before, NEW r \in Pids, RowsKept(r),
         pc'[r] = pc[r], uid'[r] = uid[r], know'[r] = know[r], buf'[r] = buf[r],
         pc[r] # "idle" => on'[r] = on[r],
         pc[r] = "forked" =>
           /\ Forking(on[r])' /\ on'[on[r]] = on[on[r]]
           /\ uid'[on[r]] = uid[on[r]] /\ RowsKept(on[r])
  PROVE  ProcessInv(r)'
<1>1. ProcessInv(r) /\ TypeOK
  BY DEF Before
<1>2. (pc[r] = "free" => know[r] = Nothing)'
  BY <1>1 DEF ProcessInv
<1>3. (pc[r] \notin {"free", "forked"} =>
         /\ MemoryCovered(r, r)
         /\ \A u \in Users : <<u, r>> \in DOMAIN subjects => u = uid[r])'
  BY OwnKept
<1>4. CASE pc[r] = "forked"
  <2>1. /\ NoRowOf(r)
        /\ on[r] \in Pids /\ Forking(on[r]) /\ on[on[r]] = r
        /\ uid[on[r]] = uid[r]
        /\ MemoryCovered(r, on[r])
    BY <1>1, <1>4 DEF ProcessInv
  <2>2. MemoryCovered(r, on[r])'
    <3>1. uid[on[r]] \in Users
      BY <1>1, <2>1, LiveUser DEF Forking
    <3>2. ASSUME NEW q \in Pids, q = on[r]
          PROVE  MemoryCovered(r, q)'
      BY <1>4, <2>1, <3>1, <3>2, MemoryKept
    <3>3. on'[r] = on[r]
      BY <1>4
    <3>4. QED
      BY <2>1, <3>2, <3>3
  <2>3. NoRowOf(r)'
    BY <2>1 DEF NoRowOf, RowsKept
  <2>4. /\ on'[r] \in Pids /\ pc'[on'[r]] \in {"forking", "forkwait"} /\ on'[on'[r]] = r
        /\ uid'[on'[r]] = uid'[r]
    BY <1>4, <2>1 DEF Forking
  <2>5. QED
    BY <1>2, <1>3, <1>4, <2>2, <2>3, <2>4 DEF ProcessInv, Forking
<1>5. CASE pc[r] = "kill"
  <2>1. on'[r] = on[r] /\ on[r] \in DOMAIN subjects /\ Covered(buf[r], subjects[on[r]])
    BY <1>1, <1>5 DEF ProcessInv
  <2>2. on[r] \in DOMAIN subjects' /\ FlowsTo(subjects[on[r]], subjects'[on[r]])
    BY <2>1 DEF Before, REStep
  <2>3. Covered(buf[r], subjects'[on[r]])
    BY <2>1, <2>2, CoveredRises
  <2>4. QED
    BY <1>2, <1>3, <1>5, <2>1, <2>2, <2>3 DEF ProcessInv, Covered, ReadersOf
<1>6. CASE pc[r] \notin {"forked", "kill"}
  <2>1. (pc[r] \in {"read", "write"} => Covered(buf[r], InferredObject(on[r])))'
    BY <1>1 DEF ProcessInv, Covered, ReadersOf, InferredObject
  <2>2. QED
    BY <1>2, <1>3, <1>6, <2>1 DEF ProcessInv
<1>7. QED
  BY <1>4, <1>5, <1>6

(***************************************************************************)
(* One process p moves from one step of a wrapper to another: the others   *)
(* keep their invariant.                                                   *)
(***************************************************************************)
LEMMA OthersKept ==
  ASSUME Before, NEW p \in Pids, NEW r \in Pids \ {p},
         DOMAIN subjects' = DOMAIN subjects,
         pc[p] # "forked",
         Forking(p) => Forking(p)' /\ on'[p] = on[p],
         \A q \in Pids \ {p} : pc'[q] = pc[q] /\ on'[q] = on[q] /\ buf'[q] = buf[q],
         uid' = uid, know'[r] = know[r]
  PROVE  ProcessInv(r)'
<1>1. \A q : RowsKept(q)
  BY DEF RowsKept
<1>2. ASSUME pc[r] = "forked"
      PROVE  /\ Forking(on[r])' /\ on'[on[r]] = on[on[r]]
             /\ uid'[on[r]] = uid[on[r]]
  <2>1. on[r] \in Pids /\ Forking(on[r])
    BY <1>2 DEF Before, ProcessInv
  <2>2. CASE on[r] = p
    BY <2>1, <2>2
  <2>3. CASE on[r] # p
    BY <2>1, <2>3 DEF Forking
  <2>4. QED
    BY <2>2, <2>3
<1>3. QED
  BY <1>1, <1>2, ProcessKept

\* No semaphore is touched, and nobody begins or ends his part of a fork.
LEMMA LockKept ==
  ASSUME Before, locks' = locks,
         \A r \in Pids : (Forking(r)' <=> Forking(r)) /\ (Child(r)' <=> Child(r))
  PROVE  LockInv'
<1>1. \A s \in locks : s.waiters \subseteq Pids
  BY DEF Before, TypeOK, Semaphore
<1>2. Named' = Named
  BY DEF Named
<1>3. QED
  BY <1>1, <1>2 DEF Before, LockInv

\* A call of p that is not fork is begun, goes on or returns.
LEMMA LockKeptByCall ==
  ASSUME Before, NEW p \in Pids, locks' = locks,
         ~Forking(p), ~Forking(p)', ~Child(p), ~Child(p)',
         \A r \in Pids \ {p} : pc'[r] = pc[r]
  PROVE  LockInv'
<1>1. \A r \in Pids : (Forking(r)' <=> Forking(r)) /\ (Child(r)' <=> Child(r))
  BY DEF Forking, Child
<1>2. QED
  BY <1>1, LockKept

\* A fork begins where none was in progress.
LEMMA LockStart ==
  ASSUME Before, NEW p \in Pids, NEW c \in Pids, CreateLock,
         \A r \in Pids : ~Forking(r) /\ ~Child(r),
         pc'[p] = "forking", ~Forking(c)' \/ c = p,
         \A r \in Pids \ {p, c} : pc'[r] = pc[r]
  PROVE  LockInv'
<1>1. \A s \in locks : s.waiters = {} /\ ~(s.value > 0)
  BY DEF Before, TypeOK, Semaphore, LockInv
<1>2. \A s \in locks' : s.waiters = {} /\ ~(s.value > 0)
  <2>1. CASE Named # {}
    BY <1>1, <2>1 DEF CreateLock
  <2>2. CASE Named = {}
    <3>1. locks' = locks \cup {[named |-> TRUE, value |-> 0, waiters |-> {}]}
      BY <2>2 DEF CreateLock
    <3>2. QED
      BY <1>1, <3>1
  <2>3. QED
    BY <2>1, <2>2
<1>3. Named' # {}
  <2>1. CASE Named # {}
    BY <2>1 DEF CreateLock, Named
  <2>2. CASE Named = {}
    <3>1. [named |-> TRUE, value |-> 0, waiters |-> {}] \in locks'
      BY <2>2 DEF CreateLock
    <3>2. [named |-> TRUE, value |-> 0, waiters |-> {}].named
      OBVIOUS
    <3>3. QED
      BY <3>1, <3>2 DEF Named
  <2>3. QED
    BY <2>1, <2>2
<1>4. /\ \A r \in Pids : Forking(r)' <=> r = p
      /\ \A r \in Pids : Child(r)' => r = c
  <2>1. \A r \in Pids \ {p, c} : ~Forking(r)' /\ ~Child(r)'
    BY DEF Forking, Child
  <2>2. Forking(p)' /\ ~Child(p)'
    BY DEF Forking, Child
  <2>3. QED
    BY <2>1, <2>2
<1>5. QED
  BY <1>2, <1>3, <1>4 DEF LockInv

LEMMA ForkFlow ==
  ASSUME Before, Faults \subseteq {"fork_fails"}, NEW p \in Pids, NEW c \in Pids, Fork(p, c)
  PROVE  ContentCovered' /\ LockInv' /\ \A r \in Pids : ProcessInv(r)'
<1>1. /\ p # c /\ UNCHANGED <<subjects, buf, content>> /\ NoRowOf(c) /\ CreateLock
      /\ \A q \in Pids : ~Forking(q) /\ ~Child(q)
      /\ pc[p] = "idle" /\ pc[c] = "free"
      /\ TypeOK /\ uid[p] \in Users
  BY LiveUser DEF Fork, CanFork, Before, revars
<1>2. /\ pc'[p] = "forking" /\ pc'[c] = "forked" /\ on'[p] = c /\ on'[c] = p
      /\ uid'[p] = uid[p] /\ uid'[c] = uid[p] /\ know'[p] = know[p] /\ know'[c] = know[p]
      /\ \A r \in Pids \ {p, c} : /\ pc'[r] = pc[r] /\ on'[r] = on[r]
                                  /\ uid'[r] = uid[r] /\ know'[r] = know[r]
  BY <1>1 DEF Fork, TypeOK
<1>3. \A q : RowsKept(q)
  BY <1>1 DEF RowsKept
<1>4. MemoryCovered(p, p)' /\ \A u \in Users : <<u, p>> \in DOMAIN subjects' => u = uid'[p]
  BY <1>1, <1>2, <1>3, OwnKept
<1>5. ProcessInv(p)'
  BY <1>2, <1>4 DEF ProcessInv
<1>6. ProcessInv(c)'
  <2>1. Sid(p)' = Sid(p) /\ (Registered(p)' <=> Registered(p))
    BY <1>1, <1>2 DEF Sid, Registered
  <2>2. MemoryCovered(c, p)'
    BY <1>2, <1>4, <2>1 DEF MemoryCovered
  <2>3. NoRowOf(c)'
    BY <1>1 DEF NoRowOf
  <2>4. QED
    BY <1>2, <2>2, <2>3 DEF ProcessInv, Forking
<1>7. ASSUME NEW r \in Pids \ {p, c}
      PROVE  ProcessInv(r)'
  <2>1. pc[r] # "forked"
    BY <1>1 DEF Child
  <2>2. QED
    BY <1>1, <1>2, <1>3, <2>1, ProcessKept
<1>8. ContentCovered'
  BY <1>1 DEF Before, ContentCovered, Covered, ReadersOf
<1>9. LockInv'
  BY <1>1, <1>2, LockStart DEF Forking
<1>10. QED
  BY <1>5, <1>6, <1>7, <1>8, <1>9

LEMMA ForkFailsFlow ==
  ASSUME Before, Faults \subseteq {"fork_fails"}, NEW p \in Pids, ForkFails(p)
  PROVE  ContentCovered' /\ LockInv' /\ \A r \in Pids : ProcessInv(r)'
<1>1. /\ UNCHANGED <<subjects, uid, know, buf, content>> /\ CreateLock
      /\ \A q \in Pids : ~Forking(q) /\ ~Child(q)
      /\ pc[p] = "idle" /\ TypeOK
  BY DEF ForkFails, CanFork, Before, revars
<1>2. /\ pc'[p] = "forking"
      /\ \A r \in Pids \ {p} : pc'[r] = pc[r] /\ on'[r] = on[r]
  BY <1>1 DEF ForkFails, TypeOK
<1>3. \A r \in Pids \ {p} : ProcessInv(r)'
  BY <1>1, <1>2, OthersKept
<1>4. MemoryCovered(p, p)' /\ \A u \in Users : <<u, p>> \in DOMAIN subjects' => u = uid'[p]
  BY <1>1, OwnKept DEF RowsKept
<1>5. ProcessInv(p)'
  BY <1>2, <1>4 DEF ProcessInv
<1>6. ContentCovered'
  BY <1>1 DEF Before, ContentCovered, Covered, ReadersOf
<1>7. LockInv'
  BY <1>1, <1>2, LockStart
<1>8. QED
  BY <1>3, <1>5, <1>6, <1>7

LEMMA ForkCheckFlow ==
  ASSUME Before, NEW c \in Pids, ForkCheck(c)
  PROVE  ContentCovered' /\ LockInv' /\ \A r \in Pids : ProcessInv(r)'
<1>0. PICK p \in Pids : p = on[c]
  BY DEF ForkCheck, Before, ProcessInv
<1>1. /\ pc[c] = "forked" /\ TypeOK /\ UNCHANGED <<uid, know, buf, content, locks>>
      /\ subjects' = AddRow(subjects, <<uid[c], c>>,
                            IF <<uid[c], p>> \in DOMAIN subjects
                              THEN subjects[<<uid[c], p>>] ELSE DefaultSubject(uid[c]))
  BY <1>0 DEF ForkCheck, fork_check, Before, forkvars
<1>2. /\ p # c /\ Forking(p) /\ uid[p] = uid[c]
      /\ NoRowOf(c) /\ MemoryCovered(c, p) /\ uid[c] \in Users
  BY <1>0, <1>1, LiveUser DEF Before, ProcessInv, Forking
<1>3. /\ pc'[c] = "posting"
      /\ \A r \in Pids \ {c} : pc'[r] = pc[r] /\ on'[r] = on[r]
  BY <1>1 DEF ForkCheck, TypeOK
<1>4. \A q : q # c => RowsKept(q)
  BY <1>1 DEF RowsKept, AddRow
<1>5. ProcessInv(c)'
  <2>1. Sid(c)' = <<uid[c], c>> /\ <<uid[c], c>> \notin DOMAIN subjects /\ Sid(p) = <<uid[c], p>>
    BY <1>1, <1>2 DEF Sid, NoRowOf
  <2>2. /\ Registered(c)'
        /\ subjects'[Sid(c)'] = IF Registered(p) THEN subjects[Sid(p)] ELSE DefaultSubject(uid[c])
    BY <1>1, <2>1 DEF AddRow, Registered
  <2>3. Covered(know[c], subjects'[Sid(c)'])
    BY <1>2, <2>1, <2>2, OwnCovered DEF MemoryCovered
  <2>4. MemoryCovered(c, c)'
    BY <1>1, <2>2, <2>3 DEF MemoryCovered, Covered, ReadersOf
  <2>5. \A u \in Users : <<u, c>> \in DOMAIN subjects' => u = uid'[c]
    BY <1>1, <1>2 DEF NoRowOf, AddRow
  <2>6. QED
    BY <1>3, <2>4, <2>5 DEF ProcessInv
<1>6. ASSUME NEW r \in Pids \ {c}
      PROVE  ProcessInv(r)'
  <2>1. ASSUME pc[r] = "forked"
        PROVE  /\ Forking(on[r])' /\ on'[on[r]] = on[on[r]]
               /\ uid'[on[r]] = uid[on[r]] /\ RowsKept(on[r])
    <3>1. on[r] \in Pids \ {c} /\ Forking(on[r])
      BY <1>1, <2>1 DEF Before, ProcessInv, Forking
    <3>2. QED
      BY <1>1, <1>3, <1>4, <3>1 DEF Forking
  <2>2. QED
    BY <1>1, <1>3, <1>4, <2>1, ProcessKept
<1>7. ContentCovered'
  BY <1>1 DEF Before, ContentCovered, Covered, ReadersOf
<1>8. LockInv'
  <2>1. \A r \in Pids : (Forking(r)' <=> Forking(r)) /\ (Child(r)' <=> Child(r))
    BY <1>1, <1>3 DEF Forking, Child
  <2>2. QED
    BY <1>1, <2>1, LockKept
<1>9. QED
  BY <1>5, <1>6, <1>7, <1>8

\* Of p only the place in fork's handshake changes.
LEMMA HandshakeFlow ==
  ASSUME Before, NEW p \in Pids, pc[p] \notin {"free", "forked"},
         pc'[p] \in {"idle", "forkwait"}, Forking(p) => Forking(p)',
         \A q \in Pids \ {p} : pc'[q] = pc[q],
         UNCHANGED <<subjects, uid, on, know, buf, content>>
  PROVE  ContentCovered' /\ \A r \in Pids : ProcessInv(r)'
<1>1. \A r \in Pids \ {p} : ProcessInv(r)'
  BY OthersKept
<1>2. MemoryCovered(p, p)' /\ \A u \in Users : <<u, p>> \in DOMAIN subjects' => u = uid'[p]
  BY OwnKept DEF RowsKept
<1>3. ProcessInv(p)'
  BY <1>2 DEF ProcessInv
<1>4. ContentCovered'
  BY DEF Before, ContentCovered, Covered, ReadersOf
<1>5. QED
  BY <1>1, <1>3, <1>4

LEMMA PostFlow ==
  ASSUME Before, NEW c \in Pids, Post(c)
  PROVE  ContentCovered' /\ LockInv' /\ \A r \in Pids : ProcessInv(r)'
<1>1. pc[c] = "posting" /\ Child(c) /\ Named # {}
  BY DEF Post, Child, Before, LockInv
<1>2. PICK s \in Named : locks' = (locks \ {s}) \cup {[s EXCEPT !.value = @ + 1]}
  BY <1>1 DEF Post
<1>3. /\ pc' = [pc EXCEPT ![c] = "idle"] /\ TypeOK
      /\ UNCHANGED <<subjects, uid, on, know, buf, content>>
  BY <1>1 DEF Post, Before, revars
<1>4. pc'[c] = "idle" /\ \A q \in Pids \ {c} : pc'[q] = pc[q]
  BY <1>3 DEF TypeOK
<1>5. ContentCovered' /\ \A r \in Pids : ProcessInv(r)'
  BY <1>1, <1>3, <1>4, HandshakeFlow DEF Forking
<1>6. LockInv'
  <2>1. s \in locks /\ s \in Semaphore /\ s.named
    BY <1>2, <1>3 DEF Named, TypeOK
  <2>2. PICK t : t = [s EXCEPT !.value = @ + 1]
    OBVIOUS
  <2>3. t.named /\ t.waiters = s.waiters
    BY <2>1, <2>2 DEF Semaphore
  <2>4. t \in locks' /\ \A z \in locks' : z \in locks \/ z = t
    BY <1>2, <2>2
  <2>5. Named' # {}
    BY <2>3, <2>4 DEF Named
  <2>6. \A z \in locks' : z.waiters \subseteq Pids /\ \A p \in z.waiters : Forking(p)
    BY <1>3, <2>1, <2>3, <2>4 DEF Before, LockInv, TypeOK, Semaphore
  <2>7. \A r \in Pids : (Forking(r)' <=> Forking(r)) /\ ~Child(r)'
    BY <1>1, <1>4 DEF Forking, Child, Before, LockInv
  <2>8. (\E p \in Pids : Forking(p)) /\ \A p, q \in Pids : Forking(p) /\ Forking(q) => p = q
    BY <1>1 DEF Before, LockInv
  <2>9. QED
    BY <2>5, <2>6, <2>7, <2>8 DEF LockInv
<1>7. QED
  BY <1>5, <1>6

LEMMA OpenLockFlow ==
  ASSUME Before, NEW p \in Pids, OpenLock(p)
  PROVE  ContentCovered' /\ LockInv' /\ \A r \in Pids : ProcessInv(r)'
<1>1. pc[p] = "forking" /\ Forking(p) /\ Named # {}
  BY DEF OpenLock, Forking, Before, LockInv
<1>2. PICK s \in Named : locks' = (locks \ {s}) \cup {[s EXCEPT !.waiters = @ \cup {p}]}
  BY <1>1 DEF OpenLock
<1>3. /\ pc' = [pc EXCEPT ![p] = "forkwait"] /\ TypeOK
      /\ UNCHANGED <<subjects, uid, on, know, buf, content>>
  BY <1>1 DEF OpenLock, Before, revars
<1>4. pc'[p] = "forkwait" /\ \A q \in Pids \ {p} : pc'[q] = pc[q]
  BY <1>3 DEF TypeOK
<1>5. ContentCovered' /\ \A r \in Pids : ProcessInv(r)'
  BY <1>1, <1>3, <1>4, HandshakeFlow DEF Forking
<1>6. LockInv'
  <2>1. s \in locks /\ s \in Semaphore /\ s.named
    BY <1>2, <1>3 DEF Named, TypeOK
  <2>2. PICK t : t = [s EXCEPT !.waiters = @ \cup {p}]
    OBVIOUS
  <2>3. t.named /\ t.waiters = s.waiters \cup {p} /\ t.value = s.value
    BY <2>1, <2>2 DEF Semaphore
  <2>4. t \in locks' /\ \A z \in locks' : z \in locks \/ z = t
    BY <1>2, <2>2
  <2>5. Named' # {}
    BY <2>3, <2>4 DEF Named
  <2>6. \A z \in locks' : z.waiters \subseteq Pids /\ \A q \in z.waiters : Forking(q)
    BY <1>1, <1>3, <2>1, <2>3, <2>4 DEF Before, LockInv, TypeOK, Semaphore
  <2>7. \A r \in Pids : (Forking(r)' <=> Forking(r)) /\ (Child(r)' <=> Child(r))
    BY <1>1, <1>4 DEF Forking, Child
  <2>8. \A z \in locks' : z.value > 0 => \A c \in Pids : ~Child(c)
    BY <2>1, <2>3, <2>4 DEF Before, LockInv
  <2>9. /\ \A q, r \in Pids : Forking(q) /\ Forking(r) => q = r
        /\ \A q, r \in Pids : Child(q) /\ Child(r) => q = r
    BY DEF Before, LockInv
  <2>10. QED
    BY <1>1, <2>5, <2>6, <2>7, <2>8, <2>9 DEF LockInv
<1>7. QED
  BY <1>5, <1>6

\* The state of p once Return(p) is done.
LEMMA Returned ==
  ASSUME TypeOK, NEW p \in Pids, Return(p)
  PROVE  /\ pc'[p] = "idle"
         /\ \A q \in Pids \ {p} : pc'[q] = pc[q] /\ on'[q] = on[q] /\ buf'[q] = buf[q]
  BY DEF Return, TypeOK

LEMMA ForkReturnFlow ==
  ASSUME Before, NEW p \in Pids, ForkReturn(p)
  PROVE  ContentCovered' /\ LockInv' /\ \A r \in Pids : ProcessInv(r)'
<1>1. /\ pc[p] = "forkwait" /\ Forking(p) /\ Return(p) /\ TypeOK
      /\ UNCHANGED <<subjects, uid, know, content>>
  BY DEF ForkReturn, Forking, Before, revars
<1>2. PICK s \in locks :
        /\ p \in s.waiters /\ s.value > 0
        /\ locks' = LeftBy(p, {[t EXCEPT !.named = FALSE] :
                                 t \in (locks \ {s}) \cup {[s EXCEPT !.value = @ - 1]}})
  BY DEF ForkReturn
<1>3. /\ \A q \in Pids : Forking(q) => q = p
      /\ \A q \in Pids : ~Child(q)
  BY <1>1, <1>2 DEF Before, LockInv
<1>4. /\ pc'[p] = "idle"
      /\ \A q \in Pids \ {p} : pc'[q] = pc[q] /\ on'[q] = on[q] /\ buf'[q] = buf[q]
  BY <1>1, Returned
<1>5. ASSUME NEW r \in Pids \ {p}
      PROVE  ProcessInv(r)'
  <2>1. pc[r] # "forked"
    BY <1>3 DEF Child
  <2>2. QED
    BY <1>1, <1>4, <2>1, ProcessKept DEF RowsKept
<1>6. MemoryCovered(p, p)' /\ \A u \in Users : <<u, p>> \in DOMAIN subjects' => u = uid'[p]
  BY <1>1, OwnKept DEF RowsKept
<1>7. ProcessInv(p)'
  BY <1>4, <1>6 DEF ProcessInv
<1>8. ContentCovered'
  BY <1>1 DEF Before, ContentCovered, Covered, ReadersOf
<1>9. LockInv'
  <2>1. \A t \in locks : t \in Semaphore /\ t.waiters \subseteq {p}
    BY <1>1, <1>3 DEF Before, TypeOK, Semaphore, LockInv
  <2>2. PICK w : w = [s EXCEPT !.value = @ - 1]
    OBVIOUS
  <2>3. s \in Semaphore /\ w = [named |-> s.named, value |-> s.value - 1, waiters |-> s.waiters]
    BY <2>1, <2>2 DEF Semaphore
  <2>4. w \in Semaphore /\ w.waiters \subseteq {p}
    BY <1>2, <2>1, <2>3 DEF Semaphore
  <2>5. \A t \in Semaphore : t.waiters \subseteq {p} =>
          /\ ~[[t EXCEPT !.named = FALSE] EXCEPT !.waiters = @ \ {p}].named
          /\ [[t EXCEPT !.named = FALSE] EXCEPT !.waiters = @ \ {p}].waiters = {}
    BY DEF Semaphore
  <2>6. locks' = {}
    <3>1. PICK sems : sems = {[t EXCEPT !.named = FALSE] : t \in (locks \ {s}) \cup {w}}
      OBVIOUS
    <3>2. \A z \in sems : ~[z EXCEPT !.waiters = @ \ {p}].named
                        /\ [z EXCEPT !.waiters = @ \ {p}].waiters = {}
      BY <2>1, <2>4, <2>5, <3>1
    <3>3. LeftBy(p, sems) = {}
      BY <3>2 DEF LeftBy
    <3>4. QED
      BY <1>2, <2>2, <3>1, <3>3
  <2>7. \A r \in Pids : ~Forking(r)' /\ ~Child(r)'
    BY <1>3, <1>4 DEF Forking, Child
  <2>8. QED
    BY <2>6, <2>7 DEF LockInv
<1>10. QED
  BY <1>5, <1>7, <1>8, <1>9

LEMMA OpenFlow ==
  ASSUME Before, NEW p \in Pids, NEW f \in Files, Open(p, f), server = "up"
  PROVE  ContentCovered' /\ LockInv' /\ \A r \in Pids : ProcessInv(r)'
<1>1. UNCHANGED <<subjects, pc, uid, on, know, buf, content, locks>> /\ TypeOK
  BY DEF Open, file_open_check, Before, forkvars
<1>2. ASSUME NEW r \in Pids
      PROVE  ProcessInv(r)'
  <2>1. \A q : RowsKept(q)
    BY <1>1 DEF RowsKept
  <2>2. pc[r] = "forked" => Forking(on[r])
    BY DEF Before, ProcessInv
  <2>3. Forking(on[r]) => Forking(on[r])'
    BY <1>1 DEF Forking
  <2>4. QED
    BY <1>1, <2>1, <2>2, <2>3, ProcessKept
<1>3. ContentCovered'
  BY <1>1 DEF Before, ContentCovered, Covered, ReadersOf
<1>4. LockInv'
  BY <1>1, LockKept DEF Forking, Child
<1>5. QED
  BY <1>2, <1>3, <1>4

LEMMA ReadFlow ==
  ASSUME Before, NEW p \in Pids, NEW f \in Files, Read(p, f)
  PROVE  ContentCovered' /\ LockInv' /\ \A r \in Pids : ProcessInv(r)'
<1>1. /\ UNCHANGED <<subjects, uid, know, content, locks>> /\ TypeOK
      /\ pc[p] = "idle" /\ uid[p] \in Users
  BY LiveUser DEF Read, Before, revars, forkvars
<1>2. /\ pc'[p] = "read" /\ on'[p] = f /\ buf'[p] = content[f]
      /\ \A q \in Pids \ {p} : pc'[q] = pc[q] /\ on'[q] = on[q] /\ buf'[q] = buf[q]
  BY <1>1 DEF Read, TypeOK
<1>3. /\ ~Forking(p) /\ ~Forking(p)' /\ ~Child(p) /\ ~Child(p)'
  BY <1>1, <1>2 DEF Forking, Child
<1>4. \A r \in Pids \ {p} : ProcessInv(r)'
  BY <1>1, <1>2, <1>3, OthersKept
<1>5. ProcessInv(p)'
  <2>1. MemoryCovered(p, p)' /\ \A u \in Users : <<u, p>> \in DOMAIN subjects' => u = uid'[p]
    BY <1>1, OwnKept DEF RowsKept
  <2>2. Covered(buf'[p], InferredObject(f))
    BY <1>2 DEF Before, ContentCovered
  <2>3. QED
    BY <1>2, <2>1, <2>2 DEF ProcessInv, Covered, ReadersOf, InferredObject
<1>6. ContentCovered'
  BY <1>1 DEF Before, ContentCovered, Covered, ReadersOf
<1>7. LockInv'
  BY <1>1, <1>2, <1>3, LockKeptByCall
<1>8. QED
  BY <1>4, <1>5, <1>6, <1>7

\* A call that is not fork returns.
LEMMA ReturnedCall ==
  ASSUME Before, NEW p \in Pids, Return(p), ~Forking(p), ~Child(p), locks' = locks
  PROVE  LockInv' /\ ~Forking(p)'
<1>1. pc'[p] = "idle" /\ \A q \in Pids \ {p} : pc'[q] = pc[q]
  BY Returned DEF Before
<1>2. ~Forking(p)' /\ ~Child(p)'
  BY <1>1 DEF Forking, Child
<1>3. QED
  BY <1>1, <1>2, LockKeptByCall

LEMMA ReadCheckFlow ==
  ASSUME Before, NEW p \in Pids, ReadCheck(p), server' = "up"
  PROVE  ContentCovered' /\ LockInv' /\ \A r \in Pids : ProcessInv(r)'
<1>1. /\ UNCHANGED <<uid, content, locks>> /\ TypeOK /\ pc[p] = "read" /\ on[p] \in Files
      /\ uid[p] \in Users /\ know[p] \in Info /\ buf[p] \in Info
      /\ DOMAIN subjects' = DOMAIN subjects
  BY LiveUser DEF ReadCheck, file_read_check, StopServer, Before, TypeOK, revars, forkvars
<1>2. Return(p)
  BY DEF ReadCheck, file_read_check, StopServer
<1>3. \A r \in Pids \ {p} : know'[r] = know[r]
  BY <1>1 DEF ReadCheck, TypeOK
<1>4. ~Forking(p) /\ ~Child(p)
  BY <1>1 DEF Forking, Child
<1>5. \A r \in Pids \ {p} : ProcessInv(r)'
  BY <1>1, <1>2, <1>3, <1>4, Returned, OthersKept
<1>6. MemoryCovered(p, p)'
  <2>1. CASE file_read_check(Sid(p), on[p], "allowed") /\ know'[p] = Join(know[p], buf[p])
    <3>1. /\ Registered(p) /\ on[p] \in DOMAIN objects
          /\ subjects' = [subjects EXCEPT ![Sid(p)] = Raise(@, objects[on[p]])]
      BY <2>1 DEF file_read_check, Registered
    <3>2. /\ Sid(p)' = Sid(p) /\ Registered(p)'
          /\ subjects'[Sid(p)] = Raise(subjects[Sid(p)], InferredObject(on[p]))
      BY <1>1, <3>1 DEF Sid, Registered, Before, REInv, ObjectsInferred
    <3>3. /\ subjects[Sid(p)] \in SubjectRow
          /\ InferredObject(on[p]).readers \subseteq Users
          /\ InferredObject(on[p]).writers \subseteq Users
      BY <1>1, <3>1, InferredObjectType
         DEF Before, REInv, RETypeOK, Registered, ObjectRow, UserSet
    <3>4. /\ FlowsTo(subjects[Sid(p)], subjects'[Sid(p)])
          /\ FlowsTo(InferredObject(on[p]), subjects'[Sid(p)])
      BY <3>2, <3>3, RaiseRow DEF FlowsTo
    <3>5. Covered(know[p], subjects[Sid(p)]) /\ Covered(buf[p], InferredObject(on[p]))
      BY <1>1, <3>1 DEF Before, ProcessInv, MemoryCovered
    <3>6. Covered(Join(know[p], buf[p]), subjects'[Sid(p)])
      BY <1>1, <3>4, <3>5, CoveredRises, CoveredJoin
    <3>7. QED
      BY <2>1, <3>2, <3>6 DEF MemoryCovered, Covered, ReadersOf
  <2>2. CASE know' = know
    BY <1>1, <2>2, OwnKept DEF RowsKept
  <2>3. QED
    BY <1>1, <2>1, <2>2 DEF ReadCheck, TypeOK
<1>7. \A u \in Users : <<u, p>> \in DOMAIN subjects' => u = uid'[p]
  BY <1>1 DEF Before, ProcessInv
<1>8. ProcessInv(p)'
  BY <1>1, <1>2, <1>6, <1>7, Returned DEF ProcessInv
<1>9. ContentCovered'
  BY <1>1 DEF Before, ContentCovered, Covered, ReadersOf
<1>10. QED
  BY <1>1, <1>2, <1>4, <1>5, <1>8, <1>9, ReturnedCall

LEMMA WriteFlow ==
  ASSUME Before, NEW p \in Pids, NEW f \in Files, Write(p, f)
  PROVE  ContentCovered' /\ LockInv' /\ \A r \in Pids : ProcessInv(r)'
<1>1. /\ UNCHANGED <<subjects, objects, uid, know, content, locks>> /\ TypeOK
      /\ pc[p] = "idle" /\ uid[p] \in Users
  BY LiveUser DEF Write, file_write_check, StopServer, Before, revars, forkvars
<1>2. \A q \in Pids \ {p} : pc'[q] = pc[q] /\ on'[q] = on[q] /\ buf'[q] = buf[q]
  BY <1>1 DEF Write, TypeOK
<1>3. pc'[p] \in {"idle", "write"}
  BY <1>1 DEF Write, TypeOK
<1>4. /\ ~Forking(p) /\ ~Forking(p)' /\ ~Child(p) /\ ~Child(p)'
  BY <1>1, <1>3 DEF Forking, Child
<1>5. \A r \in Pids \ {p} : ProcessInv(r)'
  BY <1>1, <1>2, <1>4, OthersKept
<1>6. /\ MemoryCovered(p, p) /\ MemoryCovered(p, p)'
      /\ \A u \in Users : <<u, p>> \in DOMAIN subjects' => u = uid'[p]
  BY <1>1, OwnKept DEF Before, ProcessInv, RowsKept
<1>7. ASSUME pc'[p] = "write"
      PROVE  on'[p] = f /\ Covered(buf'[p], InferredObject(f))
  <2>1. file_write_check(Sid(p), f, "allowed") /\ on'[p] = f /\ buf'[p] = know[p]
    BY <1>1, <1>7 DEF Write, TypeOK
  <2>2. Registered(p) /\ f \in DOMAIN objects /\ FlowsTo(subjects[Sid(p)], objects[f])
    BY <2>1 DEF file_write_check, WriteAllowed, Registered
  <2>3. FlowsTo(subjects[Sid(p)], InferredObject(f))
    BY <2>2 DEF Before, REInv, ObjectsInferred
  <2>4. QED
    BY <1>6, <2>1, <2>2, <2>3, CoveredRises DEF MemoryCovered
<1>8. ProcessInv(p)'
  BY <1>3, <1>6, <1>7 DEF ProcessInv, Covered, ReadersOf, InferredObject
<1>9. ContentCovered'
  BY <1>1 DEF Before, ContentCovered, Covered, ReadersOf
<1>10. LockInv'
  BY <1>1, <1>2, <1>4, LockKeptByCall
<1>11. QED
  BY <1>5, <1>8, <1>9, <1>10

LEMMA WriteDataFlow ==
  ASSUME Before, NEW p \in Pids, WriteData(p)
  PROVE  ContentCovered' /\ LockInv' /\ \A r \in Pids : ProcessInv(r)'
<1>1. /\ UNCHANGED <<subjects, uid, know, locks>> /\ TypeOK
      /\ pc[p] = "write" /\ on[p] \in Files /\ uid[p] \in Users /\ Return(p)
  BY LiveUser DEF WriteData, Before, revars, TypeOK, forkvars
<1>2. ~Forking(p) /\ ~Child(p)
  BY <1>1 DEF Forking, Child
<1>3. \A r \in Pids \ {p} : ProcessInv(r)'
  BY <1>1, <1>2, Returned, OthersKept
<1>4. MemoryCovered(p, p)' /\ \A u \in Users : <<u, p>> \in DOMAIN subjects' => u = uid'[p]
  BY <1>1, OwnKept DEF RowsKept
<1>5. ProcessInv(p)'
  BY <1>1, <1>4, Returned DEF ProcessInv
<1>6. Covered(Join(content[on[p]], buf[p]), InferredObject(on[p]))
  BY <1>1, CoveredJoin DEF Before, ContentCovered, ProcessInv, TypeOK
<1>7. ASSUME NEW f \in Files
      PROVE  Covered(content'[f], InferredObject(f))
  <2>1. content'[f] = content[f] \/ (f = on[p] /\ content'[f] = Join(content[f], buf[p]))
    BY DEF WriteData, Before, TypeOK
  <2>2. QED
    BY <1>6, <2>1 DEF Before, ContentCovered
<1>8. ContentCovered'
  BY <1>7 DEF ContentCovered, Covered, ReadersOf
<1>9. QED
  BY <1>1, <1>2, <1>3, <1>5, <1>8, ReturnedCall

LEMMA KillFlow ==
  ASSUME Before, NEW p \in Pids, NEW q \in Pids, Kill(p, q)
  PROVE  ContentCovered' /\ LockInv' /\ \A r \in Pids : ProcessInv(r)'
<1>1. /\ UNCHANGED <<subjects, uid, know, buf, content, locks>> /\ TypeOK
      /\ pc[p] = "idle"
  BY DEF Kill, Before, revars, forkvars
<1>2. pc'[p] = "found" /\ \A r \in Pids \ {p} : pc'[r] = pc[r] /\ on'[r] = on[r]
  BY <1>1 DEF Kill, TypeOK
<1>3. /\ ~Forking(p) /\ ~Forking(p)' /\ ~Child(p) /\ ~Child(p)'
  BY <1>1, <1>2 DEF Forking, Child
<1>4. \A r \in Pids \ {p} : ProcessInv(r)'
  BY <1>1, <1>2, <1>3, OthersKept
<1>5. MemoryCovered(p, p)' /\ \A u \in Users : <<u, p>> \in DOMAIN subjects' => u = uid'[p]
  BY <1>1, OwnKept DEF RowsKept
<1>6. ProcessInv(p)'
  BY <1>2, <1>5 DEF ProcessInv
<1>7. ContentCovered'
  BY <1>1 DEF Before, ContentCovered, Covered, ReadersOf
<1>8. QED
  BY <1>1, <1>2, <1>3, <1>4, <1>6, <1>7, LockKeptByCall

LEMMA KillCheckFlow ==
  ASSUME Before, NEW p \in Pids, KillCheck(p), server' = "up"
  PROVE  ContentCovered' /\ LockInv' /\ \A r \in Pids : ProcessInv(r)'
<1>1. /\ UNCHANGED <<uid, know, content, locks>> /\ TypeOK
      /\ pc[p] = "found" /\ uid[p] \in Users
      /\ DOMAIN subjects' = DOMAIN subjects
  BY LiveUser DEF KillCheck, kill_check, StopServer, Before, revars, forkvars
<1>2. \A r \in Pids \ {p} : pc'[r] = pc[r] /\ on'[r] = on[r] /\ buf'[r] = buf[r]
  BY <1>1 DEF KillCheck, Return, TypeOK
<1>3. pc'[p] \in {"idle", "kill"}
  BY <1>1 DEF KillCheck, kill_check, StopServer, Return, TypeOK
<1>4. /\ ~Forking(p) /\ ~Forking(p)' /\ ~Child(p) /\ ~Child(p)'
  BY <1>1, <1>3 DEF Forking, Child
<1>5. \A r \in Pids \ {p} : ProcessInv(r)'
  BY <1>1, <1>2, <1>4, OthersKept
<1>6. /\ MemoryCovered(p, p) /\ MemoryCovered(p, p)'
      /\ \A u \in Users : <<u, p>> \in DOMAIN subjects' => u = uid'[p]
  BY <1>1, OwnKept DEF Before, ProcessInv, RowsKept
<1>7. ASSUME pc'[p] = "kill"
      PROVE  on'[p] \in DOMAIN subjects' /\ Covered(buf'[p], subjects'[on'[p]])
  <2>1. kill_check(Sid(p), on[p], "allowed") /\ on'[p] = on[p] /\ buf'[p] = know[p]
    BY <1>1, <1>7 DEF KillCheck, kill_check, StopServer, Return, TypeOK
  <2>2. /\ Registered(p) /\ on[p] \in DOMAIN subjects
        /\ subjects' = [subjects EXCEPT ![on[p]] = Raise(@, subjects[Sid(p)])]
    BY <2>1 DEF kill_check, Registered
  <2>3. subjects'[on[p]] = Raise(subjects[on[p]], subjects[Sid(p)])
    BY <2>2
  <2>4. FlowsTo(subjects[Sid(p)], subjects'[on[p]])
    <3>1. /\ subjects[Sid(p)] \in SubjectRow /\ subjects[on[p]] \in SubjectRow
          /\ subjects[Sid(p)].readers \subseteq Users /\ subjects[Sid(p)].writers \subseteq Users
      BY <2>2 DEF Before, REInv, RETypeOK, Registered, SubjectRow, UserSet
    <3>2. QED
      BY <2>3, <3>1, RaiseRow DEF FlowsTo
  <2>5. Covered(know[p], subjects'[on[p]])
    BY <1>6, <2>2, <2>4, CoveredRises DEF MemoryCovered
  <2>6. QED
    BY <1>1, <2>1, <2>2, <2>5
<1>8. ProcessInv(p)'
  BY <1>3, <1>6, <1>7 DEF ProcessInv, Covered, ReadersOf
<1>9. ContentCovered'
  BY <1>1 DEF Before, ContentCovered, Covered, ReadersOf
<1>10. QED
  BY <1>1, <1>2, <1>4, <1>5, <1>8, <1>9, LockKeptByCall

LEMMA DeliverFlow ==
  ASSUME Before, NEW p \in Pids, Deliver(p)
  PROVE  ContentCovered' /\ LockInv' /\ \A r \in Pids : ProcessInv(r)'
<1>1. /\ UNCHANGED <<subjects, uid, content, locks>> /\ TypeOK /\ pc[p] = "kill" /\ Return(p)
      /\ uid[p] \in Users
  BY LiveUser DEF Deliver, Before, revars, forkvars
<1>2. on[p] \in SubjectIds /\ on[p] \in DOMAIN subjects /\ Covered(buf[p], subjects[on[p]])
  BY <1>1 DEF Before, ProcessInv, TypeOK
<1>3. PICK u \in Users, q \in Pids : on[p] = <<u, q>>
  BY <1>2 DEF SubjectIds
<1>4. ASSUME Live(q)
      PROVE  pc[q] \notin {"free", "forked"} /\ Sid(q) = on[p] /\ Registered(q)
  <2>1. pc[q] # "forked"
    BY <1>2, <1>3 DEF Before, ProcessInv, NoRowOf
  <2>2. pc[q] # "free" /\ u = uid[q]
    BY <1>2, <1>3, <1>4, <2>1 DEF Before, ProcessInv, Live
  <2>3. QED
    BY <1>2, <1>3, <2>1, <2>2 DEF Sid, Registered
<1>5. \A r \in Pids : know'[r] = know[r] \/ (r = q /\ Live(q) /\ know'[r] = Join(know[r], buf[p]))
  BY <1>1, <1>3 DEF Deliver, KernelSignals, TypeOK
<1>6. ASSUME NEW r \in Pids, pc[r] \notin {"free", "forked"}
      PROVE  /\ MemoryCovered(r, r)'
             /\ \A v \in Users : <<v, r>> \in DOMAIN subjects' => v = uid'[r]
  <2>1. MemoryCovered(r, r) /\ \A v \in Users : <<v, r>> \in DOMAIN subjects => v = uid[r]
    BY <1>6 DEF Before, ProcessInv
  <2>2. CASE know'[r] = know[r]
    BY <1>1, <1>6, <2>2, OwnKept DEF RowsKept
  <2>3. CASE r = q /\ Live(q) /\ know'[r] = Join(know[r], buf[p])
    <3>1. Registered(q) /\ Covered(buf[p], subjects[Sid(q)])
      BY <1>2, <1>4, <2>3
    <3>2. Covered(know[q], subjects[Sid(q)])
      BY <2>1, <2>3, <3>1 DEF MemoryCovered
    <3>3. Covered(know'[q], subjects[Sid(q)])
      BY <1>1, <2>3, <3>1, <3>2, CoveredJoin DEF TypeOK
    <3>4. Sid(q)' = Sid(q) /\ Registered(q)' /\ subjects'[Sid(q)] = subjects[Sid(q)]
      BY <1>1, <3>1 DEF Sid, Registered
    <3>5. MemoryCovered(r, r)'
      BY <2>3, <3>3, <3>4 DEF MemoryCovered, Covered, ReadersOf
    <3>6. QED
      BY <1>1, <2>1, <3>5
  <2>4. QED
    BY <1>5, <2>2, <2>3
<1>7. ~Forking(p) /\ ~Child(p)
  BY <1>1 DEF Forking, Child
<1>8. ASSUME NEW r \in Pids \ {p}, know'[r] = know[r]
      PROVE  ProcessInv(r)'
  BY <1>1, <1>7, <1>8, Returned, OthersKept
<1>9. ASSUME NEW r \in Pids \ {p}, know'[r] # know[r]
      PROVE  ProcessInv(r)'
  <2>1. pc[r] \notin {"free", "forked"}
    BY <1>4, <1>5, <1>9
  <2>2. MemoryCovered(r, r)' /\ \A v \in Users : <<v, r>> \in DOMAIN subjects' => v = uid'[r]
    BY <1>6, <2>1
  <2>3. pc'[r] = pc[r] /\ on'[r] = on[r] /\ buf'[r] = buf[r] /\ ProcessInv(r)
    BY <1>1, Returned DEF Before
  <2>4. pc[r] = "kill" => on[r] \in DOMAIN subjects /\ Covered(buf[r], subjects[on[r]])
    BY <2>3 DEF ProcessInv
  <2>5. pc[r] \in {"read", "write"} => Covered(buf[r], InferredObject(on[r]))
    BY <2>3 DEF ProcessInv
  <2>6. QED
    BY <1>1, <2>1, <2>2, <2>3, <2>4, <2>5
       DEF ProcessInv, Covered, ReadersOf, InferredObject
<1>10. ProcessInv(p)'
  BY <1>1, <1>6, Returned DEF ProcessInv
<1>11. ContentCovered'
  BY <1>1 DEF Before, ContentCovered, Covered, ReadersOf
<1>12. QED
  BY <1>1, <1>7, <1>8, <1>9, <1>10, <1>11, ReturnedCall

LEMMA ExitFlow ==
  ASSUME Before, Faults \subseteq {"fork_fails"}, NEW p \in Pids, Exit(p)
  PROVE  ContentCovered' /\ LockInv' /\ \A r \in Pids : ProcessInv(r)'
<1>1. /\ UNCHANGED <<subjects, content>> /\ TypeOK
      /\ pc[p] # "free" /\ ~Forking(p) /\ ~Child(p) /\ Ends(p)
  BY DEF Exit, Live, Ends, Before, revars
<1>2. /\ pc'[p] = "free" /\ know'[p] = Nothing
      /\ \A r \in Pids \ {p} : /\ pc'[r] = pc[r] /\ uid'[r] = uid[r]
                               /\ know'[r] = know[r] /\ buf'[r] = buf[r]
  BY <1>1 DEF Ends, TypeOK
<1>3. \A r \in Pids \ {p} : on'[r] = on[r]
  BY <1>1 DEF Ends, Before, ProcessInv
<1>4. ProcessInv(p)'
  BY <1>2 DEF ProcessInv
<1>5. ASSUME NEW r \in Pids \ {p}
      PROVE  ProcessInv(r)'
  <2>1. \A q : RowsKept(q)
    BY <1>1 DEF RowsKept
  <2>2. ASSUME pc[r] = "forked"
        PROVE  /\ Forking(on[r])' /\ on'[on[r]] = on[on[r]]
               /\ uid'[on[r]] = uid[on[r]]
    <3>1. on[r] \in Pids \ {p} /\ Forking(on[r])
      BY <1>1, <2>2 DEF Before, ProcessInv
    <3>2. QED
      BY <1>2, <1>3, <3>1 DEF Forking
  <2>3. QED
    BY <1>2, <1>3, <2>1, <2>2, ProcessKept
<1>6. ContentCovered'
  BY <1>1 DEF Before, ContentCovered, Covered, ReadersOf
<1>7. LockInv'
  <2>1. \A r \in Pids : (Forking(r)' <=> Forking(r)) /\ (Child(r)' <=> Child(r))
    BY <1>1, <1>2 DEF Forking, Child
  <2>2. \A s \in locks : s \in Semaphore /\ s.waiters \subseteq Pids \ {p}
    BY <1>1 DEF Before, LockInv, TypeOK, Semaphore
  <2>3. \A s \in locks : [s EXCEPT !.waiters = @ \ {p}] = s
    BY <2>2 DEF Semaphore
  <2>4. locks' \subseteq locks /\ Named \subseteq Named'
    <3>1. locks' = LeftBy(p, locks)
      BY <1>1 DEF Ends
    <3>2. {[s EXCEPT !.waiters = @ \ {p}] : s \in locks} = locks
      BY <2>3
    <3>3. QED
      BY <3>1, <3>2 DEF LeftBy, Named
  <2>5. \A s \in locks' : s.waiters \subseteq Pids
    BY <2>2, <2>4
  <2>6. QED
    BY <2>1, <2>4, <2>5 DEF Before, LockInv
<1>8. QED
  BY <1>4, <1>5, <1>6, <1>7

\* A stopped server stays stopped.
LEMMA StoppedForGood ==
  ASSUME TypeOK, [Next]_vars, server = "stopped"
  PROVE  server' = "stopped"
<1>1. [RENext]_revars
  BY StepOfRuleEngine
<1>2. QED
  BY <1>1 DEF RENext, revars, fork_check, file_open_check, file_read_check,
              file_write_check, kill_check, kill_many_check, StopServer

LEMMA FlowStep ==
  ASSUME Faults \subseteq {"fork_fails"}, TypeOK, REInv, FlowInv, [Next]_vars
  PROVE  FlowInv'
<1> SUFFICES ASSUME server' = "up"
             PROVE  ContentCovered' /\ LockInv' /\ \A r \in Pids : ProcessInv(r)'
  BY DEF FlowInv
<1>1. server = "up"
  BY StoppedForGood DEF TypeOK, RETypeOK
<1>2. Before
  BY <1>1, TypeStep DEF Before, FlowInv
<1>3. ASSUME NEW p \in Pids, NEW c \in Pids, Fork(p, c) \/ ForkFails(p)
      PROVE  ContentCovered' /\ LockInv' /\ \A r \in Pids : ProcessInv(r)'
  BY <1>2, <1>3, ForkFlow, ForkFailsFlow
<1>4. ASSUME NEW p \in Pids, ForkCheck(p) \/ Post(p) \/ OpenLock(p) \/ ForkReturn(p)
      PROVE  ContentCovered' /\ LockInv' /\ \A r \in Pids : ProcessInv(r)'
  BY <1>2, <1>4, ForkCheckFlow, PostFlow, OpenLockFlow, ForkReturnFlow
<1>5. ASSUME NEW p \in Pids, NEW f \in Files, Open(p, f) \/ Read(p, f) \/ Write(p, f)
      PROVE  ContentCovered' /\ LockInv' /\ \A r \in Pids : ProcessInv(r)'
  BY <1>1, <1>2, <1>5, OpenFlow, ReadFlow, WriteFlow
<1>6. ASSUME NEW p \in Pids, ReadCheck(p) \/ WriteData(p)
      PROVE  ContentCovered' /\ LockInv' /\ \A r \in Pids : ProcessInv(r)'
  BY <1>2, <1>6, ReadCheckFlow, WriteDataFlow
<1>7. ASSUME NEW p \in Pids, NEW q \in Pids, Kill(p, q) \/ KillCheck(p) \/ Deliver(p)
      PROVE  ContentCovered' /\ LockInv' /\ \A r \in Pids : ProcessInv(r)'
  BY <1>2, <1>7, KillFlow, KillCheckFlow, DeliverFlow
<1>8. ASSUME NEW p \in Pids, Exit(p)
      PROVE  ContentCovered' /\ LockInv' /\ \A r \in Pids : ProcessInv(r)'
  BY <1>2, <1>8, ExitFlow
<1>9. \A p \in Pids : ~Unchecked(p)
  BY <1>1 DEF Unchecked
<1>10. CASE UNCHANGED vars
  <2>1. ASSUME NEW r \in Pids
        PROVE  ProcessInv(r)'
    <3>1. ProcessInv(r)
      BY <1>2 DEF Before
    <3>2. QED
      BY <1>10, <3>1 DEF vars, ProcessInv, MemoryCovered, NoRowOf, Registered, Forking, Sid,
         Covered, ReadersOf
  <2>2. LockInv'
    BY <1>2, <1>10, LockKept DEF vars, Forking, Child
  <2>3. QED
    BY <1>2, <1>10, <2>1, <2>2 DEF Before, vars, ContentCovered, Covered, ReadersOf
<1>11. QED
  BY <1>3, <1>4, <1>5, <1>6, <1>7, <1>8, <1>9, <1>10 DEF Next

(***************************************************************************)
(* On a host where forks do not overlap, nobody dies in one and no pid is  *)
(* used again, and as long as the database server runs, all information is *)
(* covered by the label of where it is.                                    *)
(***************************************************************************)
THEOREM FlowCovered == Faults \subseteq {"fork_fails"} => (Spec => []FlowInv)
<1> SUFFICES ASSUME Faults \subseteq {"fork_fails"} PROVE Spec => []FlowInv
  OBVIOUS
<1>1. TypeOK /\ REInv /\ FlowInv /\ [Next]_vars => FlowInv'
  BY FlowStep
<1>2. QED
  BY InitFlow, <1>1, Invariance, PTL DEF Spec

LEMMA FlowImpliesNoLeak ==
  ASSUME TypeOK, REInv, FlowInv, server = "up"
  PROVE  NoLeak
<1>1. ASSUME NEW p \in Pids, NEW f \in know[p].src
      PROVE  uid[p] \in ReadersOf(f)
  <2>1. ASSUME NEW q \in Pids, MemoryCovered(p, q), uid[q] = uid[p]
        PROVE  uid[p] \in ReadersOf(f)
    <3>1. Registered(q) /\ Covered(know[p], subjects[Sid(q)])
      BY <1>1, <2>1 DEF MemoryCovered, OwnInfo
    <3>2. uid[p] \in subjects[Sid(q)].readers
      BY <2>1, <3>1 DEF REInv, OwnerKeepsAccess, Registered, Sid
    <3>3. QED
      BY <1>1, <3>1, <3>2 DEF Covered
  <2>2. ProcessInv(p)
    BY DEF FlowInv
  <2>3. CASE pc[p] = "free"
    BY <1>1, <2>2, <2>3 DEF ProcessInv, Nothing
  <2>4. CASE pc[p] = "forked"
    BY <2>1, <2>2, <2>4 DEF ProcessInv
  <2>5. CASE pc[p] \notin {"free", "forked"}
    BY <2>1, <2>2, <2>5 DEF ProcessInv
  <2>6. QED
    BY <2>3, <2>4, <2>5
<1>2. ASSUME NEW g \in Files, NEW f \in content[g].src
      PROVE  ReadersOf(g) \subseteq ReadersOf(f)
  BY <1>2, InferredObjectType DEF FlowInv, ContentCovered, Covered, ReadersOf
<1>3. QED
  BY <1>1, <1>2 DEF NoLeak

(***************************************************************************)
(* No information reaches a user, through any chain of files, processes    *)
(* and signals, who could not have read it at its source.                  *)
(***************************************************************************)
THEOREM ConfidentialityHolds == Faults \subseteq {"fork_fails"} => (Spec => []Confidentiality)
<1> SUFFICES ASSUME Faults \subseteq {"fork_fails"} PROVE Spec => []Confidentiality
  OBVIOUS
<1>1. TypeOK /\ REInv /\ FlowInv => Confidentiality
  BY FlowImpliesNoLeak DEF Confidentiality
<1>2. QED
  BY <1>1, FlowCovered, Invariance, PTL

(***************************************************************************)
(* Nobody influences a file, through any chain of files, processes and     *)
(* signals, who may not write it.                                          *)
(***************************************************************************)
THEOREM IntegrityHolds == Faults \subseteq {"fork_fails"} => (Spec => []Integrity)
<1> SUFFICES ASSUME Faults \subseteq {"fork_fails"} PROVE Spec => []Integrity
  OBVIOUS
<1>1. FlowInv => Integrity
  BY InferredObjectType
     DEF FlowInv, ContentCovered, Covered, Integrity, WritersOf
<1>2. QED
  BY <1>1, FlowCovered, PTL

-----------------------------------------------------------------------------
(* What stops the server *)

LEMMA ChecksThatStop ==
  /\ \A s, f, ret : file_read_check(s, f, ret) \/ file_write_check(s, f, ret) =>
       server' = server \/ s \notin DOMAIN subjects
  /\ \A s, peer, ret : kill_check(s, peer, ret) =>
       server' = server \/ s \notin DOMAIN subjects \/ peer \notin DOMAIN subjects
  /\ \A u, c, p : fork_check(u, c, p) => server' = server
  /\ \A f : file_open_check(f) => server' = server
BY DEF file_read_check, file_write_check, kill_check, fork_check, file_open_check, revars

\* A subject the server can be asked for, or an outsider.
Known(s) == s \in DOMAIN subjects \/ Outsider(s)

ShellId(s) == \E sh \in Shells : s = <<ShellUser[sh], sh>>

(***************************************************************************)
(* While the server runs, a process past its fork_check has a row, unless  *)
(* it is a shell; and who was found by a pending kill has a row by now or  *)
(* is an outsider still, whether it lives or not.                          *)
(***************************************************************************)
StopInv ==
  server = "up" =>
    \A r \in Pids : /\ pc[r] \notin {"free", "forked"} => Registered(r) \/ ShellId(Sid(r))
                    /\ pc[r] = "found" => Known(on[r])

\* What a step does to r, as far as StopInv is concerned.
Moves(r) ==
  /\ pc[r] = "forked" =>
       (pc'[r] = "forked" /\ uid'[r] = uid[r]) \/ <<uid[r], r>> \in DOMAIN subjects'
  /\ pc'[r] \notin {"free", "forked"} =>
       (pc[r] \notin {"free", "forked"} /\ uid'[r] = uid[r])
         \/ <<uid'[r], r>> \in DOMAIN subjects'
  /\ pc'[r] = "found" =>
       (pc[r] = "found" /\ on'[r] = on[r]) \/ \E q \in Pids : pc[q] # "free" /\ on'[r] = Sid(q)

LEMMA EndMoves ==
  ASSUME TypeOK, NEW p \in Pids, pc[p] # "forked", Ends(p), NEW r \in Pids
  PROVE  Moves(r)
<1>1. /\ pc' = [pc EXCEPT ![p] = "free"] /\ uid' = [uid EXCEPT ![p] = NoUser]
      /\ pc \in [Pids -> PCs] /\ uid \in [Pids -> Users \cup {NoUser}]
      /\ on'[r] = IF r = p \/ (pc[r] = "forked" /\ on[r] = p) THEN InitProc ELSE on[r]
  BY DEF Ends, TypeOK, PCs
<1>2. QED
  BY <1>1 DEF Moves

LEMMA EveryMove ==
  ASSUME "dies_in_fork" \notin Faults, TypeOK, server = "up", Next, NEW r \in Pids
  PROVE  Moves(r)
<1>1. ASSUME NEW p \in Pids, NEW c \in Pids, Fork(p, c)
      PROVE  Moves(r)
  <2>1. /\ pc[p] = "idle" /\ pc[c] = "free" /\ p # c
        /\ pc'[p] = "forking" /\ pc'[c] = "forked" /\ uid'[p] = uid[p]
        /\ \A q \in Pids \ {p, c} : pc'[q] = pc[q] /\ on'[q] = on[q] /\ uid'[q] = uid[q]
    BY <1>1 DEF Fork, CanFork, TypeOK
  <2>2. CASE r \in {p, c}
    BY <2>1, <2>2 DEF Moves
  <2>3. CASE r \notin {p, c}
    BY <2>1, <2>3 DEF Moves
  <2>4. QED
    BY <2>2, <2>3
<1>2. ASSUME NEW p \in Pids, ForkFails(p)
      PROVE  Moves(r)
  BY <1>2 DEF ForkFails, CanFork, Moves, TypeOK
<1>3. ASSUME NEW c \in Pids, ForkCheck(c)
      PROVE  Moves(r)
  <2>1. /\ pc[c] = "forked" /\ <<uid[c], c>> \in DOMAIN subjects' /\ pc'[c] = "posting"
        /\ uid' = uid
        /\ \A q \in Pids \ {c} : pc'[q] = pc[q] /\ on'[q] = on[q]
    BY <1>3 DEF ForkCheck, fork_check, AddRow, TypeOK
  <2>2. QED
    BY <2>1 DEF Moves
<1>4. ASSUME NEW p \in Pids, Post(p) \/ OpenLock(p)
      PROVE  Moves(r)
  <2>1. CASE Ends(p)
    BY <1>4, <2>1, EndMoves DEF Post, OpenLock
  <2>2. CASE ~Ends(p)
    <3>1. /\ pc[p] \in {"posting", "forking"} /\ pc'[p] \in {"idle", "forkwait"}
          /\ uid' = uid /\ on' = on
          /\ \A q \in Pids \ {p} : pc'[q] = pc[q]
      BY <1>4, <2>2 DEF Post, OpenLock, TypeOK
    <3>2. QED
      BY <3>1 DEF Moves
  <2>3. QED
    BY <2>1, <2>2
<1>5. ASSUME NEW p \in Pids, pc[p] \notin {"free", "forked"}, Return(p), uid' = uid
      PROVE  Moves(r)
  BY <1>5 DEF Return, Moves, TypeOK
<1>6. ASSUME NEW p \in Pids, ForkReturn(p) \/ WriteData(p) \/ Deliver(p)
      PROVE  Moves(r)
  BY <1>5, <1>6 DEF ForkReturn, WriteData, Deliver
<1>7. ASSUME NEW p \in Pids, ReadCheck(p)
      PROVE  Moves(r)
  <2>1. CASE Return(p)
    BY <1>5, <1>7, <2>1 DEF ReadCheck
  <2>2. CASE UNCHANGED <<pc, on>>
    BY <1>7, <2>2 DEF ReadCheck, Moves
  <2>3. QED
    BY <1>7, <2>1, <2>2 DEF ReadCheck
<1>8. ASSUME NEW p \in Pids, NEW f \in Files, Open(p, f) \/ Read(p, f) \/ Write(p, f)
      PROVE  Moves(r)
  <2>1. CASE Open(p, f)
    BY <2>1 DEF Open, Moves
  <2>2. CASE Read(p, f)
    BY <2>2 DEF Read, Moves, TypeOK
  <2>3. CASE Write(p, f)
    BY <2>3 DEF Write, Moves, TypeOK
  <2>4. QED
    BY <1>8, <2>1, <2>2, <2>3
<1>9. ASSUME NEW p \in Pids, NEW q \in Pids, Kill(p, q)
      PROVE  Moves(r)
  <2>1. /\ pc[p] = "idle" /\ pc'[p] = "found" /\ on'[p] = Sid(q) /\ pc[q] # "free"
        /\ uid' = uid /\ \A t \in Pids \ {p} : pc'[t] = pc[t] /\ on'[t] = on[t]
    BY <1>9 DEF Kill, Live, TypeOK
  <2>2. QED
    BY <2>1 DEF Moves
<1>10. ASSUME NEW p \in Pids, KillCheck(p)
       PROVE  Moves(r)
  <2>1. CASE Return(p)
    BY <1>5, <1>10, <2>1 DEF KillCheck
  <2>2. CASE pc' = [pc EXCEPT ![p] = "kill"] /\ UNCHANGED on
    BY <1>10, <2>2 DEF KillCheck, Moves, TypeOK
  <2>3. CASE UNCHANGED <<pc, on>>
    BY <1>10, <2>3 DEF KillCheck, Moves
  <2>4. QED
    BY <1>10, <2>1, <2>2, <2>3 DEF KillCheck
<1>11. ASSUME NEW p \in Pids, Exit(p)
       PROVE  Moves(r)
  BY <1>11, EndMoves DEF Exit, Child
<1>12. \A p \in Pids : ~Unchecked(p)
  BY DEF Unchecked
<1>13. QED
  BY <1>1, <1>2, <1>3, <1>4, <1>6, <1>7, <1>8, <1>9, <1>10, <1>11, <1>12 DEF Next

LEMMA StopInvStep ==
  ASSUME "dies_in_fork" \notin Faults, TypeOK, REInv, StopInv, [Next]_vars
  PROVE  StopInv'
<1> SUFFICES ASSUME server' = "up", NEW r \in Pids
             PROVE  /\ pc'[r] \notin {"free", "forked"} => Registered(r)' \/ ShellId(Sid(r))'
                    /\ pc'[r] = "found" => Known(on[r])'
  BY DEF StopInv
<1>1. server = "up"
  BY StoppedForGood DEF TypeOK, RETypeOK
<1>2. CASE UNCHANGED vars
  BY <1>1, <1>2 DEF vars, StopInv, Registered, ShellId, Sid, Known, Outsider
<1>3. CASE Next
  <2>1. \A s \in DOMAIN subjects : s \in DOMAIN subjects'
    BY TypeStep DEF REStep
  <2>2. \A t \in Pids : Moves(t)
    BY <1>1, <1>3, EveryMove
  <2>3. \A t \in Pids : pc[t] = "forked" =>
          <<uid[t], t>> \in DOMAIN subjects' \/ (pc'[t] = "forked" /\ uid'[t] = uid[t])
    BY <2>2 DEF Moves
  <2>4. \A s : Known(s) => Known(s)'
    <3>1. ASSUME NEW s, Outsider(s)
          PROVE  Known(s)'
      <4>1. CASE \E sh \in Shells : s = <<ShellUser[sh], sh>>
        BY <4>1 DEF Known, Outsider
      <4>2. CASE \E c \in Pids : pc[c] = "forked" /\ s = Sid(c)
        <5>1. PICK c \in Pids : pc[c] = "forked" /\ s = <<uid[c], c>>
          BY <4>2 DEF Sid
        <5>2. s \in DOMAIN subjects' \/ (pc'[c] = "forked" /\ s = <<uid'[c], c>>)
          BY <2>3, <5>1
        <5>3. QED
          BY <5>2 DEF Known, Outsider, Sid
      <4>3. QED
        BY <3>1, <4>1, <4>2 DEF Outsider
    <3>2. ASSUME NEW s, s \in DOMAIN subjects
          PROVE  Known(s)'
      BY <2>1, <3>2 DEF Known
    <3>3. QED
      BY <3>1, <3>2 DEF Known
  <2>5. \A q \in Pids : pc[q] # "free" => Known(Sid(q))
    BY <1>1 DEF StopInv, Known, Outsider, ShellId, Registered
  <2>6. pc'[r] \notin {"free", "forked"} => Registered(r)' \/ ShellId(Sid(r))'
    BY <1>1, <2>1, <2>2 DEF Moves, StopInv, Registered, ShellId, Sid
  <2>7. pc'[r] = "found" => Known(on[r])'
    <3>1. ASSUME pc'[r] = "found"
          PROVE  Known(on'[r])
      BY <1>1, <2>2, <2>5, <3>1 DEF Moves, StopInv
    <3>2. QED
      BY <2>4, <3>1 DEF Known, Outsider, Sid
  <2>8. QED
    BY <2>6, <2>7
<1>4. QED
  BY <1>2, <1>3

LEMMA StopInvInit == Init => StopInv
<1> SUFFICES ASSUME Init, NEW r \in Pids
             PROVE  /\ pc[r] \notin {"free", "forked"} => Registered(r) \/ ShellId(Sid(r))
                    /\ pc[r] # "found"
  BY DEF StopInv
<1>1. pc[r] = (IF r \in Shells THEN "idle" ELSE "free")
      /\ uid[r] = (IF r \in Shells THEN ShellUser[r] ELSE NoUser)
  BY DEF Init
<1>2. QED
  BY <1>1 DEF ShellId, Sid

(***************************************************************************)
(* The check that stops the server is made by a secure shell, or is of a   *)
(* signal to one or to a child that still has its fork_check to do.  A     *)
(* target that ends after its uid was looked up leaves its row behind, so  *)
(* it cannot stop the server either, unless it was a child that died       *)
(* before its check.                                                       *)
(***************************************************************************)
THEOREM ServerStopsForUnregistered ==
  "dies_in_fork" \notin Faults => (Spec => StopsOnlyForUnregistered)
<1> SUFFICES ASSUME "dies_in_fork" \notin Faults PROVE Spec => StopsOnlyForUnregistered
  OBVIOUS
<1> DEFINE Stop == \E p \in Pids :
                     \/ /\ ReadCheck(p) \/ \E f \in Files : Write(p, f)
                        /\ Outsider(Sid(p))
                     \/ KillCheck(p) /\ (Outsider(Sid(p)) \/ Outsider(on[p]))
<1>1. ASSUME TypeOK, StopInv, [Next]_vars, server' # server
      PROVE  Stop
  <2>0. server = "up"
    BY <1>1, StoppedForGood DEF TypeOK, RETypeOK
  <2>1. ASSUME NEW p \in Pids, pc[p] \notin {"free", "forked"}, Sid(p) \notin DOMAIN subjects
        PROVE  Outsider(Sid(p))
    BY <1>1, <2>0, <2>1 DEF StopInv, Registered, ShellId, Outsider
  <2>2. ASSUME NEW p \in Pids, ReadCheck(p)
        PROVE  Stop
    <3>1. Sid(p) \notin DOMAIN subjects /\ pc[p] = "read"
      BY <1>1, <2>2, ChecksThatStop DEF ReadCheck
    <3>2. QED
      BY <2>1, <2>2, <3>1
  <2>3. ASSUME NEW p \in Pids, NEW f \in Files, Write(p, f)
        PROVE  Stop
    <3>1. Sid(p) \notin DOMAIN subjects /\ pc[p] = "idle"
      BY <1>1, <2>3, ChecksThatStop DEF Write
    <3>2. QED
      BY <2>1, <2>3, <3>1
  <2>4. ASSUME NEW p \in Pids, KillCheck(p)
        PROVE  Stop
    <3>1. pc[p] = "found" /\ (Sid(p) \notin DOMAIN subjects \/ on[p] \notin DOMAIN subjects)
      BY <1>1, <2>4, ChecksThatStop DEF KillCheck
    <3>2. Known(on[p])
      BY <1>1, <2>0, <3>1 DEF StopInv
    <3>3. QED
      BY <2>1, <2>4, <3>1, <3>2 DEF Known
  <2>5. \A p \in Pids, f \in Files : ~ForkCheck(p) /\ ~Open(p, f)
    BY <1>1, ChecksThatStop DEF ForkCheck, Open, revars
  <2>6. \A p, c \in Pids, f \in Files : ~Fork(p, c) /\ ~Read(p, f) /\ ~Kill(p, c)
    BY <1>1 DEF Fork, Read, Kill, revars
  <2>7. \A p, c \in Pids : ~Fork(p, c) /\ ~Kill(p, c) /\ ~ForkFails(p) /\ ~ForkCheck(p)
    BY <1>1, ChecksThatStop DEF Fork, Kill, ForkFails, ForkCheck, revars
  <2>8. \A p \in Pids : ~Ends(p)
    BY <1>1 DEF Ends, revars
  <2>9. \A p \in Pids : ~(Post(p) \/ OpenLock(p) \/ ForkReturn(p) \/ WriteData(p) \/ Deliver(p)
                          \/ Exit(p) \/ Unchecked(p))
    BY <1>1, <2>8
       DEF Post, OpenLock, ForkReturn, WriteData, Deliver, Exit, Unchecked, revars
  <2>10. ~UNCHANGED vars
    BY <1>1 DEF vars
  <2>11. QED
    BY <1>1, <2>2, <2>3, <2>4, <2>5, <2>6, <2>7, <2>9, <2>10 DEF Next
<1>2. TypeOK /\ StopInv /\ [Next]_vars => [server' # server => Stop]_vars
  BY <1>1
<1>3. TypeOK /\ REInv /\ StopInv /\ [Next]_vars => StopInv'
  BY StopInvStep
<1>4. QED
  BY StopInvInit, <1>2, <1>3, Invariance, PTL DEF Spec, StopsOnlyForUnregistered
=============================================================================
