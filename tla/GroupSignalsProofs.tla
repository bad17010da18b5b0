------------------------- MODULE GroupSignalsProofs -------------------------
(***************************************************************************)
(* Theorems about GroupSignals, for any users, processes, groups and files *)
(* and any number of calls in progress.                                    *)
(***************************************************************************)
EXTENDS GroupSignals, RuleEngineProofs

(***************************************************************************)
(* The inductive invariant.  At most one fork is in progress; its child    *)
(* has no row yet, and what it knows is covered by its parent's row.       *)
(* Whoever runs has a row, other than a stranger, who makes no call.  A    *)
(* process that was allowed to be signalled keeps its row, so its pid is   *)
(* not given to another child.                                             *)
(***************************************************************************)
Registered(p) == Sid(p) \in DOMAIN subjects

ForkInv ==
  /\ \A p, q \in Pids : pc[p] = "forkwait" /\ pc[q] = "forkwait" => p = q
  /\ \A c, d \in Pids : pc[c] = "forked" /\ pc[d] = "forked" => c = d
  /\ (\E p \in Pids : pc[p] = "forkwait") <=> \E c \in Pids : pc[c] = "forked"
  /\ \A p, c \in Pids : pc[p] = "forkwait" /\ pc[c] = "forked" =>
       uid[c] = uid[p] /\ NoRowOf(c)

Accounted(q) == ~NoRowOf(q) /\ (Live(q) => pc[q] # "forked" /\ Registered(q))

RowInv(p) ==
  /\ pc[p] \notin {"free", "forked"} => Registered(p) \/ (p \in Strangers /\ pc[p] = "idle")
  /\ pc[p] = "deliver" => on[p].pids \subseteq Pids /\ \A q \in on[p].pids : Accounted(q)

(***************************************************************************)
(* Told(info, readers): the readers may all read the files of info.        *)
(* May(info, s, rows): the row of s is one that may have the information.  *)
(***************************************************************************)
Told(info, readers) == \A f \in info : readers \subseteq ReadersOf(f)

May(info, s, rows) == info # {} => s \in DOMAIN rows /\ Told(info, rows[s].readers)

(***************************************************************************)
(* What a process knows is covered by its row, or while it has none by its *)
(* parent's.  A pending call tells what its caller may know, and reaches   *)
(* only processes that were listed, whose rows cover it once it is checked. *)
(***************************************************************************)
FlowInv(p) ==
  /\ pc[p] = "free" => know[p] = {}
  /\ pc[p] # "forked" => May(know[p], Sid(p), subjects)
  /\ pc[p] = "forked" => \A q \in Pids : pc[q] = "forkwait" => May(know[p], Sid(q), subjects)
  /\ pc[p] \in {"listed", "deliver"} =>
       /\ May(on[p].tells, Sid(p), subjects)
       /\ Signalled(p) \subseteq on[p].pids \cup {p}
  /\ pc[p] = "deliver" =>
       \A q \in on[p].pids : Live(q) => May(on[p].tells, Sid(q), subjects)

LeakInv == server = "up" /\ slips = {} => \A p \in Pids : FlowInv(p)

GroupInv == ForkInv /\ \A p \in Pids : RowInv(p)

-----------------------------------------------------------------------------
(* Types *)

States == {"free", "idle", "forkwait", "forked", "listed", "deliver"}

ProcTypeOK ==
  /\ pc \in [Pids -> States]
  /\ uid \in [Pids -> Users \cup {NoUser}]
  /\ \A p \in Pids : Live(p) <=> uid[p] \in Users
  /\ pgid \in [Pids -> Pids]
  /\ on \in [Pids -> Call]
  /\ know \in [Pids -> SUBSET Files]
  /\ slips \subseteq {"joined", "leader"}

TypeInv == REInv /\ ProcTypeOK

LEMMA TypeOKParts == TypeOK <=> RETypeOK /\ ProcTypeOK
  BY DEF TypeOK, ProcTypeOK, States

Act(p) ==
  \/ \E c \in Pids : Fork(p, c) \/ ForkCheck(p, c) \/ Setpgid(p, c)
  \/ \E f \in Files : ReadFile(p, f)
  \/ \E g \in Pids, form \in Forms : List(p, form, g)
  \/ Check(p) \/ Deliver(p) \/ Exit(p)

LEMMA NextActs == Next => \E p \in Pids : Act(p)
  BY DEF Next, Act

LEMMA CallTypes ==
  /\ NoCall \in Call
  /\ \A form \in Forms, g \in Pids, pids \in SUBSET (Pids \cup {InitProc}),
        tells \in SUBSET Files :
       [form |-> form, group |-> g, pids |-> pids, tells |-> tells] \in Call
  BY DEF NoCall, Call

\* The lists hold pids, and pid 1.
LEMMA ListedPids ==
  ASSUME NEW p, NEW form \in Forms, NEW g
  PROVE  Listed(p, form, g) \subseteq Pids \cup {InitProc}
  BY DEF Listed, Forms, get_group_pids_from_pid, get_all_permitted_pids_from_pid,
         get_group_pids_from_group, Members

LEMMA ProcTypesKept ==
  ASSUME ProcTypeOK, [Next]_vars
  PROVE  ProcTypeOK'
<1> USE DEF ProcTypeOK, States
<1>1. ASSUME NEW p \in Pids, NEW c \in Pids, Fork(p, c)
      PROVE  ProcTypeOK'
  <2>1. slips' \subseteq {"joined", "leader"}
    BY <1>1 DEF Fork, Joins
  <2>2. uid[p] \in Users
    BY <1>1 DEF Fork, Live
  <2>3. QED
    BY <1>1, <2>1, <2>2 DEF Fork, Live
<1>2. ASSUME NEW p \in Pids, NEW c \in Pids, ForkCheck(p, c)
      PROVE  ProcTypeOK'
  BY <1>2 DEF ForkCheck, Live
<1>3. ASSUME NEW p \in Pids, NEW g \in Pids, Setpgid(p, g)
      PROVE  ProcTypeOK'
  <2>1. slips' \subseteq {"joined", "leader"}
    BY <1>3 DEF Setpgid, Joins
  <2>2. QED
    BY <1>3, <2>1 DEF Setpgid, Live
<1>4. ASSUME NEW p \in Pids, NEW f \in Files, ReadFile(p, f)
      PROVE  ProcTypeOK'
  BY <1>4 DEF ReadFile, Live
<1>5. ASSUME NEW p \in Pids, NEW form \in Forms, NEW g \in Pids, List(p, form, g)
      PROVE  ProcTypeOK'
  <2>1. [form |-> form, group |-> g, pids |-> Listed(p, form, g), tells |-> know[p]] \in Call
    BY ListedPids, CallTypes
  <2>2. on' \in [Pids -> Call]
    BY <1>5, <2>1 DEF List
  <2>3. pc' \in [Pids -> States] /\ \A q \in Pids : Live(q)' <=> Live(q)
    BY <1>5 DEF List, Live
  <2>4. QED
    BY <1>5, <2>2, <2>3 DEF List
<1>6. ASSUME NEW p \in Pids, Return(p) \/ (UNCHANGED on /\ pc' = [pc EXCEPT ![p] = "deliver"])
                             \/ UNCHANGED <<pc, on>>,
             Live(p), UNCHANGED <<uid, pgid, slips>>, know' \in [Pids -> SUBSET Files]
      PROVE  ProcTypeOK'
  <2>1. on' \in [Pids -> Call]
    BY <1>6, CallTypes DEF Return
  <2>2. pc' \in [Pids -> States] /\ \A q \in Pids : Live(q)' <=> Live(q)
    BY <1>6 DEF Return, Live
  <2>3. QED
    BY <1>6, <2>1, <2>2
<1>7. ASSUME NEW p \in Pids, Check(p)
      PROVE  ProcTypeOK'
  BY <1>6, <1>7 DEF Check, Live
<1>8. ASSUME NEW p \in Pids, Deliver(p)
      PROVE  ProcTypeOK'
  <2>1. know' \in [Pids -> SUBSET Files]
    <3>1. on[p].tells \subseteq Files
      BY DEF Call
    <3>2. QED
      BY <1>8, <3>1 DEF Deliver
  <2>2. QED
    BY <1>6, <1>8, <2>1 DEF Deliver, Live
<1>9. ASSUME NEW p \in Pids, Exit(p)
      PROVE  ProcTypeOK'
  <2>1. on' \in [Pids -> Call]
    BY <1>9, CallTypes DEF Exit
  <2>2. QED
    BY <1>9, <2>1, NoUserAssumption DEF Exit, Live
<1>10. CASE UNCHANGED vars
  BY <1>10 DEF vars, Live
<1>11. QED
  BY <1>1, <1>2, <1>3, <1>4, <1>5, <1>7, <1>8, <1>9, <1>10 DEF Next

-----------------------------------------------------------------------------
(* The rows of the processes *)

\* The call for one peer, and the call for several.
LEMMA GroupCheck ==
  ASSUME NEW p, NEW ret, kill_group_check(p, ret)
  PROVE  LET peers == {<<get_uid_from_pid(q), q>> : q \in on[p].pids}
         IN  \/ \E peer \in peers : peers = {peer} /\ kill_check(Sid(p), peer, ret)
             \/ kill_many_check(Sid(p), peers, ret)
  BY DEF kill_group_check

LEMMA GroupCheckStep ==
  ASSUME REInv, NEW p, Sid(p) \in SubjectIds, NEW ret, kill_group_check(p, ret)
  PROVE  REStep /\ DOMAIN subjects' = DOMAIN subjects
<1> DEFINE peers == {<<get_uid_from_pid(q), q>> : q \in on[p].pids}
<1>1. ASSUME NEW peer, kill_check(Sid(p), peer, ret)
      PROVE  REStep /\ DOMAIN subjects' = DOMAIN subjects
  <2>1. CASE peer \in SubjectIds
    BY <1>1, <2>1, KillStep DEF kill_check, StopServer, revars
  <2>2. CASE peer \notin SubjectIds
    <3>1. peer \notin DOMAIN subjects
      BY <2>2 DEF REInv, RETypeOK
    <3>2. UNCHANGED <<subjects, objects>> /\ server' \in {"up", "stopped"}
      BY <1>1, <3>1 DEF kill_check, StopServer
    <3>3. QED
      BY <3>2, REUnchanged
  <2>3. QED
    BY <2>1, <2>2
<1>2. ASSUME kill_many_check(Sid(p), peers, ret)
      PROVE  REStep /\ DOMAIN subjects' = DOMAIN subjects
  <2>1. DOMAIN subjects' = DOMAIN subjects
    BY <1>2 DEF kill_many_check, StopServer, revars
  <2>2. QED
    BY <1>2, <2>1, KillManyStep
<1>3. QED
  BY <1>1, <1>2, GroupCheck

\* What a fork that is over leaves.
LEMMA ForkCheckRows ==
  ASSUME NEW p \in Pids, NEW c \in Pids, ForkCheck(p, c)
  PROVE  /\ DOMAIN subjects' = DOMAIN subjects \cup {Sid(c)}
         /\ \A s \in DOMAIN subjects : subjects'[s] = subjects[s]
         /\ Sid(c) \notin DOMAIN subjects /\ <<uid[c], p>> \in DOMAIN subjects =>
              subjects'[Sid(c)] = subjects[<<uid[c], p>>]
<1> DEFINE row == IF <<uid[c], p>> \in DOMAIN subjects
                    THEN subjects[<<uid[c], p>>] ELSE DefaultSubject(uid[c])
<1>1. subjects' = AddRow(subjects, Sid(c), row)
  BY DEF ForkCheck, fork_check, Sid
<1>2. <<uid[c], p>> \in DOMAIN subjects => row = subjects[<<uid[c], p>>]
  OBVIOUS
<1> HIDE DEF row
<1>3. QED
  BY <1>1, <1>2 DEF AddRow

LEMMA RowSteps ==
  ASSUME TypeInv, [Next]_vars
  PROVE  /\ REStep
         /\ \/ DOMAIN subjects' = DOMAIN subjects
            \/ \E p, c \in Pids : ForkCheck(p, c)
<1> DEFINE Goal == REStep /\ DOMAIN subjects' = DOMAIN subjects
<1>1. ASSUME NEW p \in Pids, NEW c \in Pids, ForkCheck(p, c)
      PROVE  REStep
  <2>1. uid[c] \in Users
    BY <1>1 DEF TypeInv, ProcTypeOK, ForkCheck, Live
  <2>2. QED
    BY <1>1, <2>1, ForkStep DEF ForkCheck, TypeInv
<1>2. ASSUME NEW p \in Pids, NEW f \in Files, ReadFile(p, f)
      PROVE  Goal
  <2>1. file_read_check(Sid(p), f, "allowed") /\ Sid(p) \in SubjectIds
    BY <1>2 DEF ReadFile, file_read_check, TypeInv, REInv, RETypeOK
  <2>2. DOMAIN subjects' = DOMAIN subjects
    BY <2>1 DEF file_read_check
  <2>3. QED
    BY <2>1, <2>2, ReadStep DEF TypeInv
<1>3. ASSUME NEW p \in Pids, Check(p)
      PROVE  Goal
  <2>1. Sid(p) \in SubjectIds
    BY <1>3 DEF Check, TypeInv, ProcTypeOK, Live, Sid, SubjectIds
  <2>2. QED
    BY <1>3, <2>1, GroupCheckStep DEF Check, TypeInv
<1>4. ASSUME UNCHANGED revars
      PROVE  Goal
  BY <1>4, REUnchanged DEF revars, TypeInv, REInv, RETypeOK
<1>5. QED
  BY <1>1, <1>2, <1>3, <1>4 DEF Next, vars, Fork, Setpgid, List, Deliver, Exit

LEMMA InitTypes == Init => TypeInv
<1> SUFFICES ASSUME Init PROVE TypeInv
  OBVIOUS
<1>1. \A p \in Jobs \cup Strangers : p \in Pids /\ User[p] \in Users
  BY GroupAssumption
<1>2. DOMAIN subjects \subseteq SubjectIds
  BY <1>1 DEF Init, SubjectIds
<1>3. \A s \in DOMAIN subjects : subjects[s] = DefaultSubject(s[1]) /\ s[1] \in Users
  BY <1>1 DEF Init
<1>4. \A s \in DOMAIN subjects :
        /\ subjects[s] \in SubjectRow /\ subjects[s].owner = s[1]
        /\ s[1] \in subjects[s].readers \cap subjects[s].writers
  <2>1. \A u \in Users : /\ DefaultSubject(u) \in SubjectRow /\ DefaultSubject(u).owner = u
                        /\ u \in DefaultSubject(u).readers \cap DefaultSubject(u).writers
    BY DefaultRow DEF DefaultSubject
  <2>2. QED
    BY <1>3, <2>1
<1>5. subjects = [s \in DOMAIN subjects |-> subjects[s]]
  BY DEF Init
<1>6. objects \in [Files -> ObjectRow] /\ DOMAIN objects = Files
  BY InferredObjectType DEF Init
<1>7. REInv
  BY <1>2, <1>4, <1>5, <1>6 DEF REInv, RETypeOK, OwnerKeepsAccess, ObjectsInferred, Init
<1>8. ProcTypeOK
  BY <1>1, GroupAssumption, NoUserAssumption, CallTypes DEF Init, ProcTypeOK, States, Live
<1>9. QED
  BY <1>7, <1>8 DEF TypeInv

(***************************************************************************)
(* The types hold, whoever calls kill, forks, exits or changes its group.  *)
(***************************************************************************)
THEOREM TypeInvariance == Spec => []TypeInv
<1>1. TypeInv /\ [Next]_vars => TypeInv'
  BY RowSteps, ProcTypesKept DEF TypeInv, REStep
<1>2. QED
  BY InitTypes, <1>1, PTL DEF Spec

(***************************************************************************)
(* The state of processes, calls and database has the types of TypeOK.     *)
(***************************************************************************)
THEOREM GroupSignalsTypes == Spec => []TypeOK
<1>1. TypeInv => TypeOK
  BY TypeOKParts DEF TypeInv, REInv
<1>2. QED
  BY TypeInvariance, <1>1, PTL

(***************************************************************************)
(* No signal to a group takes its own user's access from a process.        *)
(***************************************************************************)
THEOREM OwnersKeepAccess == Spec => []OwnerKeepsAccess
<1>1. TypeInv => OwnerKeepsAccess
  BY DEF TypeInv, REInv
<1>2. QED
  BY TypeInvariance, <1>1, PTL

-----------------------------------------------------------------------------
(* Forks, and who has a row *)

\* A pid that may be signalled keeps its row, and is not given to another child.
LEMMA AccountedKept ==
  ASSUME TypeInv, [Next]_vars, NEW q \in Pids, Accounted(q)
  PROVE  Accounted(q)'
<1>1. \A s \in DOMAIN subjects : s \in DOMAIN subjects'
  BY RowSteps DEF REStep
<1>2. ~NoRowOf(q)'
  BY <1>1 DEF Accounted, NoRowOf
<1>3. \/ uid'[q] = uid[q] /\ (pc'[q] = "forked" => pc[q] = "forked")
                          /\ (pc[q] = "free" => pc'[q] = "free")
      \/ pc'[q] = "free"
  <2>1. ASSUME NEW p \in Pids, NEW c \in Pids, Fork(p, c)
        PROVE  uid'[q] = uid[q] /\ (pc'[q] = "forked" => pc[q] = "forked")
                                /\ (pc[q] = "free" => pc'[q] = "free")
    BY <2>1 DEF Fork, Accounted, TypeInv, ProcTypeOK
  <2>2. QED
    BY <2>1 DEF Next, vars, ForkCheck, Setpgid, ReadFile, List, Check, Deliver, Exit, Return,
                TypeInv, ProcTypeOK
<1>4. QED
  BY <1>1, <1>2, <1>3 DEF Accounted, Live, Registered, Sid

LEMMA ForkInvKept ==
  ASSUME TypeInv, ForkInv, [Next]_vars
  PROVE  ForkInv'
<1>1. pc \in [Pids -> States] /\ uid \in [Pids -> Users \cup {NoUser}]
  BY DEF TypeInv, ProcTypeOK
<1>2. ASSUME NEW p \in Pids, NEW c \in Pids, Fork(p, c)
      PROVE  ForkInv'
  <2>1. /\ \A q \in Pids : pc[q] \notin {"forkwait", "forked"}
        /\ p # c
        /\ \A q \in Pids : pc'[q] = "forkwait" <=> q = p
        /\ \A q \in Pids : pc'[q] = "forked" <=> q = c
        /\ uid'[c] = uid[p] /\ uid'[p] = uid[p]
        /\ UNCHANGED subjects /\ NoRowOf(c)
    BY <1>1, <1>2 DEF Fork, ForkPending, ForkInv, revars
  <2>2. NoRowOf(c)'
    BY <2>1 DEF NoRowOf
  <2>3. \A q \in Pids : q = c => NoRowOf(q)'
    BY <2>2
  <2>4. QED
    BY <2>1, <2>3 DEF ForkInv
<1>3. ASSUME NEW p \in Pids, NEW c \in Pids, ForkCheck(p, c)
      PROVE  ForkInv'
  BY <1>1, <1>3 DEF ForkCheck, ForkInv
<1>4. ASSUME DOMAIN subjects' = DOMAIN subjects,
             \A q \in Pids : /\ pc'[q] = "forkwait" <=> pc[q] = "forkwait"
                             /\ pc'[q] = "forked" <=> pc[q] = "forked"
                             /\ pc[q] \in {"forkwait", "forked"} => uid'[q] = uid[q]
      PROVE  ForkInv'
  <2>1. \A q \in Pids : NoRowOf(q) => NoRowOf(q)'
    BY <1>4 DEF NoRowOf
  <2>2. QED
    BY <1>4, <2>1 DEF ForkInv
<1>5. ASSUME DOMAIN subjects' = DOMAIN subjects
      PROVE  \/ ForkInv'
             \/ \E p, c \in Pids : Fork(p, c) \/ ForkCheck(p, c)
  BY <1>1, <1>4, <1>5 DEF Next, vars, Setpgid, ReadFile, List, Check, Deliver, Exit, Return
<1>6. QED
  BY <1>2, <1>3, <1>5, RowSteps

\* Everybody on a list that was allowed had a row.
LEMMA AllowedAll ==
  ASSUME REInv, NEW p, kill_group_check(p, "allowed")
  PROVE  /\ Registered(p)
         /\ on[p].pids \subseteq Pids
         /\ \A q \in on[p].pids :
              /\ Registered(q) /\ DOMAIN subjects' = DOMAIN subjects
              /\ subjects'[Sid(q)].readers \subseteq subjects[Sid(p)].readers
<1> DEFINE peers == {<<get_uid_from_pid(q), q>> : q \in on[p].pids}
<1>1. /\ peers \cup {Sid(p)} \subseteq DOMAIN subjects
      /\ DOMAIN subjects' = DOMAIN subjects
      /\ \A peer \in peers : subjects'[peer] = Raise(subjects[peer], subjects[Sid(p)])
  BY GroupCheck DEF kill_check, kill_many_check
<1>2. ASSUME NEW q \in on[p].pids
      PROVE  /\ q \in Pids /\ Registered(q) /\ Sid(q) \in peers
             /\ subjects'[Sid(q)].readers \subseteq subjects[Sid(p)].readers
  <2>1. <<get_uid_from_pid(q), q>> \in peers
    OBVIOUS
  <2>2. q \in Pids
    BY <1>1, <2>1 DEF REInv, RETypeOK, SubjectIds
  <2>3. <<get_uid_from_pid(q), q>> = Sid(q)
    BY <2>2 DEF get_uid_from_pid, Sid
  <2>4. subjects'[Sid(q)] = Raise(subjects[Sid(q)], subjects[Sid(p)])
    BY <1>1, <2>1, <2>3
  <2>5. subjects[Sid(q)] \in SubjectRow /\ subjects[Sid(p)] \in SubjectRow
    BY <1>1, <2>1, <2>3 DEF REInv, RETypeOK
  <2>6. subjects'[Sid(q)].readers \subseteq subjects[Sid(p)].readers
    BY <2>4, <2>5, RaiseRow DEF SubjectRow, UserSet
  <2>7. QED
    BY <1>1, <2>1, <2>2, <2>3, <2>6 DEF Registered
<1>3. QED
  BY <1>1, <1>2 DEF Registered

LEMMA RowInvKept ==
  ASSUME TypeInv, GroupInv, [Next]_vars, NEW r \in Pids
  PROVE  RowInv(r)'
<1>1. /\ pc \in [Pids -> States] /\ on \in [Pids -> Call] /\ RowInv(r)
      /\ uid \in [Pids -> Users \cup {NoUser}]
  BY DEF TypeInv, ProcTypeOK, GroupInv
<1>2. \A s \in DOMAIN subjects : s \in DOMAIN subjects'
  BY RowSteps DEF REStep
<1>3. \A q \in Pids : Accounted(q) => Accounted(q)'
  BY AccountedKept
\* r does what it did before, or no longer has anything pending
<1>4. ASSUME uid'[r] = uid[r],
             \/ pc'[r] = pc[r] /\ on'[r] = on[r]
             \/ pc'[r] \in {"idle", "forkwait", "listed"} /\ pc[r] \notin {"free", "forked"}
                                               /\ r \notin Strangers
             \/ pc'[r] = "idle" /\ pc[r] \notin {"free", "forked"}
      PROVE  RowInv(r)'
  <2>1. pc[r] \notin {"free", "forked"} /\ Registered(r) => Registered(r)'
    BY <1>2, <1>4 DEF Registered, Sid
  <2>2. pc[r] # "deliver" \/ on'[r] # on[r] => pc'[r] # "deliver"
    BY <1>4
  <2>3. pc'[r] = "deliver" => on'[r].pids \subseteq Pids /\ \A q \in on'[r].pids : Accounted(q)'
    BY <1>1, <1>3, <1>4, <2>2 DEF RowInv
  <2>4. QED
    BY <1>1, <1>4, <2>1, <2>3 DEF RowInv
<1>5. ASSUME NEW p \in Pids, NEW c \in Pids, Fork(p, c)
      PROVE  RowInv(r)'
  <2>1. CASE r = c
    BY <1>1, <1>5, <2>1 DEF Fork, RowInv
  <2>2. CASE r # c
    BY <1>1, <1>4, <1>5, <2>2 DEF Fork
  <2>3. QED
    BY <2>1, <2>2
<1>6. ASSUME NEW p \in Pids, NEW c \in Pids, ForkCheck(p, c)
      PROVE  RowInv(r)'
  <2>1. CASE r = c
    <3>1. pc'[r] = "idle" /\ uid'[r] = uid[r]
      BY <1>1, <1>6, <2>1 DEF ForkCheck
    <3>2. Registered(r)'
      BY <1>6, <2>1, <3>1, ForkCheckRows DEF Registered, Sid
    <3>3. QED
      BY <3>1, <3>2 DEF RowInv
  <2>2. CASE r # c
    BY <1>1, <1>4, <1>6, <2>2 DEF ForkCheck
  <2>3. QED
    BY <2>1, <2>2
<1>7. ASSUME NEW p \in Pids, NEW form \in Forms, NEW g \in Pids, List(p, form, g)
      PROVE  RowInv(r)'
  <2>1. CASE r = p /\ pc'[p] = "deliver"
    <3>1. on'[r].pids = {} /\ pc[r] = "idle" /\ r \notin Strangers /\ uid'[r] = uid[r]
      BY <1>1, <1>7, <2>1 DEF List
    <3>2. Registered(r)'
      BY <1>1, <1>2, <3>1 DEF RowInv, Registered, Sid
    <3>3. QED
      BY <3>1, <3>2 DEF RowInv
  <2>2. CASE ~(r = p /\ pc'[p] = "deliver")
    BY <1>1, <1>4, <1>7, <2>2 DEF List
  <2>3. QED
    BY <2>1, <2>2
<1>8. ASSUME NEW p \in Pids, Check(p)
      PROVE  RowInv(r)'
  <2>1. CASE r = p /\ kill_group_check(p, "allowed") /\ pc' = [pc EXCEPT ![p] = "deliver"]
             /\ UNCHANGED <<on, uid>>
    <3>1. on[r].pids \subseteq Pids /\ Registered(r) /\ \A q \in on[r].pids : Registered(q)
      BY <2>1, AllowedAll DEF TypeInv
    <3>2. ASSUME NEW q \in on[r].pids
          PROVE  Accounted(q)
      <4>1. q \in Pids /\ uid[q] \in Users /\ ~NoRowOf(q)
        BY <3>1 DEF Registered, Sid, TypeInv, REInv, RETypeOK, SubjectIds, NoRowOf
      <4>2. pc[q] # "forked"
        BY <4>1 DEF GroupInv, ForkInv
      <4>3. QED
        BY <3>1, <4>1, <4>2 DEF Accounted
    <3>3. Registered(r)'
      BY <1>2, <2>1, <3>1 DEF Registered, Sid
    <3>4. \A q \in on'[r].pids : Accounted(q)'
      BY <1>3, <2>1, <3>1, <3>2
    <3>5. QED
      BY <2>1, <3>1, <3>3, <3>4 DEF RowInv
  <2>2. CASE ~(r = p /\ pc' = [pc EXCEPT ![p] = "deliver"])
    BY <1>1, <1>4, <1>8, <2>2 DEF Check, Return
  <2>3. CASE UNCHANGED <<pc, on, uid>>
    BY <1>4, <2>3
  <2>4. \/ kill_group_check(p, "allowed") /\ pc' = [pc EXCEPT ![p] = "deliver"]
                                          /\ UNCHANGED <<on, uid>>
        \/ pc' = [pc EXCEPT ![p] = "idle"]
        \/ UNCHANGED <<pc, on, uid>>
    BY <1>8 DEF Check, Return
  <2>5. pc' = [pc EXCEPT ![p] = "idle"] => pc' # [pc EXCEPT ![p] = "deliver"]
    BY <1>1
  <2>6. QED
    BY <2>1, <2>2, <2>3, <2>4, <2>5
<1>9. ASSUME NEW p \in Pids, Deliver(p)
      PROVE  RowInv(r)'
  BY <1>1, <1>4, <1>9 DEF Deliver, Return
<1>10. ASSUME NEW p \in Pids, Exit(p)
       PROVE  RowInv(r)'
  <2>1. CASE r = p
    BY <1>1, <1>10, <2>1 DEF Exit, RowInv
  <2>2. CASE r # p
    BY <1>1, <1>4, <1>10, <2>2 DEF Exit
  <2>3. QED
    BY <2>1, <2>2
<1>11. QED
  BY <1>4, <1>5, <1>6, <1>7, <1>8, <1>9, <1>10 DEF Next, vars, Setpgid, ReadFile

LEMMA InitGroup == Init => GroupInv
<1> SUFFICES ASSUME Init PROVE GroupInv
  OBVIOUS
<1>1. \A p \in Pids : pc[p] \in {"idle", "free"}
  BY DEF Init
<1>2. \A p \in Pids : pc[p] = "idle" => p \in Strangers \/ Registered(p)
  BY DEF Init, Registered, Sid
<1>3. QED
  BY <1>1, <1>2 DEF GroupInv, ForkInv, RowInv

(***************************************************************************)
(* At most one fork is under way, a child that waits for its check has a   *)
(* parent that waits for it; whoever can call has a row; and whoever a     *)
(* call that was allowed will reach was asked about, under a row that is   *)
(* still the one it has.                                                   *)
(***************************************************************************)
THEOREM GroupInvariance == Spec => [](TypeInv /\ GroupInv)
<1>1. TypeInv /\ GroupInv /\ [Next]_vars => GroupInv'
  BY ForkInvKept, RowInvKept DEF GroupInv
<1>2. QED
  BY TypeInvariance, InitGroup, <1>1, PTL DEF Spec

(***************************************************************************)
(* A signal to a group ends the server only because of somebody on its     *)
(* list who is no registered process, whatever the others do meanwhile.    *)
(***************************************************************************)
THEOREM ServerStopsForStrangers == Spec => StopsOnlyForStrangers
<1> DEFINE Cause == \E p \in Pids : \E q \in on[p].pids :
                      q \in Strangers \cup {InitProc} \/ pc[q] \in {"free", "forked"}
           Stops == server = "up" /\ server' = "stopped"
<1>1. ASSUME TypeInv, GroupInv, Next, Stops
      PROVE  Cause
  <2>1. PICK p \in Pids : Check(p) /\ kill_group_check(p, "stopped")
    BY <1>1 DEF Next, Fork, ForkCheck, fork_check, Setpgid, ReadFile, file_read_check, List,
                Check, kill_group_check, kill_check, kill_many_check, Deliver, Exit, revars
  <2> DEFINE peers == {<<get_uid_from_pid(q), q>> : q \in on[p].pids}
  <2>2. ~(peers \cup {Sid(p)} \subseteq DOMAIN subjects)
    BY <1>1, <2>1, GroupCheck DEF kill_check, kill_many_check, revars
  <2>3. Registered(p)
    BY <1>1, <2>1 DEF Check, GroupInv, RowInv
  <2>4. PICK q \in on[p].pids : <<get_uid_from_pid(q), q>> \notin DOMAIN subjects
    BY <2>2, <2>3 DEF Registered
  <2>5. q \in Pids \cup {InitProc}
    BY <1>1 DEF TypeInv, ProcTypeOK, Call
  <2>6. q \in Pids => ~Registered(q)
    BY <2>4 DEF Registered, Sid, get_uid_from_pid
  <2>7. q \in Pids => q \in Strangers \/ pc[q] \in {"free", "forked"}
    BY <1>1, <2>6 DEF GroupInv, RowInv
  <2>8. QED
    BY <2>5, <2>7
<1>2. TypeInv /\ GroupInv /\ [Next]_vars => [Stops => Cause]_vars
  BY <1>1
<1>3. QED
  BY GroupInvariance, <1>2, PTL DEF Spec, StopsOnlyForStrangers

-----------------------------------------------------------------------------
(* Information *)

\* The state before a step of a system that is up and has not slipped.
Known == TypeInv /\ GroupInv /\ slips = {} /\ \A p \in Pids : FlowInv(p)

\* A row that may have some information still may when it has risen.
LEMMA MayRises ==
  ASSUME REStep, NEW info, NEW s, May(info, s, subjects)
  PROVE  May(info, s, subjects')
  BY DEF REStep, FlowsTo, May, Told

\* Whoever runs on as the same process may have what it could have.
LEMMA SameMay ==
  ASSUME REStep, NEW r, uid'[r] = uid[r], NEW info, May(info, Sid(r), subjects)
  PROVE  May(info, Sid(r)', subjects')
<1>1. Sid(r)' = Sid(r)
  BY DEF Sid
<1>2. QED
  BY <1>1, MayRises

\* Until a slip, nobody comes to where a signal that was listed is going.
LEMMA SignalledKept ==
  ASSUME TypeInv, [Next]_vars, slips = {}, slips' = {}, NEW r \in Pids,
         pc[r] \in {"listed", "deliver"}, on'[r] = on[r], pc'[r] \in {"listed", "deliver"}
  PROVE  Signalled(r)' \subseteq Signalled(r)
<1>1. /\ pc \in [Pids -> States] /\ uid \in [Pids -> Users \cup {NoUser}]
      /\ pgid \in [Pids -> Pids]
  BY DEF TypeInv, ProcTypeOK
<1>2. ASSUME Joins
      PROVE  Signalled(r)' \subseteq Signalled(r)
  BY <1>2 DEF Joins
<1>3. ASSUME uid'[r] = uid[r], pgid'[r] = pgid[r],
             \A q \in Pids : pc'[q] # "free" =>
               pc[q] # "free" /\ uid'[q] = uid[q] /\ pgid'[q] = pgid[q]
      PROVE  Signalled(r)' \subseteq Signalled(r)
  BY <1>3 DEF Signalled, Members, Live
<1>4. ASSUME NEW p \in Pids, Exit(p)
      PROVE  Signalled(r)' \subseteq Signalled(r)
  <2>1. r # p
    BY <1>1, <1>4 DEF Exit
  <2>2. QED
    BY <1>1, <1>3, <1>4, <2>1 DEF Exit
<1>5. CASE UNCHANGED <<uid, pgid>> /\ \A q \in Pids : pc'[q] # "free" => pc[q] # "free"
  BY <1>3, <1>5
<1>6. QED
  BY <1>1, <1>2, <1>4, <1>5 DEF Next, vars, Fork, ForkCheck, Setpgid, ReadFile, List, Check,
                                Deliver, Return

\* Whoever has the call and the knowledge that it had is covered as it was.
LEMMA BystanderCovered ==
  ASSUME Known, [Next]_vars, slips' = {}, NEW r \in Pids,
         uid'[r] = uid[r], pc'[r] = pc[r], on'[r] = on[r], know'[r] = know[r],
         pc[r] = "forked" => \A q \in Pids : pc'[q] = "forkwait" =>
                               pc[q] = "forkwait" /\ uid'[q] = uid[q]
  PROVE  FlowInv(r)'
<1>1. REStep /\ FlowInv(r) /\ TypeInv
  BY RowSteps DEF Known
<1>2. pc'[r] = "free" => know'[r] = {}
  BY <1>1 DEF FlowInv
<1>3. pc'[r] # "forked" => May(know'[r], Sid(r)', subjects')
  BY <1>1, SameMay DEF FlowInv
<1>4. pc'[r] = "forked" => \A q \in Pids : pc'[q] = "forkwait" =>
                             May(know'[r], Sid(q)', subjects')
  BY <1>1, SameMay DEF FlowInv
<1>5. pc'[r] \in {"listed", "deliver"} => May(on'[r].tells, Sid(r)', subjects')
  BY <1>1, SameMay DEF FlowInv
<1>6. pc'[r] \in {"listed", "deliver"} => Signalled(r)' \subseteq on'[r].pids \cup {r}
  BY <1>1, SignalledKept DEF FlowInv, Known
<1>7. ASSUME pc'[r] = "deliver", NEW q \in on'[r].pids, Live(q)'
      PROVE  May(on'[r].tells, Sid(q)', subjects')
  <2>1. q \in Pids /\ Accounted(q)
    BY <1>7 DEF Known, GroupInv, RowInv
  <2>2. Live(q) /\ uid'[q] = uid[q]
    <3>1. ASSUME NEW p \in Pids, NEW c \in Pids, Fork(p, c)
          PROVE  Live(q) /\ uid'[q] = uid[q]
      BY <1>1, <1>7, <2>1, <3>1 DEF Fork, Accounted, Live, TypeInv, ProcTypeOK
    <3>2. ASSUME NEW p \in Pids, Exit(p)
          PROVE  Live(q) /\ uid'[q] = uid[q]
      BY <1>1, <1>7, <2>1, <3>2 DEF Exit, Live, TypeInv, ProcTypeOK
    <3>3. QED
      BY <1>1, <1>7, <2>1, <3>1, <3>2
         DEF Next, vars, ForkCheck, Setpgid, ReadFile, List, Check, Deliver, Return, Live,
             TypeInv, ProcTypeOK
  <2>3. May(on[r].tells, Sid(q), subjects)
    BY <1>1, <1>7, <2>2 DEF FlowInv
  <2>4. QED
    BY <1>1, <2>2, <2>3, SameMay
<1>8. QED
  BY <1>2, <1>3, <1>4, <1>5, <1>6, <1>7 DEF FlowInv

\* A process at rest has only what it knows to be covered.
LEMMA AtRest ==
  ASSUME NEW r \in Pids, pc'[r] \in {"idle", "forkwait"},
         May(know'[r], Sid(r)', subjects')
  PROVE  FlowInv(r)'
  BY DEF FlowInv

LEMMA ForkCovered ==
  ASSUME Known, [Next]_vars, slips' = {}, NEW p \in Pids, NEW c \in Pids, Fork(p, c),
         NEW r \in Pids
  PROVE  FlowInv(r)'
<1>1. /\ REStep
      /\ pc \in [Pids -> States] /\ uid \in [Pids -> Users \cup {NoUser}]
      /\ know \in [Pids -> SUBSET Files]
      /\ p # c /\ pc'[p] = "forkwait" /\ pc'[c] = "forked"
      /\ \A q \in Pids : pc'[q] = "forkwait" => q = p
      /\ uid'[p] = uid[p] /\ know'[p] = know[p] /\ know'[c] = know[p]
      /\ pc[p] = "idle" /\ \A q \in Pids : pc[q] # "forked"
  BY RowSteps DEF Known, TypeInv, ProcTypeOK, GroupInv, ForkInv, Fork, ForkPending
<1>2. May(know[p], Sid(p)', subjects')
  BY <1>1, SameMay DEF Known, FlowInv
<1>3. CASE r = p
  BY <1>1, <1>2, <1>3, AtRest
<1>4. CASE r = c
  BY <1>1, <1>2, <1>4 DEF FlowInv
<1>5. CASE r \notin {p, c}
  BY <1>1, <1>5, BystanderCovered DEF Fork
<1>6. QED
  BY <1>3, <1>4, <1>5

\* The child's row is its parent's, which covers what the child knows.
LEMMA ForkCheckCovered ==
  ASSUME Known, [Next]_vars, slips' = {}, NEW p \in Pids, NEW c \in Pids, ForkCheck(p, c),
         NEW r \in Pids
  PROVE  FlowInv(r)'
<1>1. /\ REStep
      /\ pc \in [Pids -> States] /\ UNCHANGED <<uid, on, know>>
      /\ pc[p] = "forkwait" /\ pc[c] = "forked"
      /\ pc'[p] = "idle" /\ pc'[c] = "idle" /\ \A q \in Pids \ {p, c} : pc'[q] = pc[q]
      /\ \A q \in Pids : pc[q] = "forked" => q = c
      /\ uid[c] = uid[p] /\ Sid(c) \notin DOMAIN subjects
  BY RowSteps DEF Known, TypeInv, ProcTypeOK, GroupInv, ForkInv, ForkCheck, NoRowOf, Sid, Live
<1>2. May(know[p], Sid(p), subjects) /\ May(know[c], Sid(p), subjects)
  BY <1>1 DEF Known, FlowInv
<1>3. CASE r = p
  <2>1. May(know'[p], Sid(p)', subjects')
    BY <1>1, <1>2, SameMay
  <2>2. QED
    BY <1>1, <1>3, <2>1, AtRest
<1>4. CASE r = c
  <2>1. Sid(c) \in DOMAIN subjects' /\ Sid(c)' = Sid(c)
    BY <1>1, ForkCheckRows DEF Sid
  <2>2. Sid(p) \in DOMAIN subjects => subjects'[Sid(c)] = subjects[Sid(p)]
    BY <1>1, ForkCheckRows DEF Sid
  <2>3. May(know'[c], Sid(c)', subjects')
    BY <1>1, <1>2, <2>1, <2>2 DEF May
  <2>4. QED
    BY <1>1, <1>4, <2>3, AtRest
<1>5. CASE r \notin {p, c}
  BY <1>1, <1>5, BystanderCovered
<1>6. QED
  BY <1>3, <1>4, <1>5

LEMMA ReadFileCovered ==
  ASSUME Known, [Next]_vars, slips' = {}, NEW p \in Pids, NEW f \in Files, ReadFile(p, f),
         NEW r \in Pids
  PROVE  FlowInv(r)'
<1>1. /\ REStep /\ pc[p] = "idle" /\ UNCHANGED <<pc, uid, on>>
      /\ know'[p] = know[p] \cup {f} /\ \A q \in Pids \ {p} : know'[q] = know[q]
      /\ Sid(p)' = Sid(p)
  BY RowSteps DEF Known, TypeInv, ProcTypeOK, ReadFile, Sid
<1>2. CASE r = p
  <2>1. /\ f \in DOMAIN objects /\ Sid(p) \in DOMAIN subjects
        /\ subjects' = [subjects EXCEPT ![Sid(p)] = Raise(@, objects[f])]
        /\ subjects[Sid(p)] \in SubjectRow
        /\ objects[f] = InferredObject(f) /\ objects[f] \in ObjectRow
    BY DEF ReadFile, file_read_check, Known, TypeInv, REInv, RETypeOK, ObjectsInferred
  <2>2. /\ Sid(p) \in DOMAIN subjects'
        /\ subjects'[Sid(p)].readers = subjects[Sid(p)].readers \cap objects[f].readers
        /\ objects[f].readers = ReadersOf(f)
    BY <2>1, RaiseRow DEF ObjectRow, UserSet, InferredObject, ReadersOf
  <2>3. May(know[p], Sid(p), subjects')
    BY <1>1, MayRises DEF Known, FlowInv
  <2>4. May(know'[p], Sid(p)', subjects')
    BY <1>1, <2>2, <2>3 DEF May, Told
  <2>5. QED
    BY <1>1, <1>2, <2>4, AtRest
<1>3. CASE r # p
  BY <1>1, <1>3, BystanderCovered
<1>4. QED
  BY <1>2, <1>3

\* What the kernel will signal is on the list, unless kill(-g) is misused.
LEMMA ListReaches ==
  ASSUME ProcTypeOK, NEW p \in Pids, NEW form \in Forms, NEW g \in Pids, List(p, form, g),
         slips' = {}
  PROVE  Signalled(p)' \subseteq Listed(p, form, g) \cup {p}
<1>1. /\ on'[p].form = form /\ on'[p].group = g
      /\ UNCHANGED <<uid, pgid>> /\ Live(p) /\ \A q \in Pids : Live(q)' <=> Live(q)
  BY DEF List, ProcTypeOK, Live
<1>2. \A x : Members(x)' = Members(x)
  BY <1>1 DEF Members
<1>3. CASE form = "kill(0)"
  BY <1>1, <1>2, <1>3 DEF Signalled, Listed, get_group_pids_from_pid, getpgid
<1>4. CASE form = "kill(-1)"
  BY <1>1, <1>4 DEF Signalled, Listed, get_all_permitted_pids_from_pid
<1>5. CASE form = "kill(-g)"
  <2>1. g = p /\ pgid[p] = g
    BY <1>5 DEF List
  <2>2. QED
    BY <1>1, <1>2, <1>5, <2>1 DEF Signalled, Listed, get_group_pids_from_pid, getpgid
<1>6. CASE form = "killpg"
  BY <1>1, <1>2, <1>6 DEF Signalled, Listed, get_group_pids_from_group
<1>7. QED
  BY <1>3, <1>4, <1>5, <1>6 DEF Forms

LEMMA ListCovered ==
  ASSUME Known, [Next]_vars, slips' = {}, NEW p \in Pids, NEW form \in Forms, NEW g \in Pids,
         List(p, form, g), NEW r \in Pids
  PROVE  FlowInv(r)'
<1> DEFINE pids == Listed(p, form, g)
<1>1. /\ REStep /\ pc[p] = "idle" /\ UNCHANGED <<uid, know>>
      /\ pc'[p] \in {"listed", "deliver"} /\ (pc'[p] = "deliver" => pids = {})
      /\ on'[p] = [form |-> form, group |-> g, pids |-> pids, tells |-> know[p]]
      /\ \A q \in Pids \ {p} : pc'[q] = pc[q] /\ on'[q] = on[q]
  BY RowSteps DEF Known, TypeInv, ProcTypeOK, List
<1>2. CASE r = p
  <2>1. May(know[p], Sid(p)', subjects')
    BY <1>1, SameMay DEF Known, FlowInv
  <2>2. Signalled(p)' \subseteq pids \cup {p}
    BY ListReaches DEF Known, TypeInv
  <2>3. on'[p].pids = pids /\ on'[p].tells = know[p] /\ know'[p] = know[p]
    BY <1>1
  <2> HIDE DEF pids
  <2>4. QED
    BY <1>1, <1>2, <2>1, <2>2, <2>3 DEF FlowInv
<1>3. CASE r # p
  <2>1. \A q \in Pids : pc'[q] = "forkwait" => pc[q] = "forkwait"
    BY <1>1
  <2>2. QED
    BY <1>1, <1>3, <2>1, BystanderCovered
<1>4. QED
  BY <1>2, <1>3

LEMMA CheckCovered ==
  ASSUME Known, [Next]_vars, slips' = {}, NEW p \in Pids, Check(p), NEW r \in Pids
  PROVE  FlowInv(r)'
<1>1. /\ REStep /\ pc[p] = "listed" /\ UNCHANGED <<uid, know>>
      /\ pc \in [Pids -> States] /\ on \in [Pids -> Call]
  BY RowSteps DEF Known, TypeInv, ProcTypeOK, Check
<1>2. May(know'[p], Sid(p)', subjects')
  BY <1>1, SameMay DEF Known, FlowInv
<1>3. CASE r # p
  <2>1. /\ pc'[r] = pc[r] /\ on'[r] = on[r] /\ pc'[p] # "forkwait"
        /\ \A q \in Pids \ {p} : pc'[q] = pc[q]
    BY <1>1, <1>3 DEF Check, Return
  <2>2. QED
    BY <1>1, <2>1, BystanderCovered
<1>4. CASE UNCHANGED <<pc, on>>
  BY <1>1, <1>4, BystanderCovered
<1>5. CASE r = p /\ pc' = [pc EXCEPT ![p] = "idle"]
  BY <1>1, <1>2, <1>5, AtRest
<1>6. CASE /\ r = p /\ kill_group_check(p, "allowed")
           /\ pc' = [pc EXCEPT ![p] = "deliver"] /\ UNCHANGED on
  <2>1. pc'[p] = "deliver" /\ on'[p] = on[p]
    BY <1>1, <1>6
  <2>2. May(on[p].tells, Sid(p), subjects)
    BY <1>1 DEF Known, FlowInv
  <2>3. May(on[p].tells, Sid(p)', subjects')
    BY <1>1, <2>2, SameMay
  <2>4. Signalled(p)' \subseteq on[p].pids \cup {p}
    BY <1>1, <2>1, SignalledKept DEF Known, FlowInv
  <2>5. ASSUME NEW q \in on[p].pids
        PROVE  May(on[p].tells, Sid(q)', subjects')
    <3>1. /\ Registered(q) /\ DOMAIN subjects' = DOMAIN subjects
          /\ subjects'[Sid(q)].readers \subseteq subjects[Sid(p)].readers
      BY <1>6, AllowedAll DEF Known, TypeInv
    <3>2. Sid(q)' = Sid(q)
      BY <1>1 DEF Sid
    <3>3. QED
      BY <2>2, <3>1, <3>2 DEF May, Told, Registered
  <2>6. QED
    BY <1>2, <1>6, <2>1, <2>3, <2>4, <2>5 DEF FlowInv
<1>7. \/ r # p
      \/ UNCHANGED <<pc, on>>
      \/ r = p /\ pc' = [pc EXCEPT ![p] = "idle"]
      \/ /\ r = p /\ kill_group_check(p, "allowed")
         /\ pc' = [pc EXCEPT ![p] = "deliver"] /\ UNCHANGED on
  BY DEF Check, Return
<1>8. QED
  BY <1>3, <1>4, <1>5, <1>6, <1>7

\* The kernel tells only those that the check has raised, and the caller itself.
LEMMA DeliverCovered ==
  ASSUME Known, [Next]_vars, slips' = {}, NEW p \in Pids, Deliver(p), NEW r \in Pids
  PROVE  FlowInv(r)'
<1>1. /\ REStep /\ pc[p] = "deliver" /\ UNCHANGED <<uid, pgid, subjects>>
      /\ pc \in [Pids -> States] /\ on \in [Pids -> Call]
      /\ pc'[p] = "idle" /\ \A q \in Pids \ {p} : pc'[q] = pc[q] /\ on'[q] = on[q]
      /\ Sid(r)' = Sid(r)
  BY RowSteps DEF Known, TypeInv, ProcTypeOK, Deliver, Return, revars, Sid
<1>2. ASSUME r \in Signalled(p)
      PROVE  Live(r) /\ May(on[p].tells, Sid(r), subjects) /\ pc[r] # "forked"
  <2>1. Live(r)
    BY <1>2 DEF Signalled, Members
  <2>2. r = p \/ r \in on[p].pids
    BY <1>1, <1>2 DEF Known, FlowInv
  <2>3. QED
    BY <1>1, <2>1, <2>2 DEF Known, FlowInv, GroupInv, RowInv, Accounted
<1>3. know'[r] = know[r] \/ (know'[r] = know[r] \cup on[p].tells /\ r \in Signalled(p))
  BY DEF Deliver
<1>4. pc[r] # "forked" => May(know'[r], Sid(r)', subjects')
  <2>1. pc[r] # "forked" => May(know[r], Sid(r), subjects)
    BY DEF Known, FlowInv
  <2>2. QED
    BY <1>1, <1>2, <1>3, <2>1 DEF May, Told
<1>5. CASE r = p
  BY <1>1, <1>4, <1>5, AtRest
<1>6. CASE r # p /\ know'[r] = know[r]
  BY <1>1, <1>6, BystanderCovered
<1>7. CASE r # p /\ r \in Signalled(p)
  <2>1. /\ uid'[r] = uid[r] /\ pc'[r] = pc[r] /\ on'[r] = on[r]
        /\ pc[r] \notin {"free", "forked"}
    BY <1>1, <1>2, <1>7 DEF Live
  <2>2. pc'[r] \in {"listed", "deliver"} =>
          /\ May(on'[r].tells, Sid(r)', subjects')
          /\ Signalled(r)' \subseteq on'[r].pids \cup {r}
    BY <1>1, <2>1, SignalledKept DEF Known, FlowInv
  <2>3. pc'[r] = "deliver" =>
          \A q \in on'[r].pids : Live(q)' => May(on'[r].tells, Sid(q)', subjects')
    <3>1. \A q \in Pids : Live(q)' => Live(q) /\ Sid(q)' = Sid(q)
      BY <1>1 DEF Live, Sid
    <3>2. pc[r] = "deliver" => on[r].pids \subseteq Pids
      BY DEF Known, GroupInv, RowInv
    <3>3. QED
      BY <1>1, <2>1, <3>1, <3>2 DEF Known, FlowInv
  <2>4. QED
    BY <1>4, <2>1, <2>2, <2>3 DEF FlowInv
<1>8. QED
  BY <1>3, <1>5, <1>6, <1>7

LEMMA ExitCovered ==
  ASSUME Known, [Next]_vars, slips' = {}, NEW p \in Pids, Exit(p), NEW r \in Pids
  PROVE  FlowInv(r)'
<1>1. /\ pc'[p] = "free" /\ know'[p] = {} /\ pc[p] # "forkwait"
      /\ \A q \in Pids \ {p} : /\ pc'[q] = pc[q] /\ on'[q] = on[q] /\ know'[q] = know[q]
                               /\ uid'[q] = uid[q]
  BY DEF Known, TypeInv, ProcTypeOK, Exit
<1>2. CASE r = p
  BY <1>1, <1>2 DEF FlowInv, May
<1>3. CASE r # p
  BY <1>1, <1>3, BystanderCovered
<1>4. QED
  BY <1>2, <1>3

\* Nothing happens once the server has ended, and a slip is not forgotten.
LEMMA NoWayBack ==
  ASSUME TypeInv, [Next]_vars, server' = "up", slips' = {}
  PROVE  server = "up" /\ slips = {}
<1>1. slips \subseteq slips'
  BY DEF Next, vars, Fork, Joins, ForkCheck, Setpgid, ReadFile, List, Check, Deliver, Exit
<1>2. \A p, ret : kill_group_check(p, ret) => server = "up"
  BY DEF kill_group_check, kill_check, kill_many_check, StopServer
<1>3. UNCHANGED vars \/ server = "up"
  BY <1>2 DEF Next, Fork, ForkCheck, fork_check, Setpgid, ReadFile, file_read_check, List, Check,
              Deliver, Exit
<1>4. QED
  BY <1>1, <1>3 DEF vars, revars

LEMMA LeakInvKept ==
  ASSUME TypeInv, GroupInv, LeakInv, [Next]_vars
  PROVE  LeakInv'
<1> SUFFICES ASSUME server' = "up", slips' = {}, NEW r \in Pids
             PROVE  FlowInv(r)'
  BY DEF LeakInv
<1>1. Known
  BY NoWayBack DEF Known, LeakInv
<1>2. ASSUME NEW p \in Pids, NEW g \in Pids, Setpgid(p, g)
      PROVE  FlowInv(r)'
  BY <1>1, <1>2, BystanderCovered DEF Setpgid
<1>3. CASE UNCHANGED vars
  BY <1>1, <1>3, BystanderCovered DEF vars
<1>4. QED
  BY <1>1, <1>2, <1>3, ForkCovered, ForkCheckCovered, ReadFileCovered, ListCovered,
     CheckCovered, DeliverCovered, ExitCovered DEF Next

LEMMA InitLeak == Init => LeakInv
  BY DEF Init, LeakInv, FlowInv, May

(***************************************************************************)
(* Until a group changes under a call, or kill(-g) is called from outside  *)
(* of g, what processes know and what signals tell is covered by the rows  *)
(* of those that know it and of those that a signal will reach.            *)
(***************************************************************************)
THEOREM SignalsCovered == Spec => []LeakInv
<1>1. TypeInv /\ GroupInv /\ LeakInv /\ [Next]_vars => LeakInv'
  BY LeakInvKept
<1>2. QED
  BY GroupInvariance, InitLeak, <1>1, PTL DEF Spec

(***************************************************************************)
(* So nobody learns of a file from a signal to its group, through any      *)
(* chain of signals and forks, without a row that allows it.               *)
(***************************************************************************)
THEOREM NoUncoveredKnowledge == Spec => []KnowledgeCovered
<1>1. TypeInv /\ GroupInv /\ LeakInv => KnowledgeCovered
  <2> SUFFICES ASSUME TypeInv, GroupInv, LeakInv, server = "up", slips = {},
                      NEW p \in Pids, NEW f \in know[p]
               PROVE  /\ uid[p] \in ReadersOf(f)
                      /\ pc[p] # "forked" =>
                           /\ Sid(p) \in DOMAIN subjects
                           /\ subjects[Sid(p)].readers \subseteq ReadersOf(f)
    BY DEF KnowledgeCovered
  <2>1. \A q : Sid(q) \in DOMAIN subjects => uid[q] \in subjects[Sid(q)].readers
    BY DEF TypeInv, REInv, OwnerKeepsAccess, Sid
  <2>2. FlowInv(p) /\ know[p] # {}
    BY DEF LeakInv
  <2>3. CASE pc[p] # "forked"
    <3>1. Sid(p) \in DOMAIN subjects /\ subjects[Sid(p)].readers \subseteq ReadersOf(f)
      BY <2>2, <2>3 DEF FlowInv, May, Told
    <3>2. QED
      BY <2>1, <3>1
  <2>4. CASE pc[p] = "forked"
    <3>1. PICK q \in Pids : pc[q] = "forkwait" /\ uid[p] = uid[q]
      BY <2>4 DEF GroupInv, ForkInv
    <3>2. Sid(q) \in DOMAIN subjects /\ subjects[Sid(q)].readers \subseteq ReadersOf(f)
      BY <2>2, <2>4, <3>1 DEF FlowInv, May, Told
    <3>3. uid[q] \in ReadersOf(f)
      BY <2>1, <3>2
    <3>4. QED
      BY <2>4, <3>1, <3>3
  <2>5. QED
    BY <2>3, <2>4
<1>2. QED
  BY GroupInvariance, SignalsCovered, <1>1, PTL
=============================================================================
