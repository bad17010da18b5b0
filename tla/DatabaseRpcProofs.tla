------------------------- MODULE DatabaseRpcProofs --------------------------
(***************************************************************************)
(* Theorems about DatabaseRpc, for any number of clients, users, files and *)
(* requests under way, and whichever clients die.  They need that no two   *)
(* clients are threads of one process: the answers are told apart by pid.  *)
(***************************************************************************)
EXTENDS DatabaseRpc, LabelProofs, SequenceTheorems, FiniteSetTheorems

SingleThreaded == \A c, d \in Clients : PidOf[c] = PidOf[d] => c = d

-----------------------------------------------------------------------------
(* Arrays and queues *)

IsSeq(s) == s \in Seq(Range(s))

LEMMA AppendFacts ==
  ASSUME NEW s, IsSeq(s), NEW e
  PROVE  /\ IsSeq(Append(s, e)) /\ Len(s) \in Nat
         /\ Len(Append(s, e)) = Len(s) + 1
         /\ \A i \in 1..Len(s) : Append(s, e)[i] = s[i]
         /\ Append(s, e)[Len(s) + 1] = e
         /\ DOMAIN s = 1..Len(s) /\ DOMAIN Append(s, e) = 1..(Len(s) + 1)
<1> DEFINE S == Range(s) \cup {e}
<1>1. s \in Seq(S) /\ e \in S
  BY SeqMonotonic DEF IsSeq
<1> HIDE DEF S
<1>2. Append(s, e) \in Seq(S)
  BY <1>1, AppendProperties
<1>3. IsSeq(Append(s, e))
  BY <1>2, SeqOfRange DEF IsSeq
<1>4. QED
  BY <1>1, <1>2, <1>3, AppendProperties, LenProperties

LEMMA TailFacts ==
  ASSUME NEW s, IsSeq(s), s # <<>>
  PROVE  /\ IsSeq(Tail(s)) /\ Len(s) \in Nat \ {0}
         /\ Len(Tail(s)) = Len(s) - 1
         /\ \A i \in 1..(Len(s) - 1) : Tail(s)[i] = s[i + 1]
         /\ Head(s) = s[1]
         /\ DOMAIN s = 1..Len(s) /\ DOMAIN Tail(s) = 1..(Len(s) - 1)
<1> DEFINE S == Range(s)
<1>1. s \in Seq(S)
  BY DEF IsSeq
<1> HIDE DEF S
<1>2. /\ Tail(s) \in Seq(S) /\ Len(Tail(s)) = Len(s) - 1 /\ Len(s) \in Nat \ {0}
      /\ \A i \in 1..Len(Tail(s)) : Tail(s)[i] = s[i + 1]
  BY <1>1, HeadTailProperties, EmptySeq
<1>3. IsSeq(Tail(s))
  BY <1>2, SeqOfRange DEF IsSeq
<1>4. Head(s) = s[1]
  BY <1>1
<1>5. QED
  BY <1>1, <1>2, <1>3, <1>4, LenProperties

LEMMA RemoveAtFacts ==
  ASSUME NEW s, IsSeq(s), NEW k \in 1..Len(s)
  PROVE  /\ IsSeq(RemoveAt(s, k)) /\ Len(s) \in Nat
         /\ DOMAIN s = 1..Len(s) /\ DOMAIN RemoveAt(s, k) = 1..(Len(s) - 1)
         /\ \A i \in 1..(Len(s) - 1) :
              RemoveAt(s, k)[i] = s[IF i < k THEN i ELSE i + 1]
<1> DEFINE S == Range(s)
           low == SubSeq(s, 1, k - 1)
           high == SubSeq(s, k + 1, Len(s))
<1>1. s \in Seq(S)
  BY DEF IsSeq
<1> HIDE DEF S
<1>2. Len(s) \in Nat /\ DOMAIN s = 1..Len(s) /\ \A i \in 1..Len(s) : s[i] \in S
  BY <1>1, LenProperties, ElementOfSeq
<1>3. /\ low \in Seq(S) /\ Len(low) = k - 1
      /\ \A i \in 1..(k - 1) : low[i] = s[i]
  <2>1. \A i \in 1..(k - 1) : s[i] \in S
    BY <1>2
  <2>2. QED
    BY <1>2, <2>1, SubSeqProperties
<1>4. /\ high \in Seq(S) /\ Len(high) = Len(s) - k
      /\ \A i \in 1..(Len(s) - k) : high[i] = s[k + i]
  <2>1. \A i \in (k + 1)..Len(s) : s[i] \in S
    BY <1>2
  <2>2. QED
    BY <1>2, <2>1, SubSeqProperties
<1> HIDE DEF low, high
<1>5. RemoveAt(s, k) = low \o high
  BY DEF RemoveAt, low, high
<1>6. /\ low \o high \in Seq(S) /\ Len(low \o high) = Len(s) - 1
      /\ \A i \in 1..(Len(s) - 1) :
           (low \o high)[i] = IF i <= k - 1 THEN low[i] ELSE high[i - (k - 1)]
  <2>1. Len(low) + Len(high) = Len(s) - 1
    BY <1>2, <1>3, <1>4
  <2>2. /\ low \o high \in Seq(S) /\ Len(low \o high) = Len(low) + Len(high)
        /\ \A i \in 1..(Len(low) + Len(high)) :
             (low \o high)[i] = IF i <= Len(low) THEN low[i] ELSE high[i - Len(low)]
    BY <1>3, <1>4, ConcatProperties
  <2>3. QED
    BY <1>3, <2>1, <2>2
<1>7. IsSeq(low \o high) /\ DOMAIN (low \o high) = 1..(Len(s) - 1)
  BY <1>6, SeqOfRange, LenProperties DEF IsSeq
<1>8. ASSUME NEW i \in 1..(Len(s) - 1)
      PROVE  (low \o high)[i] = s[IF i < k THEN i ELSE i + 1]
  <2>1. CASE i < k
    BY <1>2, <1>3, <1>6, <2>1
  <2>2. CASE i >= k
    <3>1. (low \o high)[i] = high[i - (k - 1)] /\ i - (k - 1) \in 1..(Len(s) - k)
      BY <1>2, <1>6, <2>2
    <3>2. high[i - (k - 1)] = s[i + 1]
      <4>1. k + (i - (k - 1)) = i + 1
        BY <1>2
      <4>2. QED
        BY <1>4, <3>1, <4>1
    <3>3. QED
      BY <1>2, <2>2, <3>1, <3>2
  <2>3. i < k \/ i >= k
    BY <1>2
  <2>4. QED
    BY <2>1, <2>2, <2>3
<1>9. QED
  BY <1>2, <1>5, <1>7, <1>8

\* A set of positions has a least one: the finite sets 1..i are well founded.
LEMMA LeastIndex ==
  ASSUME NEW I, I \subseteq Nat, I # {}
  PROVE  Min(I) \in I /\ \A i \in I : Min(I) <= i
<1> DEFINE T == {1..i : i \in I}
<1>1. IsWellFoundedOn(StrictSubsetOrdering(Nat), FiniteSubsetsOf(Nat))
  BY FS_StrictSubsetOrderingWellFounded
<1>2. T \subseteq FiniteSubsetsOf(Nat) /\ T # {}
  <2>1. \A i \in I : 1..i \subseteq Nat /\ IsFiniteSet(1..i)
    BY FS_Interval
  <2>2. QED
    BY <2>1 DEF FiniteSubsetsOf
<1>3. PICK X \in T : \A Y \in T : ~(<<Y, X>> \in StrictSubsetOrdering(Nat))
  BY <1>1, <1>2, WFMin
<1>4. PICK x \in I : X = 1..x
  OBVIOUS
<1>5. ASSUME NEW y \in I, y < x
      PROVE  FALSE
  <2>1. 1..y \subseteq 1..x /\ 1..y # 1..x /\ 1..x \subseteq Nat /\ 1..y \subseteq Nat
    BY <1>5
  <2>2. <<1..y, 1..x>> \in StrictSubsetOrdering(Nat)
    BY <2>1 DEF StrictSubsetOrdering
  <2>3. QED
    BY <1>3, <1>4, <2>2
<1>6. \A y \in I : x <= y
  BY <1>5
<1>7. QED
  BY <1>6 DEF Min

LEMMA IndexOfFacts ==
  ASSUME NEW ids, IsSeq(ids), NEW id
  PROVE  /\ IndexOf(ids, id) \in 0..Len(ids) /\ Len(ids) \in Nat /\ DOMAIN ids = 1..Len(ids)
         /\ IndexOf(ids, id) = 0 => \A i \in 1..Len(ids) : ids[i] # id
         /\ IndexOf(ids, id) # 0 => ids[IndexOf(ids, id)] = id
<1> DEFINE I == {i \in 1..Len(ids) : ids[i] = id}
<1>1. IndexOf(ids, id) = IF I # {} THEN Min(I) ELSE 0
  BY DEF IndexOf, SelectInSeq
<1>2. I # {} => Min(I) \in I
  <2>1. I \subseteq Nat
    BY LenProperties DEF IsSeq
  <2> HIDE DEF I
  <2>2. QED
    BY <2>1, LeastIndex
<1>3. QED
  BY <1>1, <1>2, LenProperties DEF IsSeq

LEMMA RowAtFacts ==
  ASSUME NEW rows, IsSeq(rows), NEW index
  PROVE  /\ RowAt(rows, index) \in 0..Len(rows) /\ Len(rows) \in Nat
         /\ DOMAIN rows = 1..Len(rows)
         /\ RowAt(rows, index) = 0 => \A k \in 1..Len(rows) : rows[k].index # index
         /\ RowAt(rows, index) # 0 => rows[RowAt(rows, index)].index = index
<1> DEFINE I == {k \in 1..Len(rows) : rows[k].index = index}
<1>1. RowAt(rows, index) = IF I # {} THEN Min(I) ELSE 0
  BY DEF RowAt, SelectInSeq
<1>2. I # {} => Min(I) \in I
  <2>1. I \subseteq Nat
    BY LenProperties DEF IsSeq
  <2> HIDE DEF I
  <2>2. QED
    BY <2>1, LeastIndex
<1>3. QED
  BY <1>1, <1>2, LenProperties DEF IsSeq

\* read_response finds a response for the pid.
LEMMA AnswerFound ==
  ASSUME NEW q, IsSeq(q), NEW p,
         SelectInSeq(q, LAMBDA r : r.pid = p) # 0
  PROVE  /\ SelectInSeq(q, LAMBDA r : r.pid = p) \in 1..Len(q)
         /\ q[SelectInSeq(q, LAMBDA r : r.pid = p)].pid = p
<1> DEFINE I == {k \in 1..Len(q) : q[k].pid = p}
           i == SelectInSeq(q, LAMBDA r : r.pid = p)
<1>1. i = IF I # {} THEN Min(I) ELSE 0
  BY DEF SelectInSeq
<1>2. I # {} => Min(I) \in I
  <2>1. I \subseteq Nat
    BY LenProperties DEF IsSeq
  <2> HIDE DEF I
  <2>2. QED
    BY <2>1, LeastIndex
<1> HIDE DEF i
<1>3. i # 0 => i \in I
  BY <1>1, <1>2
<1>4. QED
  BY <1>3 DEF i

-----------------------------------------------------------------------------
(* One table: the array of its ids, and the array of its rows *)

(***************************************************************************)
(* ids are told apart, and a row belongs to one of them.                   *)
(***************************************************************************)
TableOK(ids, rows) ==
  /\ IsSeq(ids)
  /\ \A i, j \in 1..Len(ids) : ids[i] = ids[j] => i = j
  /\ rows \in Seq(Rows)
  /\ \A k \in 1..Len(rows) : rows[k].index \in 1..Len(ids)
  /\ \A k, l \in 1..Len(rows) : rows[k].index = rows[l].index => k = l

\* What the two arrays say together, and the function that stands for it.
RowOf(ids, rows, id) == Fields(rows[RowAt(rows, IndexOf(ids, id))])
Known(ids, rows) == {ids[i] : i \in Complete(ids, rows)}

RowType == [owner : Users \cup {NoUser}, readers : UserSet, writers : UserSet]

LEMMA TableFacts ==
  ASSUME NEW ids, NEW rows, TableOK(ids, rows)
  PROVE  /\ IsSeq(ids) /\ IsSeq(rows)
         /\ Len(ids) \in Nat /\ DOMAIN ids = 1..Len(ids)
         /\ Len(rows) \in Nat /\ DOMAIN rows = 1..Len(rows)
         /\ \A i \in 1..Len(ids) : IndexOf(ids, ids[i]) = i
         /\ \A k \in 1..Len(rows) : /\ RowAt(rows, rows[k].index) = k /\ rows[k] \in Rows
                                    /\ Fields(rows[k]) \in RowType
<1>1. IsSeq(ids) /\ IsSeq(rows)
  BY SeqOfRange DEF TableOK, IsSeq
<1>2. /\ Len(ids) \in Nat /\ DOMAIN ids = 1..Len(ids)
      /\ Len(rows) \in Nat /\ DOMAIN rows = 1..Len(rows)
  BY <1>1, LenProperties DEF IsSeq
<1>3. ASSUME NEW i \in 1..Len(ids)
      PROVE  IndexOf(ids, ids[i]) = i
  <2>1. IndexOf(ids, ids[i]) # 0
    BY <1>1, IndexOfFacts
  <2>2. /\ IndexOf(ids, ids[i]) \in 1..Len(ids)
        /\ ids[IndexOf(ids, ids[i])] = ids[i]
    BY <1>1, <1>2, <2>1, IndexOfFacts
  <2>3. QED
    BY <2>2 DEF TableOK
<1>4. ASSUME NEW k \in 1..Len(rows)
      PROVE  RowAt(rows, rows[k].index) = k /\ rows[k] \in Rows /\ Fields(rows[k]) \in RowType
  <2>1. RowAt(rows, rows[k].index) # 0
    BY <1>1, RowAtFacts
  <2>2. /\ RowAt(rows, rows[k].index) \in 1..Len(rows)
        /\ rows[RowAt(rows, rows[k].index)].index = rows[k].index
    BY <1>1, <1>2, <2>1, RowAtFacts
  <2>3. rows[k] \in Rows
    BY ElementOfSeq DEF TableOK
  <2>4. QED
    BY <2>2, <2>3 DEF TableOK, Rows, RowType, Fields
<1>5. QED
  BY <1>1, <1>2, <1>3, <1>4

LEMMA KnownFacts ==
  ASSUME NEW ids, NEW rows, TableOK(ids, rows), NEW id
  PROVE  /\ id \in Known(ids, rows) <=>
              IndexOf(ids, id) # 0 /\ RowAt(rows, IndexOf(ids, id)) # 0
         /\ id \in Known(ids, rows) =>
              /\ IndexOf(ids, id) \in 1..Len(ids)
              /\ RowAt(rows, IndexOf(ids, id)) \in 1..Len(rows)
              /\ RowOf(ids, rows, id) \in RowType
<1>1. IndexOf(ids, id) # 0 => IndexOf(ids, id) \in 1..Len(ids) /\ ids[IndexOf(ids, id)] = id
  BY TableFacts, IndexOfFacts
<1>2. \A i \in 1..Len(ids) : IndexOf(ids, ids[i]) = i
  BY TableFacts
<1>3. DOMAIN ids = 1..Len(ids) /\ 0 \notin 1..Len(ids)
  BY TableFacts
<1>4. id \in Known(ids, rows) <=>
        IndexOf(ids, id) # 0 /\ RowAt(rows, IndexOf(ids, id)) # 0
  BY <1>1, <1>2, <1>3 DEF Known, Complete
<1>5. \A i : RowAt(rows, i) # 0 => RowAt(rows, i) \in 1..Len(rows)
  BY TableFacts, RowAtFacts
<1>6. QED
  BY <1>1, <1>4, <1>5, TableFacts DEF RowOf

\* add_subject_id, add_object_id: the new id has no row yet.
LEMMA AddIdFacts ==
  ASSUME NEW ids, NEW rows, TableOK(ids, rows), NEW id
  PROVE  LET new == AddId(ids, id)
         IN  /\ TableOK(new, rows)
             /\ \A x : x \in Known(new, rows) <=> x \in Known(ids, rows)
             /\ \A x \in Known(ids, rows) : RowOf(new, rows, x) = RowOf(ids, rows, x)
             /\ DOMAIN new = DOMAIN ids \cup {IndexOf(new, id)}
             /\ Complete(ids, rows) \subseteq Complete(new, rows)
             /\ IndexOf(new, id) \in 1..Len(new)
             /\ \A x : x # id \/ IndexOf(ids, id) # 0 => IndexOf(new, x) = IndexOf(ids, x)
             /\ \A i \in 1..Len(new) : new[i] = id \/ (i \in 1..Len(ids) /\ new[i] = ids[i])
<1> DEFINE new == AddId(ids, id)
           n == Len(ids)
<1>1. IsSeq(ids) /\ n \in Nat /\ DOMAIN ids = 1..n
  BY TableFacts
<1>2. CASE IndexOf(ids, id) # 0
  <2>1. new = ids
    BY <1>2 DEF AddId
  <2>2. IndexOf(ids, id) \in 1..n
    BY <1>1, <1>2, IndexOfFacts
  <2>3. QED
    BY <1>1, <2>1, <2>2
<1>3. CASE IndexOf(ids, id) = 0
  <2>1. /\ IsSeq(new) /\ Len(new) = n + 1 /\ DOMAIN new = 1..(n + 1)
        /\ \A i \in 1..n : new[i] = ids[i]
        /\ new[n + 1] = id
    BY <1>1, <1>3, AppendFacts DEF AddId
  <2>2. \A i \in 1..n : ids[i] # id
    BY <1>1, <1>3, IndexOfFacts
  <2> HIDE DEF new
  <2>3. TableOK(new, rows)
    <3>1. \A i, j \in 1..(n + 1) : new[i] = new[j] => i = j
      <4>1. \A i \in 1..(n + 1) : i \in 1..n \/ i = n + 1
        BY <1>1
      <4>2. QED
        BY <2>1, <2>2, <4>1 DEF TableOK
    <3>2. \A i \in 1..n : i \in 1..(n + 1)
      BY <1>1
    <3>3. QED
      BY <2>1, <3>1, <3>2 DEF TableOK
  <2>4. IndexOf(new, id) = n + 1
    BY <1>1, <2>1, <2>3, TableFacts
  <2>5. ASSUME NEW x, x # id
        PROVE  IndexOf(new, x) = IndexOf(ids, x)
    <3>1. CASE IndexOf(ids, x) # 0
      <4>1. IndexOf(ids, x) \in 1..n /\ ids[IndexOf(ids, x)] = x
        BY <1>1, <3>1, IndexOfFacts
      <4>2. IndexOf(ids, x) \in 1..(n + 1) /\ new[IndexOf(ids, x)] = x
        BY <1>1, <2>1, <4>1
      <4>3. QED
        BY <2>1, <2>3, <4>2, TableFacts
    <3>2. CASE IndexOf(ids, x) = 0
      <4>1. \A i \in 1..n : ids[i] # x
        BY <1>1, <3>2, IndexOfFacts
      <4>2. \A i \in 1..(n + 1) : new[i] # x
        <5>1. \A i \in 1..(n + 1) : i \in 1..n \/ i = n + 1
          BY <1>1
        <5>2. QED
          BY <2>1, <2>5, <4>1, <5>1
      <4>3. IndexOf(new, x) # 0 => new[IndexOf(new, x)] = x /\ IndexOf(new, x) \in 1..(n + 1)
        BY <1>1, <2>1, IndexOfFacts
      <4>4. QED
        BY <3>2, <4>2, <4>3
    <3>3. QED
      BY <3>1, <3>2
  <2>6. RowAt(rows, n + 1) = 0
    <3>1. IsSeq(rows)
      BY TableFacts
    <3>2. \A k \in 1..Len(rows) : rows[k].index # n + 1
      BY <1>1 DEF TableOK
    <3>3. RowAt(rows, n + 1) # 0 => /\ rows[RowAt(rows, n + 1)].index = n + 1
                                    /\ RowAt(rows, n + 1) \in 1..Len(rows)
      BY <3>1, RowAtFacts
    <3>4. QED
      BY <3>2, <3>3
  <2>7. Known(new, rows) = Known(ids, rows)
    <3>1. ASSUME NEW x
          PROVE  x \in Known(new, rows) <=> x \in Known(ids, rows)
      <4>1. CASE x = id
        BY <1>3, <2>3, <2>4, <2>6, <4>1, KnownFacts
      <4>2. CASE x # id
        BY <2>3, <2>5, <4>2, KnownFacts
      <4>3. QED
        BY <4>1, <4>2
    <3>2. QED
      BY <3>1
  <2>8. \A x \in Known(ids, rows) : RowOf(new, rows, x) = RowOf(ids, rows, x)
    <3>1. id \notin Known(ids, rows)
      BY <1>3, KnownFacts
    <3>2. QED
      BY <2>5, <3>1 DEF RowOf
  <2>9. Complete(ids, rows) \subseteq Complete(new, rows)
    BY <1>1, <2>1 DEF Complete
  <2>10. \A i \in 1..(n + 1) : new[i] = id \/ (i \in 1..n /\ new[i] = ids[i])
    BY <1>1, <2>1
  <2>11. 1..(n + 1) = 1..n \cup {n + 1} /\ n + 1 \in 1..(n + 1)
    BY <1>1
  <2>12. QED
    BY <1>1, <1>3, <2>1, <2>3, <2>4, <2>5, <2>7, <2>8, <2>9, <2>10, <2>11 DEF new
<1>4. QED
  BY <1>2, <1>3

LEMMA AddIdOther ==
  ASSUME NEW ids, NEW rows, TableOK(ids, rows), NEW id, NEW x, x # id
  PROVE  IndexOf(AddId(ids, id), x) = IndexOf(ids, x)
<1>1. \A y : y # id \/ IndexOf(ids, id) # 0 => IndexOf(AddId(ids, id), y) = IndexOf(ids, y)
  BY AddIdFacts
<1>2. QED
  BY <1>1

\* add_subject, add_object: a row for an id that has none.
LEMMA AddAtFacts ==
  ASSUME NEW ids, NEW rows, TableOK(ids, rows),
         NEW i, i \in DOMAIN ids, NEW row \in RowType
  PROVE  LET new == AddAt(rows, i, row)
         IN  /\ TableOK(ids, new)
             /\ Known(ids, new) = Known(ids, rows) \cup {ids[i]}
             /\ \A x \in Known(ids, rows) : RowOf(ids, new, x) = RowOf(ids, rows, x)
             /\ ids[i] \notin Known(ids, rows) => RowOf(ids, new, ids[i]) = row
             /\ Complete(ids, new) = Complete(ids, rows) \cup {i}
<1> DEFINE new == AddAt(rows, i, row)
           n == Len(rows)
           added == [index |-> i, owner |-> row.owner,
                     readers |-> row.readers, writers |-> row.writers]
<1>1. /\ IsSeq(ids) /\ IsSeq(rows) /\ n \in Nat /\ DOMAIN rows = 1..n
      /\ Len(ids) \in Nat /\ DOMAIN ids = 1..Len(ids) /\ i \in 1..Len(ids)
  BY TableFacts
<1>0. IndexOf(ids, ids[i]) = i
  BY <1>1, TableFacts
<1>2. CASE RowAt(rows, i) # 0
  <2>1. new = rows
    BY <1>2 DEF AddAt
  <2>2. ids[i] \in Known(ids, rows)
    BY <1>0, <1>2, KnownFacts
  <2>3. i \in Complete(ids, rows)
    BY <1>1, <1>2 DEF Complete
  <2>4. QED
    BY <2>1, <2>2, <2>3
<1>3. CASE RowAt(rows, i) = 0
  <2>1. added \in Rows /\ Fields(added) = row
    BY <1>1 DEF RowType, Rows, Fields
  <2>2. /\ new \in Seq(Rows) /\ Len(new) = n + 1 /\ DOMAIN new = 1..(n + 1)
        /\ \A k \in 1..n : new[k] = rows[k]
        /\ new[n + 1] = added
    <3>1. new = Append(rows, added)
      BY <1>3 DEF AddAt
    <3>2. rows \in Seq(Rows)
      BY DEF TableOK
    <3> HIDE DEF new, added
    <3>3. QED
      BY <1>1, <2>1, <3>1, <3>2, AppendFacts, AppendProperties
  <2>3. \A k \in 1..n : rows[k].index # i
    BY <1>1, <1>3, RowAtFacts
  <2>4. added.index = i
    OBVIOUS
  <2> HIDE DEF new, added
  <2>5. \A k \in 1..(n + 1) : k \in 1..n \/ k = n + 1
    BY <1>1
  <2>6. TableOK(ids, new)
    <3>1. \A k \in 1..(n + 1) : new[k].index \in 1..Len(ids)
      BY <2>2, <2>4, <2>5 DEF TableOK
    <3>2. \A k, l \in 1..(n + 1) : new[k].index = new[l].index => k = l
      BY <2>2, <2>3, <2>4, <2>5 DEF TableOK
    <3>3. QED
      BY <2>2, <3>1, <3>2 DEF TableOK
  <2>7. RowAt(new, i) = n + 1
    <3>1. n + 1 \in 1..(n + 1) /\ new[n + 1].index = i
      BY <1>1, <2>2, <2>4
    <3>2. QED
      BY <2>2, <2>6, <3>1, TableFacts
  <2>8. ASSUME NEW x \in 1..Len(ids), x # i
        PROVE  RowAt(new, x) = RowAt(rows, x) /\ (RowAt(rows, x) # 0 => RowAt(rows, x) \in 1..n)
    <3>1. CASE RowAt(rows, x) # 0
      <4>1. RowAt(rows, x) \in 1..n /\ rows[RowAt(rows, x)].index = x
        BY <1>1, <3>1, RowAtFacts
      <4>2. RowAt(rows, x) \in 1..(n + 1) /\ new[RowAt(rows, x)].index = x
        BY <1>1, <2>2, <4>1
      <4>3. QED
        BY <2>2, <2>6, <4>1, <4>2, TableFacts
    <3>2. CASE RowAt(rows, x) = 0
      <4>1. \A k \in 1..n : rows[k].index # x
        BY <1>1, <3>2, RowAtFacts
      <4>2. \A k \in 1..(n + 1) : new[k].index # x
        BY <2>2, <2>4, <2>5, <2>8, <4>1
      <4>3. IsSeq(new)
        BY <2>6, TableFacts
      <4>4. RowAt(new, x) # 0 => RowAt(new, x) \in 1..(n + 1) /\ new[RowAt(new, x)].index = x
        BY <2>2, <4>3, RowAtFacts
      <4>5. QED
        BY <3>2, <4>2, <4>4
    <3>3. QED
      BY <3>1, <3>2
  <2>9. Complete(ids, new) = Complete(ids, rows) \cup {i}
    <3>1. n + 1 # 0
      BY <1>1
    <3>2. QED
      BY <1>1, <2>7, <2>8, <3>1 DEF Complete
  <2>10. Known(ids, new) = Known(ids, rows) \cup {ids[i]}
    BY <2>9 DEF Known
  <2>11. i \notin Complete(ids, rows)
    BY <1>3 DEF Complete
  <2>12. ASSUME NEW x \in Known(ids, rows)
         PROVE  RowOf(ids, new, x) = RowOf(ids, rows, x)
    <3>1. IndexOf(ids, x) \in 1..Len(ids) /\ RowAt(rows, IndexOf(ids, x)) \in 1..n
      BY KnownFacts
    <3>2. IndexOf(ids, x) # i
      BY <1>0, <1>3, <3>1
    <3>3. RowAt(new, IndexOf(ids, x)) = RowAt(rows, IndexOf(ids, x))
      BY <2>8, <3>1, <3>2
    <3>4. QED
      BY <2>2, <3>1, <3>3 DEF RowOf
  <2>13. RowOf(ids, new, ids[i]) = row
    BY <1>0, <2>1, <2>2, <2>7 DEF RowOf
  <2>14. QED
    BY <2>6, <2>9, <2>10, <2>12, <2>13 DEF new
<1>4. QED
  BY <1>2, <1>3

\* update_subject_label: the label of one row changes.
Relabel(rows, k, row) ==
  [rows EXCEPT ![k].readers = row.readers, ![k].writers = row.writers]

LEMMA UpdateFacts ==
  ASSUME NEW ids, NEW rows, TableOK(ids, rows), NEW id \in Known(ids, rows),
         NEW row \in RowType
  PROVE  LET new == Relabel(rows, RowAt(rows, IndexOf(ids, id)), row)
         IN  /\ TableOK(ids, new)
             /\ Known(ids, new) = Known(ids, rows)
             /\ Complete(ids, new) = Complete(ids, rows)
             /\ \A x \in Known(ids, rows) \ {id} : RowOf(ids, new, x) = RowOf(ids, rows, x)
             /\ row.owner = RowOf(ids, rows, id).owner => RowOf(ids, new, id) = row
<1> DEFINE i == IndexOf(ids, id)
           k == RowAt(rows, i)
           new == [rows EXCEPT ![k].readers = row.readers, ![k].writers = row.writers]
           n == Len(rows)
<1>1. /\ IsSeq(ids) /\ IsSeq(rows) /\ n \in Nat /\ DOMAIN rows = 1..n
      /\ Len(ids) \in Nat /\ DOMAIN ids = 1..Len(ids)
      /\ rows \in Seq(Rows)
  BY TableFacts DEF TableOK
<1>2. i \in 1..Len(ids) /\ k \in 1..n /\ rows[k].index = i /\ ids[i] = id
  <2>1. i \in 1..Len(ids) /\ k \in 1..n
    BY KnownFacts
  <2>2. QED
    BY <1>1, <2>1, RowAtFacts, IndexOfFacts
<1>3. \A l \in 1..n : rows[l] \in Rows
  BY <1>1, ElementOfSeq
<1>4. new[k] = [rows[k] EXCEPT !.readers = row.readers, !.writers = row.writers]
  <2>1. k \in DOMAIN rows
    BY <1>1, <1>2
  <2> HIDE DEF k
  <2>2. QED
    BY <2>1
<1>5. /\ DOMAIN new = 1..n
      /\ \A l \in 1..n : l # k => new[l] = rows[l]
  <2> HIDE DEF k
  <2>1. QED
    BY <1>1
<1>6. \A l \in 1..n : new[l] \in Rows /\ new[l].index = rows[l].index
  <2>1. new[k] \in Rows /\ new[k].index = rows[k].index
    <3> HIDE DEF new, k
    <3>1. rows[k] \in Rows
      BY <1>2, <1>3
    <3>2. QED
      BY <1>4, <3>1 DEF Rows, RowType
  <2> HIDE DEF new, k
  <2>2. QED
    BY <1>3, <1>5, <2>1
<1>7. new \in Seq(Rows) /\ Len(new) = n
  <2> HIDE DEF new, k
  <2>1. new = [l \in 1..n |-> new[l]]
    <3>1. new \in [1..n -> Rows]
      <4>1. new = [l \in DOMAIN rows |-> new[l]]
        BY DEF new
      <4>2. QED
        BY <1>1, <1>6, <4>1
    <3>2. QED
      BY <3>1
  <2>2. QED
    BY <1>1, <1>6, <2>1, IsASeq
<1>8. TableOK(ids, new)
  <2> HIDE DEF new, k
  <2>1. QED
    BY <1>6, <1>7 DEF TableOK
<1>9. IsSeq(new)
  BY <1>8, TableFacts
<1>10. ASSUME NEW x
       PROVE  RowAt(new, x) = RowAt(rows, x)
  <2> HIDE DEF new, k
  <2>1. /\ RowAt(rows, x) \in 0..n
        /\ RowAt(rows, x) = 0 => \A l \in 1..n : rows[l].index # x
        /\ RowAt(rows, x) # 0 => rows[RowAt(rows, x)].index = x
    BY <1>1, RowAtFacts
  <2>2. /\ RowAt(new, x) \in 0..n
        /\ RowAt(new, x) = 0 => \A l \in 1..n : new[l].index # x
        /\ RowAt(new, x) # 0 => new[RowAt(new, x)].index = x
    BY <1>7, <1>9, RowAtFacts
  <2>3. \A l \in 0..n : l # 0 => l \in 1..n
    BY <1>1
  <2>4. \A l, m \in 1..n : rows[l].index = rows[m].index => l = m
    BY DEF TableOK
  <2>5. QED
    BY <1>6, <2>1, <2>2, <2>3, <2>4
<1>11. Complete(ids, new) = Complete(ids, rows) /\ Known(ids, new) = Known(ids, rows)
  BY <1>10 DEF Complete, Known
<1>12. ASSUME NEW x \in Known(ids, rows) \ {id}
       PROVE  RowOf(ids, new, x) = RowOf(ids, rows, x)
  <2>1. IndexOf(ids, x) \in 1..Len(ids) /\ RowAt(rows, IndexOf(ids, x)) \in 1..n
    BY KnownFacts
  <2>2. ids[IndexOf(ids, x)] = x
    BY <1>1, <2>1, IndexOfFacts
  <2>3. rows[RowAt(rows, IndexOf(ids, x))].index = IndexOf(ids, x)
    BY <1>1, <2>1, RowAtFacts
  <2>4. RowAt(rows, IndexOf(ids, x)) # k
    BY <1>2, <2>2, <2>3
  <2> HIDE DEF new, k
  <2>5. QED
    BY <1>5, <1>10, <2>1, <2>4 DEF RowOf
<1>13. ASSUME row.owner = RowOf(ids, rows, id).owner
       PROVE  RowOf(ids, new, id) = row
  <2>1. RowOf(ids, new, id) = Fields(new[k])
    BY <1>10 DEF RowOf
  <2>2. rows[k].owner = row.owner
    BY <1>13 DEF RowOf, Fields
  <2>3. rows[k] \in Rows
    BY <1>2, <1>3
  <2> HIDE DEF new, k
  <2>4. QED
    BY <1>4, <2>1, <2>2, <2>3 DEF Fields, Rows, RowType
<1>14. QED
  BY <1>8, <1>11, <1>12, <1>13 DEF Relabel

-----------------------------------------------------------------------------
(* The four arrays as one value, and what the server does to it *)

DB == [sids |-> all_subject_ids, subs |-> all_subjects,
       oids |-> all_object_ids, objs |-> all_objects]

SubjectIdType == {Host} \X Users \X Pids
ObjectIdType == {Host} \X Files

DBOK(db) ==
  /\ TableOK(db.sids, db.subs) /\ \A i \in 1..Len(db.sids) : db.sids[i] \in SubjectIdType
  /\ TableOK(db.oids, db.objs) /\ \A i \in 1..Len(db.oids) : db.oids[i] \in ObjectIdType

\* The id of a subject, (uid, pid), and of an object.
SId(s) == <<Host, s[1], s[2]>>
OId(f) == <<Host, f>>

\* What SubjectTable and ObjectTable are in db.
SView(db) ==
  [s \in {<<db.sids[i][2], db.sids[i][3]>> : i \in Complete(db.sids, db.subs)} |->
     RowOf(db.sids, db.subs, SId(s))]
OView(db) ==
  [f \in {db.oids[i][2] : i \in Complete(db.oids, db.objs)} |->
     RowOf(db.oids, db.objs, OId(f))]

SameViews(db, new) == SView(new) = SView(db) /\ OView(new) = OView(db)

\* Every id has its row.
SubjectsWhole(db) == DOMAIN db.sids \subseteq Complete(db.sids, db.subs)
ObjectsWhole(db) == DOMAIN db.oids \subseteq Complete(db.oids, db.objs)
Whole(db) == SubjectsWhole(db) /\ ObjectsWhole(db)

WithSubjectIds(db, ids) ==
  [sids |-> ids, subs |-> db.subs, oids |-> db.oids, objs |-> db.objs]
WithSubjects(db, rows) ==
  [sids |-> db.sids, subs |-> rows, oids |-> db.oids, objs |-> db.objs]
WithObjectIds(db, ids) ==
  [sids |-> db.sids, subs |-> db.subs, oids |-> ids, objs |-> db.objs]
WithObjects(db, rows) ==
  [sids |-> db.sids, subs |-> db.subs, oids |-> db.oids, objs |-> rows]

(***************************************************************************)
(* The server answers val to the request, and db becomes new.              *)
(***************************************************************************)
Serving(op, args, val, db, new) ==
  \/ op = "IS_RWFM_ENABLED" /\ new = db
  \/ op = "GET_HOST_INDEX" /\ new = db /\ val = Host
  \/ op = "GET_USER_ID_INDEX" /\ new = db /\ val = IF args \in Users THEN args ELSE NoUser
  \/ op = "GET_NUMBER_OF_USERS" /\ new = db /\ val = Users
  \/ op \in {"GET_GROUP_ID_INDEX", "GET_MEMBERS_FROM_GROUP_ID"} /\ new = db /\ val = args
  \/ op = "GET_SUBJECT_ID_INDEX" /\ new = db /\ val = IndexOf(db.sids, args)
  \/ op = "GET_OBJECT_ID_INDEX" /\ new = db /\ val = IndexOf(db.oids, args)
  \/ op = "COPY_SUBJECT_FDS" /\ new = db
  \/ /\ op = "ADD_SUBJECT_ID"
     /\ new = WithSubjectIds(db, AddId(db.sids, args)) /\ val = IndexOf(new.sids, args)
  \/ /\ op = "ADD_SUBJECT"
     /\ new = WithSubjects(db, AddAt(db.subs, args[1], args[2]))
  \/ /\ op = "ADD_OBJECT_ID"
     /\ new = WithObjectIds(db, AddId(db.oids, args)) /\ val = IndexOf(new.oids, args)
  \/ /\ op = "ADD_OBJECT"
     /\ new = WithObjects(db, AddAt(db.objs, args[1], args[2]))
  \/ /\ op = "UPDATE_SUBJECT_LABEL"
     /\ new = WithSubjects(db, Relabel(db.subs, RowAt(db.subs, args[1]), args[2]))
  \/ /\ op = "GET_SUBJECT" /\ new = db
     /\ RowAt(db.subs, args) # 0 /\ val = Fields(db.subs[RowAt(db.subs, args)])
  \/ /\ op = "GET_OBJECT" /\ new = db
     /\ RowAt(db.objs, args) # 0 /\ val = Fields(db.objs[RowAt(db.objs, args)])

Stopping(op, args, db) ==
  \/ op = "GET_SUBJECT" /\ RowAt(db.subs, args) = 0
  \/ op = "GET_OBJECT" /\ RowAt(db.objs, args) = 0

LEMMA ServeCases ==
  ASSUME Serve
  PROVE  LET r == Head(requests)
         IN  /\ requests # <<>> /\ requests' = Tail(requests)
             /\ UNCHANGED <<semaphore, clients>>
             /\ \/ /\ Stopping(r.op, r.args, DB) /\ DB' = DB
                   /\ server' = "stopped" /\ responses' = <<>>
                \/ \E val : /\ Serving(r.op, r.args, val, DB, DB')
                            /\ UNCHANGED server
                            /\ responses' = Append(responses,
                                              [pid |-> r.pid, op |-> r.op, val |-> val])
<1> DEFINE r == Head(requests)
<1>1. requests # <<>>
  BY DEF Serve
<1>2. /\ DB.sids = all_subject_ids /\ DB.subs = all_subjects
      /\ DB.oids = all_object_ids /\ DB.objs = all_objects
      /\ DB'.sids = all_subject_ids' /\ DB'.subs = all_subjects'
      /\ DB'.oids = all_object_ids' /\ DB'.objs = all_objects'
  BY DEF DB
<1>3. UNCHANGED tables => DB' = DB
  BY DEF DB, tables
<1>4. CASE LookUp(r)
  <2>1. Serving(r.op, r.args, Looked(r), DB, DB')
    <3>1. r.op \in {"IS_RWFM_ENABLED", "GET_HOST_INDEX", "GET_USER_ID_INDEX"}
            => Serving(r.op, r.args, Looked(r), DB, DB')
      BY <1>3, <1>4 DEF LookUp, Looked, Serving
    <3>2. r.op \in {"GET_NUMBER_OF_USERS", "GET_GROUP_ID_INDEX",
                    "GET_MEMBERS_FROM_GROUP_ID", "COPY_SUBJECT_FDS"}
            => Serving(r.op, r.args, Looked(r), DB, DB')
      BY <1>3, <1>4 DEF LookUp, Looked, Serving
    <3>3. r.op \in {"GET_SUBJECT_ID_INDEX", "GET_OBJECT_ID_INDEX"}
            => Serving(r.op, r.args, Looked(r), DB, DB')
      BY <1>2, <1>3, <1>4 DEF LookUp, Looked, Serving
    <3>4. QED
      BY <1>4, <3>1, <3>2, <3>3 DEF LookUp
  <2>2. QED
    BY <1>1, <1>4, <2>1 DEF LookUp, Respond
<1>5. CASE AddSubjectId(r)
  <2>1. Serving(r.op, r.args, IndexOf(all_subject_ids', r.args), DB, DB')
    <3>1. DB' = WithSubjectIds(DB, AddId(DB.sids, r.args))
      BY <1>5 DEF AddSubjectId, DB, WithSubjectIds
    <3>2. QED
      BY <1>2, <1>5, <3>1 DEF AddSubjectId, Serving
  <2>2. QED
    BY <1>1, <1>5, <2>1 DEF AddSubjectId, Respond
<1>6. CASE AddSubject(r)
  <2>1. Serving(r.op, r.args, RowAt(all_subjects', r.args[1]), DB, DB')
    <3>1. DB' = WithSubjects(DB, AddAt(DB.subs, r.args[1], r.args[2]))
      BY <1>6 DEF AddSubject, DB, WithSubjects
    <3>2. QED
      BY <1>6, <3>1 DEF AddSubject, Serving
  <2>2. QED
    BY <1>1, <1>6, <2>1 DEF AddSubject, Respond
<1>7. CASE AddObjectId(r)
  <2>1. Serving(r.op, r.args, IndexOf(all_object_ids', r.args), DB, DB')
    <3>1. DB' = WithObjectIds(DB, AddId(DB.oids, r.args))
      BY <1>7 DEF AddObjectId, DB, WithObjectIds
    <3>2. QED
      BY <1>2, <1>7, <3>1 DEF AddObjectId, Serving
  <2>2. QED
    BY <1>1, <1>7, <2>1 DEF AddObjectId, Respond
<1>8. CASE AddObject(r)
  <2>1. Serving(r.op, r.args, RowAt(all_objects', r.args[1]), DB, DB')
    <3>1. DB' = WithObjects(DB, AddAt(DB.objs, r.args[1], r.args[2]))
      BY <1>8 DEF AddObject, DB, WithObjects
    <3>2. QED
      BY <1>8, <3>1 DEF AddObject, Serving
  <2>2. QED
    BY <1>1, <1>8, <2>1 DEF AddObject, Respond
<1>9. CASE UpdateSubjectLabel(r)
  <2>1. Serving(r.op, r.args, 1, DB, DB')
    <3>1. DB' = WithSubjects(DB, Relabel(DB.subs, RowAt(DB.subs, r.args[1]), r.args[2]))
      BY <1>9 DEF UpdateSubjectLabel, DB, WithSubjects, Relabel
    <3>2. QED
      BY <1>9, <3>1 DEF UpdateSubjectLabel, Serving
  <2>2. QED
    BY <1>1, <1>9, <2>1 DEF UpdateSubjectLabel, Respond
<1>10. CASE Fetch(r)
  <2> DEFINE rows == IF r.op = "GET_SUBJECT" THEN all_subjects ELSE all_objects
             i == RowAt(rows, r.args)
  <2>1. CASE i # 0
    <3>1. Respond(r, Fields(rows[i])) /\ UNCHANGED tables
      BY <1>10, <2>1 DEF Fetch
    <3>2. Serving(r.op, r.args, Fields(rows[i]), DB, DB')
      BY <1>2, <1>3, <1>10, <2>1, <3>1 DEF Fetch, Serving
    <3>3. QED
      BY <1>1, <3>1, <3>2 DEF Respond
  <2>2. CASE i = 0
    <3>1. /\ server' = "stopped" /\ responses' = <<>> /\ requests' = Tail(requests)
          /\ UNCHANGED <<semaphore, clients>> /\ UNCHANGED tables
      BY <1>10, <2>2 DEF Fetch
    <3>2. Stopping(r.op, r.args, DB)
      BY <1>2, <1>10, <2>2 DEF Fetch, Stopping
    <3>3. QED
      BY <1>1, <1>3, <3>1, <3>2
  <2>3. QED
    BY <2>1, <2>2
<1>11. QED
  BY <1>4, <1>5, <1>6, <1>7, <1>8, <1>9, <1>10 DEF Serve

LEMMA IdFacts ==
  /\ \A s, t \in Users \X Pids : SId(s) = SId(t) => s = t
  /\ \A s \in Users \X Pids : SId(s) \in SubjectIdType /\ s = <<SId(s)[2], SId(s)[3]>>
  /\ \A id \in SubjectIdType : <<id[2], id[3]>> \in Users \X Pids /\ SId(<<id[2], id[3]>>) = id
  /\ \A f, g : OId(f) = OId(g) => f = g
  /\ \A f \in Files : OId(f) \in ObjectIdType /\ f = OId(f)[2]
  /\ \A id \in ObjectIdType : id[2] \in Files /\ OId(id[2]) = id
BY DEF SId, OId, SubjectIdType, ObjectIdType

LEMMA ViewsAreFunctions ==
  ASSUME NEW db
  PROVE  /\ SView(db) = [s \in DOMAIN SView(db) |-> SView(db)[s]]
         /\ OView(db) = [f \in DOMAIN OView(db) |-> OView(db)[f]]
BY DEF SView, OView

\* The views, looked at row by row.
LEMMA ViewFacts ==
  ASSUME NEW db, DBOK(db)
  PROVE  /\ DOMAIN SView(db) = {t \in Users \X Pids : SId(t) \in Known(db.sids, db.subs)}
         /\ \A s \in DOMAIN SView(db) : /\ SView(db)[s] = RowOf(db.sids, db.subs, SId(s))
                                        /\ SView(db)[s] \in RowType
         /\ DOMAIN OView(db) = {x \in Files : OId(x) \in Known(db.oids, db.objs)}
         /\ \A f \in DOMAIN OView(db) : /\ OView(db)[f] = RowOf(db.oids, db.objs, OId(f))
                                        /\ OView(db)[f] \in RowType
<1>1. /\ \A i \in Complete(db.sids, db.subs) : db.sids[i] \in SubjectIdType
      /\ \A i \in Complete(db.oids, db.objs) : db.oids[i] \in ObjectIdType
  <2>1. DOMAIN db.sids = 1..Len(db.sids) /\ DOMAIN db.oids = 1..Len(db.oids)
    BY TableFacts DEF DBOK
  <2>2. QED
    BY <2>1 DEF Complete, DBOK
<1>2. DOMAIN SView(db) = {t \in Users \X Pids : SId(t) \in Known(db.sids, db.subs)}
  <2>1. DOMAIN SView(db) =
          {<<db.sids[i][2], db.sids[i][3]>> : i \in Complete(db.sids, db.subs)}
    BY DEF SView
  <2>2. ASSUME NEW i \in Complete(db.sids, db.subs)
        PROVE  /\ <<db.sids[i][2], db.sids[i][3]>> \in Users \X Pids
               /\ SId(<<db.sids[i][2], db.sids[i][3]>>) = db.sids[i]
    BY <1>1, IdFacts
  <2>3. ASSUME NEW s \in Users \X Pids, SId(s) \in Known(db.sids, db.subs)
        PROVE  \E i \in Complete(db.sids, db.subs) : s = <<db.sids[i][2], db.sids[i][3]>>
    <3>1. PICK i \in Complete(db.sids, db.subs) : SId(s) = db.sids[i]
      BY <2>3 DEF Known
    <3>2. s = <<db.sids[i][2], db.sids[i][3]>>
      BY <3>1, <2>2, IdFacts
    <3>3. QED
      BY <3>2
  <2>4. QED
    BY <2>1, <2>2, <2>3 DEF Known
<1>3. DOMAIN OView(db) = {x \in Files : OId(x) \in Known(db.oids, db.objs)}
  <2>1. DOMAIN OView(db) = {db.oids[i][2] : i \in Complete(db.oids, db.objs)}
    BY DEF OView
  <2>2. ASSUME NEW i \in Complete(db.oids, db.objs)
        PROVE  db.oids[i][2] \in Files /\ OId(db.oids[i][2]) = db.oids[i]
    BY <1>1, IdFacts
  <2>3. ASSUME NEW f \in Files, OId(f) \in Known(db.oids, db.objs)
        PROVE  \E i \in Complete(db.oids, db.objs) : f = db.oids[i][2]
    <3>1. PICK i \in Complete(db.oids, db.objs) : OId(f) = db.oids[i]
      BY <2>3 DEF Known
    <3>2. f = db.oids[i][2]
      BY <3>1, <2>2, IdFacts
    <3>3. QED
      BY <3>2
  <2>4. QED
    BY <2>1, <2>2, <2>3 DEF Known
<1>4. \A t \in DOMAIN SView(db) : SView(db)[t] = RowOf(db.sids, db.subs, SId(t))
  BY DEF SView
<1>5. \A f \in DOMAIN OView(db) : OView(db)[f] = RowOf(db.oids, db.objs, OId(f))
  BY DEF OView
<1>6. /\ \A x \in Known(db.sids, db.subs) : RowOf(db.sids, db.subs, x) \in RowType
      /\ \A x \in Known(db.oids, db.objs) : RowOf(db.oids, db.objs, x) \in RowType
  BY KnownFacts DEF DBOK
<1>7. QED
  BY <1>2, <1>3, <1>4, <1>5, <1>6

\* An id without a row is not seen.
LEMMA AddSubjectIdView ==
  ASSUME NEW db, DBOK(db), NEW id \in SubjectIdType,
         NEW new, new = WithSubjectIds(db, AddId(db.sids, id))
  PROVE  DBOK(new) /\ SameViews(db, new)
<1> DEFINE ids == AddId(db.sids, id)
<1>1. new.sids = ids /\ new.subs = db.subs /\ new.oids = db.oids /\ new.objs = db.objs
  BY DEF WithSubjectIds
<1>2. /\ TableOK(ids, db.subs) /\ Known(ids, db.subs) = Known(db.sids, db.subs)
      /\ \A x \in Known(db.sids, db.subs) : RowOf(ids, db.subs, x) = RowOf(db.sids, db.subs, x)
      /\ \A i \in 1..Len(ids) : ids[i] = id \/ (i \in 1..Len(db.sids) /\ ids[i] = db.sids[i])
  <2>1. TableOK(db.sids, db.subs)
    BY DEF DBOK
  <2>2. TableOK(ids, db.subs)
    BY <2>1, AddIdFacts
  <2>3. \A x \in Known(db.sids, db.subs) : RowOf(ids, db.subs, x) = RowOf(db.sids, db.subs, x)
    BY ZenonT(40), <2>1, AddIdFacts
  <2>4. \A i \in 1..Len(ids) : ids[i] = id \/ (i \in 1..Len(db.sids) /\ ids[i] = db.sids[i])
    BY <2>1, AddIdFacts
  <2>5. \A x : x \in Known(ids, db.subs) <=> x \in Known(db.sids, db.subs)
    BY <2>1, AddIdFacts
  <2> HIDE DEF ids
  <2>6. Known(ids, db.subs) = Known(db.sids, db.subs)
    BY <2>5 DEF Known
  <2>7. QED
    BY <2>2, <2>3, <2>4, <2>6
<1> HIDE DEF ids
<1>3. \A i \in 1..Len(ids) : ids[i] \in SubjectIdType
  BY <1>2 DEF DBOK
<1>4. DBOK(new)
  BY <1>1, <1>2, <1>3 DEF DBOK
<1>v. /\ DOMAIN SView(db) = {t \in Users \X Pids : SId(t) \in Known(db.sids, db.subs)}
      /\ \A t \in DOMAIN SView(db) : SView(db)[t] = RowOf(db.sids, db.subs, SId(t))
  BY ViewFacts
<1>w. /\ DOMAIN SView(new) = {t \in Users \X Pids : SId(t) \in Known(ids, db.subs)}
      /\ \A t \in DOMAIN SView(new) : SView(new)[t] = RowOf(ids, db.subs, SId(t))
  BY <1>1, <1>4, ViewFacts
<1>5. DOMAIN SView(new) = DOMAIN SView(db)
  BY <1>2, <1>v, <1>w
<1>6. \A s \in DOMAIN SView(db) : SView(new)[s] = SView(db)[s]
  BY <1>2, <1>5, <1>v, <1>w
<1>7. SView(new) = SView(db)
  BY <1>5, <1>6, ViewsAreFunctions
<1>8. OView(new) = OView(db)
  BY <1>1 DEF OView
<1>9. QED
  BY <1>4, <1>7, <1>8 DEF SameViews

LEMMA AddObjectIdView ==
  ASSUME NEW db, DBOK(db), NEW id \in ObjectIdType,
         NEW new, new = WithObjectIds(db, AddId(db.oids, id))
  PROVE  DBOK(new) /\ SameViews(db, new)
<1> DEFINE ids == AddId(db.oids, id)
<1>1. new.sids = db.sids /\ new.subs = db.subs /\ new.oids = ids /\ new.objs = db.objs
  BY DEF WithObjectIds
<1>2. /\ TableOK(ids, db.objs) /\ Known(ids, db.objs) = Known(db.oids, db.objs)
      /\ \A x \in Known(db.oids, db.objs) : RowOf(ids, db.objs, x) = RowOf(db.oids, db.objs, x)
      /\ \A i \in 1..Len(ids) : ids[i] = id \/ (i \in 1..Len(db.oids) /\ ids[i] = db.oids[i])
  <2>1. TableOK(db.oids, db.objs)
    BY DEF DBOK
  <2>2. TableOK(ids, db.objs)
    BY <2>1, AddIdFacts
  <2>3. \A x \in Known(db.oids, db.objs) : RowOf(ids, db.objs, x) = RowOf(db.oids, db.objs, x)
    BY ZenonT(40), <2>1, AddIdFacts
  <2>4. \A i \in 1..Len(ids) : ids[i] = id \/ (i \in 1..Len(db.oids) /\ ids[i] = db.oids[i])
    BY <2>1, AddIdFacts
  <2>5. \A x : x \in Known(ids, db.objs) <=> x \in Known(db.oids, db.objs)
    BY <2>1, AddIdFacts
  <2> HIDE DEF ids
  <2>6. Known(ids, db.objs) = Known(db.oids, db.objs)
    BY <2>5 DEF Known
  <2>7. QED
    BY <2>2, <2>3, <2>4, <2>6
<1> HIDE DEF ids
<1>3. \A i \in 1..Len(ids) : ids[i] \in ObjectIdType
  BY <1>2 DEF DBOK
<1>4. DBOK(new)
  BY <1>1, <1>2, <1>3 DEF DBOK
<1>v. /\ DOMAIN OView(db) = {x \in Files : OId(x) \in Known(db.oids, db.objs)}
      /\ \A x \in DOMAIN OView(db) : OView(db)[x] = RowOf(db.oids, db.objs, OId(x))
  BY ViewFacts
<1>w. /\ DOMAIN OView(new) = {x \in Files : OId(x) \in Known(ids, db.objs)}
      /\ \A x \in DOMAIN OView(new) : OView(new)[x] = RowOf(ids, db.objs, OId(x))
  BY <1>1, <1>4, ViewFacts
<1>5. DOMAIN OView(new) = DOMAIN OView(db)
  BY <1>2, <1>v, <1>w
<1>6. \A f \in DOMAIN OView(db) : OView(new)[f] = OView(db)[f]
  BY <1>2, <1>5, <1>v, <1>w
<1>7. OView(new) = OView(db)
  BY <1>5, <1>6, ViewsAreFunctions
<1>8. SView(new) = SView(db)
  BY <1>1 DEF SView
<1>9. QED
  BY <1>4, <1>7, <1>8 DEF SameViews

\* A new row is seen under its id.
LEMMA AddSubjectView ==
  ASSUME NEW db, DBOK(db), NEW s \in Users \X Pids, NEW row \in RowType,
         NEW i, i \in DOMAIN db.sids, db.sids[i] = SId(s),
         NEW new, new = WithSubjects(db, AddAt(db.subs, i, row))
  PROVE  /\ DBOK(new) /\ OView(new) = OView(db)
         /\ SView(new) = RE!AddRow(SView(db), s, row)
         /\ \A k : k \in Complete(new.sids, new.subs) <=>
                  k \in Complete(db.sids, db.subs) \/ k = i
<1> DEFINE rows == AddAt(db.subs, i, row)
<1>1. new.sids = db.sids /\ new.subs = rows /\ new.oids = db.oids /\ new.objs = db.objs
  BY DEF WithSubjects
<1>2. /\ TableOK(db.sids, rows) /\ Known(db.sids, rows) = Known(db.sids, db.subs) \cup {SId(s)}
      /\ \A x \in Known(db.sids, db.subs) :
           RowOf(db.sids, rows, x) = RowOf(db.sids, db.subs, x)
      /\ SId(s) \notin Known(db.sids, db.subs) => RowOf(db.sids, rows, SId(s)) = row
      /\ Complete(db.sids, rows) = Complete(db.sids, db.subs) \cup {i}
  BY AddAtFacts DEF DBOK
<1> HIDE DEF rows
<1>3. DBOK(new)
  BY <1>1, <1>2 DEF DBOK
<1>v. /\ DOMAIN SView(db) = {t \in Users \X Pids : SId(t) \in Known(db.sids, db.subs)}
      /\ \A t \in DOMAIN SView(db) : SView(db)[t] = RowOf(db.sids, db.subs, SId(t))
  BY ViewFacts
<1>w. /\ DOMAIN SView(new) = {t \in Users \X Pids : SId(t) \in Known(db.sids, rows)}
      /\ \A t \in DOMAIN SView(new) : SView(new)[t] = RowOf(db.sids, rows, SId(t))
  BY ZenonT(40), <1>1, <1>3, ViewFacts
<1>4. DOMAIN SView(new) = DOMAIN SView(db) \cup {s}
  BY <1>2, <1>v, <1>w, IdFacts
<1>5. ASSUME NEW t \in DOMAIN SView(new)
      PROVE  SView(new)[t] = IF t \in DOMAIN SView(db) THEN SView(db)[t] ELSE row
  <2>1. SView(new)[t] = RowOf(db.sids, rows, SId(t))
    BY <1>w
  <2>2. CASE t \in DOMAIN SView(db)
    BY <1>2, <1>v, <2>1, <2>2
  <2>3. CASE t \notin DOMAIN SView(db)
    BY <1>2, <1>4, <1>v, <1>w, <2>1, <2>3
  <2>4. QED
    BY <2>2, <2>3
<1>6. SView(new) = RE!AddRow(SView(db), s, row)
  BY <1>4, <1>5, ViewsAreFunctions DEF RE!AddRow
<1>7. OView(new) = OView(db)
  BY <1>1 DEF OView
<1>8. QED
  BY <1>1, <1>2, <1>3, <1>6, <1>7

LEMMA AddObjectView ==
  ASSUME NEW db, DBOK(db), NEW f \in Files, NEW row \in RowType,
         NEW i, i \in DOMAIN db.oids, db.oids[i] = OId(f),
         NEW new, new = WithObjects(db, AddAt(db.objs, i, row))
  PROVE  /\ DBOK(new) /\ SView(new) = SView(db)
         /\ OView(new) = RE!AddRow(OView(db), f, row)
         /\ \A k : k \in Complete(new.oids, new.objs) <=>
                  k \in Complete(db.oids, db.objs) \/ k = i
<1> DEFINE rows == AddAt(db.objs, i, row)
<1>1. new.sids = db.sids /\ new.subs = db.subs /\ new.oids = db.oids /\ new.objs = rows
  BY DEF WithObjects
<1>2. /\ TableOK(db.oids, rows) /\ Known(db.oids, rows) = Known(db.oids, db.objs) \cup {OId(f)}
      /\ \A x \in Known(db.oids, db.objs) :
           RowOf(db.oids, rows, x) = RowOf(db.oids, db.objs, x)
      /\ OId(f) \notin Known(db.oids, db.objs) => RowOf(db.oids, rows, OId(f)) = row
      /\ Complete(db.oids, rows) = Complete(db.oids, db.objs) \cup {i}
  BY AddAtFacts DEF DBOK
<1> HIDE DEF rows
<1>3. DBOK(new)
  BY <1>1, <1>2 DEF DBOK
<1>v. /\ DOMAIN OView(db) = {x \in Files : OId(x) \in Known(db.oids, db.objs)}
      /\ \A x \in DOMAIN OView(db) : OView(db)[x] = RowOf(db.oids, db.objs, OId(x))
  BY ViewFacts
<1>w. /\ DOMAIN OView(new) = {x \in Files : OId(x) \in Known(db.oids, rows)}
      /\ \A x \in DOMAIN OView(new) : OView(new)[x] = RowOf(db.oids, rows, OId(x))
  BY <1>1, <1>3, ViewFacts
<1>4. DOMAIN OView(new) = DOMAIN OView(db) \cup {f}
  BY <1>2, <1>v, <1>w, IdFacts
<1>5. ASSUME NEW t \in DOMAIN OView(new)
      PROVE  OView(new)[t] = IF t \in DOMAIN OView(db) THEN OView(db)[t] ELSE row
  <2>1. OView(new)[t] = RowOf(db.oids, rows, OId(t))
    BY <1>w
  <2>2. CASE t \in DOMAIN OView(db)
    BY <1>2, <1>v, <2>1, <2>2
  <2>3. CASE t \notin DOMAIN OView(db)
    BY <1>2, <1>4, <1>v, <1>w, <2>1, <2>3
  <2>4. QED
    BY <2>2, <2>3
<1>6. OView(new) = RE!AddRow(OView(db), f, row)
  BY <1>4, <1>5, ViewsAreFunctions DEF RE!AddRow
<1>7. SView(new) = SView(db)
  BY <1>1 DEF SView
<1>8. QED
  BY <1>1, <1>2, <1>3, <1>6, <1>7

\* An updated label is seen under the id of its subject.
LEMMA UpdateView ==
  ASSUME NEW db, DBOK(db), NEW s \in DOMAIN SView(db),
         NEW row \in RowType, row.owner = SView(db)[s].owner,
         NEW new, new = WithSubjects(db, Relabel(db.subs, RowAt(db.subs, IndexOf(db.sids, SId(s))), row))
  PROVE  /\ DBOK(new) /\ OView(new) = OView(db)
         /\ SView(new) = [SView(db) EXCEPT ![s] = row]
         /\ SubjectsWhole(db) => SubjectsWhole(new)
<1> DEFINE rows == Relabel(db.subs, RowAt(db.subs, IndexOf(db.sids, SId(s))), row)
<1>1. new.sids = db.sids /\ new.subs = rows /\ new.oids = db.oids /\ new.objs = db.objs
  BY DEF WithSubjects
<1>2. SId(s) \in Known(db.sids, db.subs) /\ row.owner = RowOf(db.sids, db.subs, SId(s)).owner
  BY ViewFacts
<1>3. /\ TableOK(db.sids, rows) /\ Known(db.sids, rows) = Known(db.sids, db.subs)
      /\ Complete(db.sids, rows) = Complete(db.sids, db.subs)
      /\ \A x \in Known(db.sids, db.subs) \ {SId(s)} :
           RowOf(db.sids, rows, x) = RowOf(db.sids, db.subs, x)
      /\ RowOf(db.sids, rows, SId(s)) = row
  BY <1>2, UpdateFacts DEF DBOK
<1> HIDE DEF rows
<1>4. DBOK(new)
  BY <1>1, <1>3 DEF DBOK
<1>5. DOMAIN SView(new) = DOMAIN SView(db)
  BY <1>1, <1>3, <1>4, ViewFacts
<1>6. ASSUME NEW t \in DOMAIN SView(db)
      PROVE  SView(new)[t] = IF t = s THEN row ELSE SView(db)[t]
  <2>1. /\ SView(new)[t] = RowOf(db.sids, rows, SId(t))
        /\ SView(db)[t] = RowOf(db.sids, db.subs, SId(t))
        /\ t \in Users \X Pids /\ s \in Users \X Pids /\ SId(t) \in Known(db.sids, db.subs)
    BY <1>1, <1>4, <1>5, ViewFacts
  <2>2. SId(t) = SId(s) <=> t = s
    BY <2>1, IdFacts
  <2>3. QED
    BY <1>3, <2>1, <2>2
<1>7. SView(new) = [SView(db) EXCEPT ![s] = row]
  BY <1>5, <1>6, ViewsAreFunctions
<1>8. OView(new) = OView(db)
  BY <1>1 DEF OView
<1>9. SubjectsWhole(db) => SubjectsWhole(new)
  BY <1>1, <1>3 DEF SubjectsWhole
<1>10. QED
  BY <1>4, <1>7, <1>8, <1>9

-----------------------------------------------------------------------------
(* What a check knows from the answers so far *)

Subjects(db) == DOMAIN SView(db)
Objects(db) == DOMAIN OView(db)
SubjectIndex(db, s) == IndexOf(db.sids, SId(s))
ObjectIndex(db, f) == IndexOf(db.oids, OId(f))

(***************************************************************************)
(* fork_check: only the new id may have no row, until add_subject.         *)
(***************************************************************************)
ForkRow(g) == IF g[3] = 0 THEN 7 ELSE 6

ForkKnows(self, parent, g, db) ==
  /\ Len(g) <= 7
  /\ Len(g) >= 3 => g[3] = SubjectIndex(db, parent)
  /\ Len(g) >= 4 => g[4] # 0 /\ g[4] = SubjectIndex(db, self)
  /\ Len(g) >= 5 => g[5] = IF g[3] = 0 THEN self[1] ELSE SView(db)[parent]
  /\ Len(g) >= 6 /\ g[3] = 0 => g[6] = Users
  /\ Len(g) >= 4 /\ Len(g) >= ForkRow(g) => self \in Subjects(db)
  /\ \A i \in DOMAIN db.sids : \/ i \in Complete(db.sids, db.subs)
                               \/ Len(g) >= 4 /\ Len(g) < ForkRow(g) /\ i = g[4]
  /\ ObjectsWhole(db)

(***************************************************************************)
(* file_open_check: an object that is known needs nothing else.            *)
(***************************************************************************)
OpenRow(f) == IF FileStat[f].uid = NoUser THEN 7 ELSE 10

OpenKnows(f, g, db) ==
  /\ Len(g) <= OpenRow(f)
  /\ Len(g) = 3 => g[3] = ObjectIndex(db, f)
  /\ Len(g) >= 4 => g[3] = 0 /\ g[4] # 0 /\ g[4] = ObjectIndex(db, f)
  /\ Len(g) >= 5 => g[5] = FileStat[f].uid
  /\ Len(g) >= 6 => g[6] = FileStat[f].uid
  /\ Len(g) >= 7 /\ g[6] # NoUser => g[7] = FileStat[f].members
  /\ Len(g) >= 8 => g[8] = FileStat[f].members
  /\ Len(g) = OpenRow(f) => f \in Objects(db)
  /\ \A i \in DOMAIN db.oids : \/ i \in Complete(db.oids, db.objs)
                               \/ Len(g) >= 4 /\ Len(g) < OpenRow(f) /\ i = g[4]
  /\ SubjectsWhole(db)

(***************************************************************************)
(* file_read_check and file_write_check: the copies are what the tables    *)
(* say, until the read has raised the label.                               *)
(***************************************************************************)
FileKnows(s, f, g, db) ==
  /\ Len(g) >= 3 => g[3] = SubjectIndex(db, s)
  /\ Len(g) >= 4 => g[4] = ObjectIndex(db, f)
  /\ Len(g) >= 5 => g[4] # 0 /\ s \in Subjects(db) /\ f \in Objects(db)
  /\ Len(g) \in {5, 6} => g[5] = SView(db)[s]
  /\ Len(g) >= 6 => g[6] = OView(db)[f]
  /\ Whole(db)

ReadKnows(s, f, g, db) ==
  /\ Len(g) <= 7
  /\ FileKnows(s, f, g, db)
  /\ Len(g) = 7 => /\ SView(db)[s].owner \in OView(db)[f].readers
                   /\ FlowsTo(OView(db)[f], SView(db)[s])

WriteKnows(s, f, g, db) == Len(g) <= 6 /\ FileKnows(s, f, g, db)

(***************************************************************************)
(* kill_check, the same for two subjects, which may be one.                *)
(***************************************************************************)
KillKnows(s, t, g, db) ==
  /\ Len(g) <= 7
  /\ Len(g) >= 3 => g[3] = SubjectIndex(db, s)
  /\ Len(g) >= 4 => s \in Subjects(db)
  /\ Len(g) \in {4, 5, 6} => g[4] = SView(db)[s]
  /\ Len(g) >= 5 => g[5] = SubjectIndex(db, t)
  /\ Len(g) >= 6 => t \in Subjects(db)
  /\ Len(g) = 6 => g[6] = SView(db)[t]
  /\ Len(g) = 7 => /\ SView(db)[t].owner \in SView(db)[s].readers
                   /\ FlowsTo(SView(db)[s], SView(db)[t])
  /\ Whole(db)

Knows(j, g, db) ==
  /\ IsSeq(g) /\ Len(g) >= 1
  /\ Len(g) >= 2 => g[2] = Host
  /\ j.check = "fork"  => ForkKnows(j.self, <<j.self[1], j.about>>, g, db)
  /\ j.check = "open"  => OpenKnows(j.about, g, db)
  /\ j.check = "read"  => ReadKnows(j.self, j.about, g, db)
  /\ j.check = "write" => WriteKnows(j.self, j.about, g, db)
  /\ j.check = "kill"  => KillKnows(j.self, j.about, g, db)

JobOK(j) ==
  \/ /\ j.check = "fork" /\ j.self \in Users \X Pids
     /\ j.about \in Pids \cup {InitProc} /\ j.about # j.self[2]
  \/ j.check \in {"open", "read", "write"} /\ j.self \in Users \X Pids /\ j.about \in Files
  \/ j.check = "kill" /\ j.self \in Users \X Pids /\ j.about \in Users \X Pids

(***************************************************************************)
(* The checks of RuleEngine between db and new, and where they stop it.    *)
(***************************************************************************)
Forks(self, parent, db, new) ==
  /\ SView(new) = RE!AddRow(SView(db), self,
                            IF parent \in Subjects(db) THEN SView(db)[parent]
                            ELSE RE!DefaultSubject(self[1]))
  /\ OView(new) = OView(db)
Opens(f, db, new) ==
  /\ OView(new) = RE!AddRow(OView(db), f, RE!InferredObject(f))
  /\ SView(new) = SView(db)
Reads(s, f, db, new) ==
  /\ f \in Objects(db) /\ s \in Subjects(db)
  /\ SView(db)[s].owner \in OView(db)[f].readers
  /\ SView(new) = [SView(db) EXCEPT ![s] = Raise(@, OView(db)[f])]
  /\ OView(new) = OView(db)
Kills(s, t, db, new) ==
  /\ s \in Subjects(db) /\ t \in Subjects(db)
  /\ SView(db)[t].owner \in SView(db)[s].readers
  /\ SView(new) = [SView(db) EXCEPT ![t] = Raise(@, SView(db)[s])]
  /\ OView(new) = OView(db)

Checks(j, db, new) ==
  \/ j.check = "fork" /\ Forks(j.self, <<j.self[1], j.about>>, db, new)
  \/ j.check = "open" /\ Opens(j.about, db, new)
  \/ j.check = "read" /\ Reads(j.self, j.about, db, new)
  \/ j.check = "kill" /\ Kills(j.self, j.about, db, new)

Stops(j, db) ==
  \/ /\ j.check \in {"read", "write"}
     /\ j.about \in Objects(db) /\ j.self \notin Subjects(db)
  \/ /\ j.check = "kill"
     /\ ~(j.self \in Subjects(db) /\ j.about \in Subjects(db))

\* What an index that was answered says of the subject.
LEMMA SubjectFetched ==
  ASSUME NEW db, DBOK(db), NEW s, s = <<s[1], s[2]>>
  PROVE  /\ SubjectIndex(db, s) = 0 => /\ s \notin Subjects(db)
                                       /\ RowAt(db.subs, SubjectIndex(db, s)) = 0
         /\ SubjectIndex(db, s) # 0 /\ SubjectIndex(db, s) \in Complete(db.sids, db.subs) =>
              /\ s \in Subjects(db)
              /\ RowAt(db.subs, SubjectIndex(db, s)) # 0
              /\ Fields(db.subs[RowAt(db.subs, SubjectIndex(db, s))]) = SView(db)[s]
         /\ SubjectIndex(db, s) # 0 => /\ SubjectIndex(db, s) \in 1..Len(db.sids)
                                       /\ SubjectIndex(db, s) \in DOMAIN db.sids
                                       /\ db.sids[SubjectIndex(db, s)] = SId(s)
<1> DEFINE i == SubjectIndex(db, s)
<1>1. TableOK(db.sids, db.subs) /\ IsSeq(db.sids) /\ IsSeq(db.subs)
  BY TableFacts DEF DBOK
<1>2. DOMAIN SView(db) = {t \in Users \X Pids : SId(t) \in Known(db.sids, db.subs)}
  BY ViewFacts
<1>3. SId(s) \in Known(db.sids, db.subs) <=> i # 0 /\ RowAt(db.subs, i) # 0
  BY <1>1, KnownFacts DEF SubjectIndex
<1>4. i = 0 => s \notin Subjects(db) /\ RowAt(db.subs, i) = 0
  <2>1. i = 0 => s \notin Subjects(db)
    BY <1>2, <1>3 DEF Subjects
  <2>2. RowAt(db.subs, 0) = 0
    <3>1. RowAt(db.subs, 0) # 0 =>
            /\ RowAt(db.subs, 0) \in 1..Len(db.subs)
            /\ db.subs[RowAt(db.subs, 0)].index = 0
      BY <1>1, RowAtFacts
    <3>2. \A k \in 1..Len(db.subs) : db.subs[k].index # 0
      <4>1. \A k \in 1..Len(db.sids) : k # 0
        BY <1>1, TableFacts
      <4>2. QED
        BY <1>1, <4>1 DEF TableOK
    <3>3. QED
      BY <3>1, <3>2
  <2>3. QED
    BY <2>1, <2>2
<1>5. i # 0 => i \in 1..Len(db.sids) /\ i \in DOMAIN db.sids /\ db.sids[i] = SId(s)
  BY <1>1, IndexOfFacts DEF SubjectIndex
<1>6. ASSUME i # 0, i \in Complete(db.sids, db.subs)
      PROVE  /\ s \in Subjects(db) /\ RowAt(db.subs, i) # 0
             /\ Fields(db.subs[RowAt(db.subs, i)]) = SView(db)[s]
  <2>1. RowAt(db.subs, i) # 0
    BY <1>6 DEF Complete
  <2>2. s \in Users \X Pids
    <3>1. SId(s) \in SubjectIdType
      BY <1>5, <1>6 DEF DBOK
    <3>2. QED
      BY <3>1 DEF SId, SubjectIdType
  <2>3. s \in DOMAIN SView(db)
    BY <1>2, <1>3, <1>6, <2>1, <2>2
  <2>4. SView(db)[s] = RowOf(db.sids, db.subs, SId(s))
    BY <2>3, ViewFacts
  <2>5. QED
    BY <2>1, <2>3, <2>4 DEF RowOf, SubjectIndex, Subjects
<1>7. QED
  BY <1>4, <1>5, <1>6

LEMMA ObjectFetched ==
  ASSUME NEW db, DBOK(db), NEW f
  PROVE  /\ ObjectIndex(db, f) = 0 => f \notin Objects(db)
         /\ ObjectIndex(db, f) # 0 /\ ObjectIndex(db, f) \in Complete(db.oids, db.objs) =>
              /\ f \in Objects(db)
              /\ RowAt(db.objs, ObjectIndex(db, f)) # 0
              /\ Fields(db.objs[RowAt(db.objs, ObjectIndex(db, f))]) = OView(db)[f]
         /\ ObjectIndex(db, f) # 0 => /\ ObjectIndex(db, f) \in 1..Len(db.oids)
                                      /\ ObjectIndex(db, f) \in DOMAIN db.oids
                                      /\ db.oids[ObjectIndex(db, f)] = OId(f)
<1> DEFINE i == ObjectIndex(db, f)
<1>1. TableOK(db.oids, db.objs) /\ IsSeq(db.oids) /\ IsSeq(db.objs)
  BY TableFacts DEF DBOK
<1>2. DOMAIN OView(db) = {t \in Files : OId(t) \in Known(db.oids, db.objs)}
  BY ViewFacts
<1>3. OId(f) \in Known(db.oids, db.objs) <=> i # 0 /\ RowAt(db.objs, i) # 0
  BY <1>1, KnownFacts DEF ObjectIndex
<1>4. i = 0 => f \notin Objects(db)
  BY <1>2, <1>3 DEF Objects
<1>5. i # 0 => i \in 1..Len(db.oids) /\ i \in DOMAIN db.oids /\ db.oids[i] = OId(f)
  BY <1>1, IndexOfFacts DEF ObjectIndex
<1>6. ASSUME i # 0, i \in Complete(db.oids, db.objs)
      PROVE  /\ f \in Objects(db) /\ RowAt(db.objs, i) # 0
             /\ Fields(db.objs[RowAt(db.objs, i)]) = OView(db)[f]
  <2>1. RowAt(db.objs, i) # 0
    BY <1>6 DEF Complete
  <2>2. f \in Files
    <3>1. OId(f) \in ObjectIdType
      BY <1>5, <1>6 DEF DBOK
    <3>2. QED
      BY <3>1 DEF OId, ObjectIdType
  <2>3. f \in DOMAIN OView(db)
    BY <1>2, <1>3, <1>6, <2>1, <2>2
  <2>4. OView(db)[f] = RowOf(db.oids, db.objs, OId(f))
    BY <2>3, ViewFacts
  <2>5. QED
    BY <2>1, <2>3, <2>4 DEF RowOf, ObjectIndex, Objects
<1>7. QED
  BY <1>4, <1>5, <1>6

-----------------------------------------------------------------------------
(* Each answer adds to what its check knows *)

LEMMA AskFields ==
  ASSUME NEW op, NEW args
  PROVE  Ask(op, args).op = op /\ Ask(op, args).args = args
BY DEF Ask

\* fork_check
LEMMA ForkStep ==
  ASSUME NEW db, DBOK(db), NEW self \in Users \X Pids,
         NEW q \in Pids \cup {InitProc}, q # self[2],
         NEW g, IsSeq(g), Len(g) >= 2, g[2] = Host,
         ForkKnows(self, <<self[1], q>>, g, db),
         NEW r, r = ForkRequest(self, q, g), r # Done
  PROVE  /\ ~Stopping(r.op, r.args, db)
         /\ \A val, new :
              Serving(r.op, r.args, val, db, new) =>
                /\ DBOK(new)
                /\ ForkKnows(self, <<self[1], q>>, Append(g, val), new)
                /\ SameViews(db, new) \/ Forks(self, <<self[1], q>>, db, new)
<1> DEFINE parent == <<self[1], q>>
<1>1. /\ parent = <<parent[1], parent[2]>> /\ self = <<self[1], self[2]>>
      /\ self[1] \in Users /\ self[2] \in Pids
      /\ SId(parent) = <<Host, self[1], q>> /\ SId(self) = <<Host, self[1], self[2]>>
      /\ SId(parent) # SId(self) /\ SId(self) \in SubjectIdType
  BY DEF SId, SubjectIdType
<1> HIDE DEF parent
<1>2. Len(g) \in 2..6
  <2>1. Len(g) <= 7
    BY DEF ForkKnows
  <2>2. Len(g) \in Nat
    BY LenProperties DEF IsSeq
  <2>3. Len(g) = 7 => FALSE
    BY DEF ForkRequest
  <2>4. PICK n \in Nat : n = Len(g) /\ n >= 2 /\ n <= 7 /\ n # 7
    BY <2>1, <2>2, <2>3
  <2>5. \A k \in Nat : k >= 2 /\ k <= 7 /\ k # 7 => k \in 2..6
    OBVIOUS
  <2>6. QED
    BY <2>4, <2>5
<1>3. ForkKnows(self, parent, g, db)
  BY DEF parent
\* The parent that was found has a row.
<1>4. Len(g) >= 4 /\ g[3] # 0 =>
        /\ parent \in Subjects(db) /\ RowAt(db.subs, g[3]) # 0
        /\ Fields(db.subs[RowAt(db.subs, g[3])]) = SView(db)[parent]
  <2>1. ASSUME Len(g) >= 4, g[3] # 0
        PROVE  g[3] \in Complete(db.sids, db.subs) /\ g[3] = SubjectIndex(db, parent)
    <3>1. g[3] = SubjectIndex(db, parent) /\ g[4] = SubjectIndex(db, self) /\ g[4] # 0
      BY <1>2, <1>3, <2>1 DEF ForkKnows
    <3>2. g[3] \in DOMAIN db.sids /\ db.sids[g[3]] = SId(parent) /\ db.sids[g[4]] = SId(self)
      BY <1>1, <2>1, <3>1, SubjectFetched
    <3>3. g[3] # g[4]
      BY <1>1, <3>2
    <3>4. QED
      BY <1>3, <3>1, <3>2, <3>3 DEF ForkKnows
  <2>2. QED
    BY <1>1, <2>1, SubjectFetched
<1>5. Len(g) >= 4 /\ g[3] = 0 => parent \notin Subjects(db)
  BY <1>1, <1>2, <1>3, SubjectFetched DEF ForkKnows
<1>6. Len(g) >= 4 => /\ g[4] \in 1..Len(db.sids) /\ g[4] \in DOMAIN db.sids
                     /\ db.sids[g[4]] = SId(self)
  BY <1>1, <1>2, <1>3, SubjectFetched DEF ForkKnows
<1>7. ~Stopping(r.op, r.args, db)
  <2>1. CASE Len(g) = 4 /\ g[3] # 0
    <3>1. r = Ask("GET_SUBJECT", g[3])
      BY <2>1 DEF ForkRequest
    <3>2. QED
      BY <1>2, <1>4, <2>1, <3>1, AskFields DEF Stopping
  <2>2. CASE ~(Len(g) = 4 /\ g[3] # 0)
    <3>1. r.op \notin {"GET_SUBJECT", "GET_OBJECT"}
      BY <1>2, <2>2 DEF ForkRequest, Ask, Done
    <3>2. QED
      BY <3>1 DEF Stopping
  <2>3. QED
    BY <2>1, <2>2
<1>8. ASSUME NEW val, NEW new, Serving(r.op, r.args, val, db, new)
      PROVE  /\ DBOK(new) /\ ForkKnows(self, parent, Append(g, val), new)
             /\ SameViews(db, new) \/ Forks(self, parent, db, new)
  <2> DEFINE h == Append(g, val)
  <2>1. /\ Len(g) \in Nat /\ Len(h) = Len(g) + 1 /\ h[Len(g) + 1] = val
        /\ \A i \in 1..Len(g) : h[i] = g[i]
    BY AppendFacts
  <2>2. new = db => DBOK(new) /\ SameViews(db, new)
    BY DEF SameViews
  <2> HIDE DEF h
  <2>3. CASE Len(g) = 2
    <3>a. r = Ask("GET_SUBJECT_ID_INDEX", <<g[2], self[1], q>>)
      BY <2>3 DEF ForkRequest
    <3>0. r.op = "GET_SUBJECT_ID_INDEX" /\ r.args = SId(parent)
      BY <1>1, <3>a, AskFields
    <3>1. new = db /\ val = SubjectIndex(db, parent)
      BY <3>0, <1>8, <2>3 DEF Serving, SubjectIndex
    <3>2. Len(h) = 3 /\ h[3] = val
      BY <2>1, <2>3
    <3>3. ForkKnows(self, parent, h, db)
      BY <1>3, <2>3, <3>1, <3>2 DEF ForkKnows
    <3>4. QED
      BY <2>2, <3>1, <3>3 DEF h
  <2>4. CASE Len(g) = 3
    <3> DEFINE ids == AddId(db.sids, SId(self))
    <3>a. r = Ask("ADD_SUBJECT_ID", <<g[2], self[1], self[2]>>)
      BY <2>4 DEF ForkRequest
    <3>0. r.op = "ADD_SUBJECT_ID" /\ r.args = SId(self)
      BY <1>1, <3>a, AskFields
    <3>1. new = WithSubjectIds(db, ids) /\ val = IndexOf(new.sids, SId(self))
      BY <3>0, <1>8, <2>4 DEF Serving
    <3>2. new.sids = ids /\ new.subs = db.subs /\ new.oids = db.oids /\ new.objs = db.objs
      BY <3>1 DEF WithSubjectIds
    <3>3. DBOK(new) /\ SameViews(db, new)
      BY <1>1, <3>1, AddSubjectIdView
    <3>4. TableOK(db.sids, db.subs)
      BY DEF DBOK
    <3>5. /\ DOMAIN ids = DOMAIN db.sids \cup {IndexOf(ids, SId(self))}
          /\ Complete(db.sids, db.subs) \subseteq Complete(ids, db.subs)
      BY <3>4, AddIdFacts
    <3>6. IndexOf(ids, SId(parent)) = IndexOf(db.sids, SId(parent))
      BY <1>1, <3>4, AddIdOther
    <3>7. IndexOf(ids, SId(self)) \in 1..Len(ids) /\ DOMAIN ids = 1..Len(ids)
      <4>1. IndexOf(ids, SId(self)) \in 1..Len(ids)
        BY <3>4, AddIdFacts
      <4>2. QED
        BY <3>2, <3>3, <4>1, TableFacts DEF DBOK
    <3> HIDE DEF ids
    <3>8. Len(h) = 4 /\ h[3] = g[3] /\ h[4] = val
      BY <2>1, <2>4
    <3>9. /\ h[4] # 0 /\ h[4] = SubjectIndex(new, self) /\ h[3] = SubjectIndex(new, parent)
      BY <1>3, <2>4, <3>1, <3>2, <3>6, <3>7, <3>8 DEF SubjectIndex, ForkKnows
    <3>10. \A i \in DOMAIN new.sids : i \in Complete(new.sids, new.subs) \/ i = h[4]
      BY <1>3, <2>4, <3>1, <3>2, <3>5, <3>8 DEF ForkKnows, ForkRow
    <3>11. ObjectsWhole(new)
      BY <1>3, <3>2 DEF ForkKnows, ObjectsWhole
    <3>12. ForkKnows(self, parent, h, new)
      BY <3>8, <3>9, <3>10, <3>11 DEF ForkKnows, ForkRow
    <3>13. QED
      BY <3>3, <3>12 DEF h
  <2>5. CASE Len(g) = 4 /\ g[3] = 0
    <3>a. r = Ask("GET_USER_ID_INDEX", self[1])
      BY <2>5 DEF ForkRequest
    <3>0. r.op = "GET_USER_ID_INDEX" /\ r.args = self[1]
      BY <1>1, <3>a, AskFields
    <3>1. new = db /\ val = self[1]
      BY <1>1, <3>0, <1>8, <2>5 DEF Serving
    <3>2. Len(h) = 5 /\ h[3] = g[3] /\ h[4] = g[4] /\ h[5] = val
      BY <2>1, <2>5
    <3>3. ForkKnows(self, parent, h, db)
      BY <1>3, <2>5, <3>1, <3>2 DEF ForkKnows, ForkRow
    <3>4. QED
      BY <2>2, <3>1, <3>3 DEF h
  <2>6. CASE Len(g) = 5 /\ g[3] = 0
    <3>a. r = Ask("GET_NUMBER_OF_USERS", <<>>)
      BY <2>6 DEF ForkRequest
    <3>0. r.op = "GET_NUMBER_OF_USERS"
      BY <1>1, <3>a, AskFields
    <3>1. new = db /\ val = Users
      BY <3>0, <1>8, <2>6 DEF Serving
    <3>2. Len(h) = 6 /\ h[3] = g[3] /\ h[4] = g[4] /\ h[5] = g[5] /\ h[6] = val
      BY <2>1, <2>6
    <3>3. ForkKnows(self, parent, h, db)
      BY <1>3, <2>6, <3>1, <3>2 DEF ForkKnows, ForkRow
    <3>4. QED
      BY <2>2, <3>1, <3>3 DEF h
  <2>7. CASE Len(g) = 6 /\ g[3] = 0
    <3> DEFINE row == RE!DefaultSubject(self[1])
    <3>a. PICK given : given = [owner |-> g[5], readers |-> g[6], writers |-> {g[5]}]
      OBVIOUS
    <3>b. r = Ask("ADD_SUBJECT", <<g[4], given>>)
      BY <2>7, <3>a DEF ForkRequest
    <3>0. r.op = "ADD_SUBJECT" /\ r.args = <<g[4], given>>
      BY <3>b, AskFields
    <3>1. g[5] = self[1] /\ g[6] = Users /\ g[4] = SubjectIndex(db, self) /\ g[4] # 0
      BY <1>3, <2>7 DEF ForkKnows
    <3>2. r.args[1] = g[4] /\ r.args[2] = row /\ row \in RowType
      BY <1>1, <3>0, <3>1, <3>a DEF RE!DefaultSubject, RowType, UserSet
    <3> HIDE DEF row
    <3>3. new = WithSubjects(db, AddAt(db.subs, g[4], row))
      BY <3>0, <1>8, <2>7, <3>2 DEF Serving
    <3>i. PICK i : i = g[4]
      OBVIOUS
    <3>4. /\ DBOK(new) /\ OView(new) = OView(db)
          /\ SView(new) = RE!AddRow(SView(db), self, row)
          /\ \A k : k \in Complete(db.sids, db.subs) \/ k = i => k \in Complete(new.sids, new.subs)
      <4>1. i \in DOMAIN db.sids /\ db.sids[i] = SId(self)
        BY <1>6, <2>7, <3>i
      <4>2. new = WithSubjects(db, AddAt(db.subs, i, row)) /\ row \in RowType
        BY <3>2, <3>3, <3>i
      <4>3. DBOK(new) /\ OView(new) = OView(db)
        BY <4>1, <4>2, AddSubjectView
      <4>4. SView(new) = RE!AddRow(SView(db), self, row)
        BY <4>1, <4>2, AddSubjectView
      <4>5. \A k : k \in Complete(new.sids, new.subs) <=>
                    k \in Complete(db.sids, db.subs) \/ k = i
        BY <4>1, <4>2, AddSubjectView
      <4>6. QED
        BY <4>3, <4>4, <4>5
    <3>5. new.sids = db.sids /\ new.oids = db.oids /\ new.objs = db.objs
      BY <3>3 DEF WithSubjects
    <3>6. Len(h) = 7 /\ h[3] = g[3] /\ h[4] = g[4] /\ h[5] = g[5] /\ h[6] = g[6]
      BY <2>1, <2>7
    <3>7. self \in Subjects(new)
      BY <3>4 DEF RE!AddRow, Subjects
    <3>8. \A k \in DOMAIN new.sids : k \in Complete(new.sids, new.subs)
      BY <1>3, <3>4, <3>5, <3>i DEF ForkKnows
    <3>9. SubjectIndex(new, self) = g[4] /\ SubjectIndex(new, parent) = g[3]
      BY <1>3, <2>7, <3>5 DEF ForkKnows, SubjectIndex
    <3>10. ObjectsWhole(new)
      BY <1>3, <3>5 DEF ForkKnows, ObjectsWhole
    <3>11. ForkKnows(self, parent, h, new)
      BY <2>7, <3>1, <3>6, <3>7, <3>8, <3>9, <3>10 DEF ForkKnows, ForkRow
    <3>12. Forks(self, parent, db, new)
      BY <1>5, <2>7, <3>4 DEF Forks, row
    <3>13. QED
      BY <3>4, <3>11, <3>12 DEF h
  <2>8. CASE Len(g) = 4 /\ g[3] # 0
    <3>a. r = Ask("GET_SUBJECT", g[3])
      BY <2>8 DEF ForkRequest
    <3>0. r.op = "GET_SUBJECT" /\ r.args = g[3]
      BY <1>1, <3>a, AskFields
    <3>1. new = db /\ val = SView(db)[parent]
      BY <1>4, <3>0, <1>8, <2>8 DEF Serving
    <3>2. Len(h) = 5 /\ h[3] = g[3] /\ h[4] = g[4] /\ h[5] = val
      BY <2>1, <2>8
    <3>3. ForkKnows(self, parent, h, db)
      BY <1>3, <2>8, <3>1, <3>2 DEF ForkKnows, ForkRow
    <3>4. QED
      BY <2>2, <3>1, <3>3 DEF h
  <2>9. CASE Len(g) = 5 /\ g[3] # 0
    <3> DEFINE row == SView(db)[parent]
    <3>a. r = Ask("ADD_SUBJECT", <<g[4], g[5]>>)
      BY <2>9 DEF ForkRequest
    <3>0. r.op = "ADD_SUBJECT" /\ r.args = <<g[4], g[5]>>
      BY <1>1, <3>a, AskFields
    <3>1. g[5] = row /\ g[4] = SubjectIndex(db, self) /\ g[4] # 0
      BY <1>3, <2>9 DEF ForkKnows
    <3>2. r.args[1] = g[4] /\ r.args[2] = row /\ row \in RowType
      <4>1. row \in RowType
        <5>1. parent \in DOMAIN SView(db)
          BY <1>4, <2>9 DEF Subjects
        <5>2. QED
          BY <5>1, ViewFacts
      <4> HIDE DEF row
      <4>2. QED
        BY <3>0, <3>1, <4>1
    <3> HIDE DEF row
    <3>3. new = WithSubjects(db, AddAt(db.subs, g[4], row))
      BY <3>0, <1>8, <2>9, <3>2 DEF Serving
    <3>i. PICK i : i = g[4]
      OBVIOUS
    <3>4. /\ DBOK(new) /\ OView(new) = OView(db)
          /\ SView(new) = RE!AddRow(SView(db), self, row)
          /\ \A k : k \in Complete(db.sids, db.subs) \/ k = i => k \in Complete(new.sids, new.subs)
      <4>1. i \in DOMAIN db.sids /\ db.sids[i] = SId(self)
        BY <1>6, <2>9, <3>i
      <4>2. new = WithSubjects(db, AddAt(db.subs, i, row)) /\ row \in RowType
        BY <3>2, <3>3, <3>i
      <4>3. DBOK(new) /\ OView(new) = OView(db)
        BY <4>1, <4>2, AddSubjectView
      <4>4. SView(new) = RE!AddRow(SView(db), self, row)
        BY <4>1, <4>2, AddSubjectView
      <4>5. \A k : k \in Complete(new.sids, new.subs) <=>
                    k \in Complete(db.sids, db.subs) \/ k = i
        BY <4>1, <4>2, AddSubjectView
      <4>6. QED
        BY <4>3, <4>4, <4>5
    <3>5. new.sids = db.sids /\ new.oids = db.oids /\ new.objs = db.objs
      BY <3>3 DEF WithSubjects
    <3>6. Len(h) = 6 /\ h[3] = g[3] /\ h[4] = g[4] /\ h[5] = g[5]
      BY <2>1, <2>9
    <3>7. self \in Subjects(new) /\ SView(new)[parent] = row
      BY <1>4, <2>9, <3>4 DEF RE!AddRow, Subjects, row
    <3>8. \A k \in DOMAIN new.sids : k \in Complete(new.sids, new.subs)
      BY <1>3, <3>4, <3>5, <3>i DEF ForkKnows
    <3>9. SubjectIndex(new, self) = g[4] /\ SubjectIndex(new, parent) = g[3]
      BY <1>3, <2>9, <3>5 DEF ForkKnows, SubjectIndex
    <3>10. ObjectsWhole(new)
      BY <1>3, <3>5 DEF ForkKnows, ObjectsWhole
    <3>11. ForkKnows(self, parent, h, new)
      BY <2>9, <3>1, <3>6, <3>7, <3>8, <3>9, <3>10 DEF ForkKnows, ForkRow
    <3>12. Forks(self, parent, db, new)
      BY <1>4, <2>9, <3>4 DEF Forks, row
    <3>13. QED
      BY <3>4, <3>11, <3>12 DEF h
  <2>10. CASE Len(g) = 6 /\ g[3] # 0
    <3>a. r = Ask("COPY_SUBJECT_FDS", <<g[3], g[4]>>)
      BY <2>10 DEF ForkRequest
    <3>0. r.op = "COPY_SUBJECT_FDS"
      BY <1>1, <3>a, AskFields
    <3>1. new = db
      BY <3>0, <1>8, <2>10 DEF Serving
    <3>2. Len(h) = 7 /\ h[3] = g[3] /\ h[4] = g[4] /\ h[5] = g[5]
      BY <2>1, <2>10
    <3>3. ForkKnows(self, parent, h, db)
      BY <1>3, <2>10, <3>2 DEF ForkKnows, ForkRow
    <3>4. QED
      BY <2>2, <3>1, <3>3 DEF h
  <2>11. \/ Len(g) = 2 \/ Len(g) = 3 \/ Len(g) = 4 \/ Len(g) = 5 \/ Len(g) = 6
    BY <1>2
  <2>12. QED
    BY <2>3, <2>4, <2>5, <2>6, <2>7, <2>8, <2>9, <2>10, <2>11
<1>9. QED
  BY <1>7, <1>8 DEF parent

\* The rule engine of RE uses the operators of this module.
LEMMA SameOperators ==
  /\ \A stat : RE!infer_file_labels(stat) = infer_file_labels(stat)
  /\ \A row, l : RE!Raise(row, l) = Raise(row, l)
<1>1. \A stat, usr, grp, oth : RE!InferredSet(stat, usr, grp, oth) = InferredSet(stat, usr, grp, oth)
  BY DEF RE!InferredSet, InferredSet
<1>2. \A stat : RE!infer_file_labels(stat) = infer_file_labels(stat)
  BY <1>1 DEF RE!infer_file_labels, infer_file_labels
<1>3. \A row, l : RE!Raise(row, l) = Raise(row, l)
  BY DEF RE!Raise, Raise
<1>4. QED
  BY <1>2, <1>3

\* The row that file_open_check adds is the one RuleEngine infers.
LEMMA OpenedRowInferred ==
  ASSUME NEW f \in Files, NEW g, g[5] = FileStat[f].uid, g[6] = FileStat[f].uid,
         \/ Len(g) = 6 /\ g[6] = NoUser
         \/ Len(g) = 9 /\ g[8] = FileStat[f].members
  PROVE  OpenedRow(f, g) = RE!InferredObject(f)
<1>0. PICK stat : stat = [uid |-> g[6], members |-> IF Len(g) < 8 THEN {} ELSE g[8],
                          mode |-> FileStat[f].mode]
  OBVIOUS
<1>1. FileStat[f] \in StatRecord
  BY RpcAssumption
<1>2. infer_file_labels(stat) = infer_file_labels(FileStat[f])
  <2>1. CASE g[6] = NoUser
    BY <1>0, <2>1 DEF infer_file_labels
  <2>2. CASE Len(g) = 9 /\ g[8] = FileStat[f].members
    <3>1. stat = FileStat[f]
      BY <1>0, <1>1, <2>2 DEF StatRecord
    <3>2. QED
      BY <3>1
  <2>3. QED
    BY <2>1, <2>2
<1>3. OpenedRow(f, g) = [owner |-> g[5], readers |-> infer_file_labels(stat).readers,
                         writers |-> infer_file_labels(stat).writers]
  BY <1>0 DEF OpenedRow
<1>4. QED
  BY <1>2, <1>3, SameOperators DEF RE!InferredObject

LEMMA InferredRowType ==
  ASSUME NEW f \in Files
  PROVE  RE!InferredObject(f) \in RowType
<1>1. FileStat[f] \in StatRecord
  BY RpcAssumption
<1>2. infer_file_labels(FileStat[f]) \in Label
  BY <1>1, InferredIsLabel
<1>3. FileStat[f].uid \in Users \cup {NoUser}
  BY <1>1 DEF StatRecord
<1>4. QED
  BY <1>2, <1>3, SameOperators DEF RE!InferredObject, RowType, Label

\* file_open_check
LEMMA OpenStep ==
  ASSUME NEW db, DBOK(db), NEW f \in Files,
         NEW g, IsSeq(g), Len(g) >= 2, g[2] = Host, OpenKnows(f, g, db),
         NEW r, r = OpenRequest(f, g), r # Done
  PROVE  /\ ~Stopping(r.op, r.args, db)
         /\ \A val, new :
              Serving(r.op, r.args, val, db, new) =>
                /\ DBOK(new)
                /\ OpenKnows(f, Append(g, val), new)
                /\ SameViews(db, new) \/ Opens(f, db, new)
<1> DEFINE owner == FileStat[f].uid
           members == FileStat[f].members
<1>1. owner \in Users \cup {NoUser} /\ OId(f) \in ObjectIdType /\ OId(f) = <<Host, f>>
  BY RpcAssumption DEF StatRecord, OId, ObjectIdType
<1> HIDE DEF owner, members
<1>2. Len(g) \in Nat /\ \/ Len(g) = 2 \/ (Len(g) = 3 /\ g[3] = 0)
                        \/ Len(g) \in {4, 5}
                        \/ Len(g) = 6 /\ g[6] = NoUser
                        \/ Len(g) \in {6, 7, 8, 9} /\ g[6] # NoUser
  <2>1. Len(g) <= OpenRow(f) /\ (Len(g) >= 6 => g[6] = owner)
    BY DEF OpenKnows, owner
  <2>2. Len(g) \in Nat
    BY LenProperties DEF IsSeq
  <2>3. OpenRow(f) = IF owner = NoUser THEN 7 ELSE 10
    BY DEF OpenRow, owner
  <2>4. Len(g) # 10 /\ (Len(g) = 7 => g[6] # NoUser) /\ (Len(g) = 3 => g[3] = 0)
    <3>1. Len(g) = 10 => FALSE
      BY DEF OpenRequest
    <3>2. Len(g) = 7 /\ g[6] = NoUser => FALSE
      BY DEF OpenRequest
    <3>3. Len(g) = 3 /\ g[3] # 0 => FALSE
      BY DEF OpenRequest
    <3>4. QED
      BY <3>1, <3>2, <3>3
  <2>5. \A n, k \in Nat : n >= 2 /\ n <= k /\ k \in {7, 10} =>
          \/ n = 2 \/ n = 3 \/ n = 4 \/ n = 5 \/ n = 6 \/ n = 7
          \/ k = 10 /\ (n = 8 \/ n = 9 \/ n = 10)
    OBVIOUS
  <2>6. OpenRow(f) \in Nat /\ OpenRow(f) \in {7, 10} /\ (OpenRow(f) = 10 => owner # NoUser)
    BY <2>3
  <2>7. \/ Len(g) = 2 \/ Len(g) = 3 \/ Len(g) = 4 \/ Len(g) = 5 \/ Len(g) = 6 \/ Len(g) = 7
        \/ OpenRow(f) = 10 /\ (Len(g) = 8 \/ Len(g) = 9 \/ Len(g) = 10)
    BY <2>1, <2>2, <2>5, <2>6
  <2>8. OpenRow(f) = 10 /\ (Len(g) = 8 \/ Len(g) = 9) => g[6] # NoUser
    BY <2>1, <2>6
  <2>9. QED
    BY <2>2, <2>4, <2>7, <2>8
<1>3. Len(g) >= 4 => /\ g[4] \in DOMAIN db.oids /\ db.oids[g[4]] = OId(f)
  BY <1>2, ObjectFetched DEF OpenKnows
<1>4. ~Stopping(r.op, r.args, db)
  <2>1. r.op \notin {"GET_SUBJECT", "GET_OBJECT"}
    BY DEF OpenRequest, Ask, Done
  <2>2. QED
    BY <2>1 DEF Stopping
<1>5. ASSUME NEW val, NEW new, Serving(r.op, r.args, val, db, new)
      PROVE  /\ DBOK(new) /\ OpenKnows(f, Append(g, val), new)
             /\ SameViews(db, new) \/ Opens(f, db, new)
  <2> DEFINE h == Append(g, val)
  <2>1. /\ Len(g) \in Nat /\ Len(h) = Len(g) + 1 /\ h[Len(g) + 1] = val
        /\ \A i \in 1..Len(g) : h[i] = g[i]
    BY AppendFacts
  <2>2. new = db => DBOK(new) /\ SameViews(db, new)
    BY DEF SameViews
  <2> HIDE DEF h
  <2>3. CASE Len(g) = 2
    <3>a. r = Ask("GET_OBJECT_ID_INDEX", <<g[2], f>>)
      BY <2>3 DEF OpenRequest
    <3>0. r.op = "GET_OBJECT_ID_INDEX" /\ r.args = OId(f)
      BY <1>1, <3>a, AskFields
    <3>1. new = db /\ val = ObjectIndex(db, f)
      BY <3>0, <1>5 DEF Serving, ObjectIndex
    <3>2. Len(h) = 3 /\ h[3] = val
      BY <2>1, <2>3
    <3>3. OpenKnows(f, h, db)
      BY <2>3, <3>1, <3>2 DEF OpenKnows, OpenRow
    <3>4. QED
      BY <2>2, <3>1, <3>3 DEF h
  <2>4. CASE Len(g) = 3 /\ g[3] = 0
    <3> DEFINE ids == AddId(db.oids, OId(f))
    <3>a. r = Ask("ADD_OBJECT_ID", <<g[2], f>>)
      BY <2>4 DEF OpenRequest
    <3>0. r.op = "ADD_OBJECT_ID" /\ r.args = OId(f)
      BY <1>1, <3>a, AskFields
    <3>1. new = WithObjectIds(db, ids) /\ val = IndexOf(new.oids, OId(f))
      BY <3>0, <1>5 DEF Serving
    <3>2. new.sids = db.sids /\ new.subs = db.subs /\ new.oids = ids /\ new.objs = db.objs
      BY <3>1 DEF WithObjectIds
    <3>3. DBOK(new) /\ SameViews(db, new)
      BY <1>1, <3>1, AddObjectIdView
    <3>4. TableOK(db.oids, db.objs)
      BY DEF DBOK
    <3>5. /\ DOMAIN ids = DOMAIN db.oids \cup {IndexOf(ids, OId(f))}
          /\ Complete(db.oids, db.objs) \subseteq Complete(ids, db.objs)
      BY <3>4, AddIdFacts
    <3>6. IndexOf(ids, OId(f)) \in 1..Len(ids)
      BY <3>4, AddIdFacts
    <3> HIDE DEF ids
    <3>7. Len(h) = 4 /\ h[3] = g[3] /\ h[4] = val
      BY <2>1, <2>4
    <3>8. h[4] # 0 /\ h[4] = ObjectIndex(new, f)
      <4>1. h[4] = ObjectIndex(new, f)
        BY <3>1, <3>2, <3>7 DEF ObjectIndex
      <4>2. TableOK(new.oids, new.objs)
        BY <3>3 DEF DBOK
      <4>3. \A k \in 1..Len(ids) : k # 0
        BY <3>2, <4>2, TableFacts
      <4>4. QED
        BY <3>1, <3>2, <3>6, <3>7, <4>1, <4>3
    <3>9. \A i \in DOMAIN new.oids : i \in Complete(new.oids, new.objs) \/ i = h[4]
      BY <2>4, <3>1, <3>2, <3>5, <3>7 DEF OpenKnows, OpenRow
    <3>10. SubjectsWhole(new)
      BY <3>2 DEF OpenKnows, SubjectsWhole
    <3>11. OpenKnows(f, h, new)
      BY <2>4, <3>7, <3>8, <3>9, <3>10 DEF OpenKnows, OpenRow
    <3>12. QED
      BY <3>3, <3>11 DEF h
  <2>5. CASE Len(g) \in {4, 5}
    <3>a. r = Ask("GET_USER_ID_INDEX", owner)
      BY <2>5 DEF OpenRequest, owner
    <3>0. r.op = "GET_USER_ID_INDEX" /\ r.args = owner
      BY <3>a, AskFields
    <3>1. new = db /\ val = owner
      BY <1>1, <3>0, <1>5 DEF Serving
    <3>2. /\ Len(h) = Len(g) + 1 /\ h[3] = g[3] /\ h[4] = g[4] /\ h[Len(g) + 1] = val
          /\ Len(g) = 5 => h[5] = g[5]
      BY <2>1, <2>5
    <3>3. OpenKnows(f, h, db)
      <4>1. CASE Len(g) = 4
        BY <3>1, <3>2, <4>1 DEF OpenKnows, OpenRow, owner
      <4>2. CASE Len(g) = 5
        BY <3>1, <3>2, <4>2 DEF OpenKnows, OpenRow, owner
      <4>3. QED
        BY <2>5, <4>1, <4>2
    <3>4. QED
      BY <2>2, <3>1, <3>3 DEF h
  <2>6. CASE Len(g) = 6 /\ g[6] # NoUser
    <3>a. r = Ask("GET_GROUP_ID_INDEX", members)
      BY <2>6 DEF OpenRequest, members
    <3>0. r.op = "GET_GROUP_ID_INDEX" /\ r.args = members
      BY <3>a, AskFields
    <3>1. new = db /\ val = members
      BY <3>0, <1>5 DEF Serving
    <3>2. Len(h) = 7 /\ h[3] = g[3] /\ h[4] = g[4] /\ h[5] = g[5] /\ h[6] = g[6] /\ h[7] = val
      BY <2>1, <2>6
    <3>3. OpenKnows(f, h, db)
      BY <2>6, <3>1, <3>2 DEF OpenKnows, OpenRow, members
    <3>4. QED
      BY <2>2, <3>1, <3>3 DEF h
  <2>7. CASE Len(g) = 7 /\ g[6] # NoUser
    <3>a. r = Ask("GET_MEMBERS_FROM_GROUP_ID", g[7])
      BY <2>7 DEF OpenRequest
    <3>0. r.op = "GET_MEMBERS_FROM_GROUP_ID" /\ r.args = members
      BY <2>7, <3>a, AskFields DEF OpenKnows, members
    <3>1. new = db /\ val = members
      BY <3>0, <1>5 DEF Serving
    <3>2. /\ Len(h) = 8 /\ h[3] = g[3] /\ h[4] = g[4] /\ h[5] = g[5] /\ h[6] = g[6]
          /\ h[7] = g[7] /\ h[8] = val
      BY <2>1, <2>7
    <3>3. OpenKnows(f, h, db)
      BY <2>7, <3>1, <3>2 DEF OpenKnows, OpenRow, members
    <3>4. QED
      BY <2>2, <3>1, <3>3 DEF h
  <2>8. CASE Len(g) = 8 /\ g[6] # NoUser
    <3>a. r = Ask("GET_NUMBER_OF_USERS", <<>>)
      BY <2>8 DEF OpenRequest
    <3>0. r.op = "GET_NUMBER_OF_USERS"
      BY <3>a, AskFields
    <3>1. new = db
      BY <3>0, <1>5 DEF Serving
    <3>2. /\ Len(h) = 9 /\ h[3] = g[3] /\ h[4] = g[4] /\ h[5] = g[5] /\ h[6] = g[6]
          /\ h[7] = g[7] /\ h[8] = g[8]
      BY <2>1, <2>8
    <3>3. OpenKnows(f, h, db)
      BY <2>8, <3>2 DEF OpenKnows, OpenRow
    <3>4. QED
      BY <2>2, <3>1, <3>3 DEF h
  <2>9. CASE (Len(g) = 9 /\ g[6] # NoUser) \/ (Len(g) = 6 /\ g[6] = NoUser)
    <3>i. PICK i : i = g[4]
      OBVIOUS
    <3>k. PICK row : row = RE!InferredObject(f)
      OBVIOUS
    <3>1. g[3] = 0 /\ g[4] = ObjectIndex(db, f) /\ g[4] # 0
      BY <2>9 DEF OpenKnows
    <3>2. OpenedRow(f, g) = row
      <4>1. g[5] = FileStat[f].uid /\ g[6] = FileStat[f].uid
        BY <2>9 DEF OpenKnows
      <4>2. Len(g) = 9 => g[8] = FileStat[f].members
        BY DEF OpenKnows
      <4>3. QED
        BY <2>9, <3>k, <4>1, <4>2, OpenedRowInferred
    <3>a. r = Ask("ADD_OBJECT", <<i, row>>)
      BY <2>9, <3>2, <3>i DEF OpenRequest
    <3>0. r.op = "ADD_OBJECT" /\ r.args[1] = i /\ r.args[2] = row
      BY <3>a, AskFields
    <3>3. new = WithObjects(db, AddAt(db.objs, i, row))
      BY <3>0, <1>5 DEF Serving
    <3>4. i \in DOMAIN db.oids /\ db.oids[i] = OId(f) /\ row \in RowType
      BY <1>3, <2>9, <3>i, <3>k, InferredRowType
    <3>5. DBOK(new) /\ SView(new) = SView(db)
      BY <3>3, <3>4, AddObjectView
    <3>6. OView(new) = RE!AddRow(OView(db), f, row)
      BY <3>3, <3>4, AddObjectView
    <3>7. \A k : k \in Complete(new.oids, new.objs) <=>
                 k \in Complete(db.oids, db.objs) \/ k = i
      BY <3>3, <3>4, AddObjectView
    <3>8. new.sids = db.sids /\ new.subs = db.subs /\ new.oids = db.oids
      BY <3>3 DEF WithObjects
    <3>9. /\ Len(h) = Len(g) + 1 /\ h[3] = g[3] /\ h[4] = g[4] /\ h[5] = g[5] /\ h[6] = g[6]
          /\ Len(g) = 9 => h[7] = g[7] /\ h[8] = g[8]
      BY <2>1, <2>9
    <3>10. f \in Objects(new)
      BY <3>6 DEF RE!AddRow, Objects
    <3>11. \A k \in DOMAIN new.oids : k \in Complete(new.oids, new.objs)
      BY <3>7, <3>8, <3>i DEF OpenKnows
    <3>12. ObjectIndex(new, f) = g[4] /\ SubjectsWhole(new)
      BY <3>1, <3>8 DEF ObjectIndex, OpenKnows, SubjectsWhole
    <3>13. OpenKnows(f, h, new)
      <4>1. CASE Len(g) = 6 /\ g[6] = NoUser
        BY <3>1, <3>9, <3>10, <3>11, <3>12, <4>1 DEF OpenKnows, OpenRow
      <4>2. CASE Len(g) = 9 /\ g[6] # NoUser
        BY <3>1, <3>9, <3>10, <3>11, <3>12, <4>2 DEF OpenKnows, OpenRow
      <4>3. QED
        BY <2>9, <4>1, <4>2
    <3>14. Opens(f, db, new)
      BY <3>5, <3>6, <3>k DEF Opens
    <3>15. QED
      BY <3>5, <3>13, <3>14 DEF h
  <2>10. QED
    BY <1>2, <2>3, <2>4, <2>5, <2>6, <2>7, <2>8, <2>9
<1>6. QED
  BY <1>4, <1>5

\* What a row says once it has been raised.
LEMMA RaisedRow ==
  ASSUME NEW row \in RowType, NEW l \in RowType
  PROVE  /\ Raise(row, l) \in RowType /\ Raise(row, l).owner = row.owner
         /\ Raise(row, l).readers = row.readers \cap l.readers
         /\ Raise(row, l).writers = row.writers \cup l.writers
         /\ FlowsTo(l, Raise(row, l))
BY DEF RowType, Raise, FlowsTo, UserSet

\* The questions of file_read_check and file_write_check.
LEMMA FileStep ==
  ASSUME NEW db, DBOK(db), NEW s \in Users \X Pids, NEW f \in Files,
         NEW g, IsSeq(g), Len(g) \in 2..5, g[2] = Host, FileKnows(s, f, g, db),
         NEW r, r = FileRequest(s, f, g), r # Done
  PROVE  /\ Stopping(r.op, r.args, db) => f \in Objects(db) /\ s \notin Subjects(db)
         /\ \A val, new : Serving(r.op, r.args, val, db, new) =>
                            new = db /\ FileKnows(s, f, Append(g, val), db)
<1>1. s = <<s[1], s[2]>> /\ SId(s) = <<Host, s[1], s[2]>> /\ OId(f) = <<Host, f>>
  BY DEF SId, OId
<1>2. \/ Len(g) = 2 \/ Len(g) = 3 \/ Len(g) = 5 \/ (Len(g) = 4 /\ g[4] # 0)
  <2>1. Len(g) = 2 \/ Len(g) = 3 \/ Len(g) = 4 \/ Len(g) = 5
    OBVIOUS
  <2>2. Len(g) = 4 /\ g[4] = 0 => FALSE
    BY DEF FileRequest
  <2>3. QED
    BY <2>1, <2>2
<1>3. SubjectIndex(db, s) # 0 =>
        /\ s \in Subjects(db) /\ RowAt(db.subs, SubjectIndex(db, s)) # 0
        /\ Fields(db.subs[RowAt(db.subs, SubjectIndex(db, s))]) = SView(db)[s]
  BY <1>1, SubjectFetched DEF FileKnows, Whole, SubjectsWhole
<1>4. SubjectIndex(db, s) = 0 => s \notin Subjects(db) /\ RowAt(db.subs, SubjectIndex(db, s)) = 0
  BY <1>1, SubjectFetched
<1>5. ObjectIndex(db, f) # 0 =>
        /\ f \in Objects(db) /\ RowAt(db.objs, ObjectIndex(db, f)) # 0
        /\ Fields(db.objs[RowAt(db.objs, ObjectIndex(db, f))]) = OView(db)[f]
  BY ObjectFetched DEF FileKnows, Whole, ObjectsWhole
<1>6. ASSUME NEW val, NEW new
      PROVE  /\ Stopping(r.op, r.args, db) => f \in Objects(db) /\ s \notin Subjects(db)
             /\ Serving(r.op, r.args, val, db, new) =>
                  new = db /\ FileKnows(s, f, Append(g, val), db)
  <2> DEFINE h == Append(g, val)
  <2>1. /\ Len(g) \in Nat /\ Len(h) = Len(g) + 1 /\ h[Len(g) + 1] = val
        /\ \A i \in 1..Len(g) : h[i] = g[i]
    BY AppendFacts
  <2> HIDE DEF h
  <2>2. CASE Len(g) = 2
    <3>a. r = Ask("GET_SUBJECT_ID_INDEX", <<g[2], s[1], s[2]>>)
      BY <2>2 DEF FileRequest
    <3>0. r.op = "GET_SUBJECT_ID_INDEX" /\ r.args = SId(s)
      BY <1>1, <3>a, AskFields
    <3>1. ~Stopping(r.op, r.args, db)
      BY <3>0 DEF Stopping
    <3>2. Serving(r.op, r.args, val, db, new) => new = db /\ val = SubjectIndex(db, s)
      BY <3>0 DEF Serving, SubjectIndex
    <3>3. Len(h) = 3 /\ h[3] = val
      BY <2>1, <2>2
    <3>4. val = SubjectIndex(db, s) => FileKnows(s, f, h, db)
      BY <3>3 DEF FileKnows
    <3>5. QED
      BY <3>1, <3>2, <3>4 DEF h
  <2>3. CASE Len(g) = 3
    <3>a. r = Ask("GET_OBJECT_ID_INDEX", <<g[2], f>>)
      BY <2>3 DEF FileRequest
    <3>0. r.op = "GET_OBJECT_ID_INDEX" /\ r.args = OId(f)
      BY <1>1, <3>a, AskFields
    <3>1. ~Stopping(r.op, r.args, db)
      BY <3>0 DEF Stopping
    <3>2. Serving(r.op, r.args, val, db, new) => new = db /\ val = ObjectIndex(db, f)
      BY <3>0 DEF Serving, ObjectIndex
    <3>3. Len(h) = 4 /\ h[3] = g[3] /\ h[4] = val
      BY <2>1, <2>3
    <3>4. val = ObjectIndex(db, f) => FileKnows(s, f, h, db)
      BY <2>3, <3>3 DEF FileKnows
    <3>5. QED
      BY <3>1, <3>2, <3>4 DEF h
  <2>4. CASE Len(g) = 4 /\ g[4] # 0
    <3>a. r = Ask("GET_SUBJECT", g[3])
      BY <2>4 DEF FileRequest
    <3>b. g[3] = SubjectIndex(db, s) /\ g[4] = ObjectIndex(db, f)
      BY <2>4 DEF FileKnows
    <3>0. r.op = "GET_SUBJECT" /\ r.args = SubjectIndex(db, s)
      BY <3>a, <3>b, AskFields
    <3>1. Stopping(r.op, r.args, db) => f \in Objects(db) /\ s \notin Subjects(db)
      BY <1>3, <1>4, <1>5, <2>4, <3>0, <3>b DEF Stopping
    <3>2. Serving(r.op, r.args, val, db, new) =>
            new = db /\ SubjectIndex(db, s) # 0 /\ val = SView(db)[s]
      <4>1. Serving(r.op, r.args, val, db, new) =>
              /\ new = db /\ RowAt(db.subs, SubjectIndex(db, s)) # 0
              /\ val = Fields(db.subs[RowAt(db.subs, SubjectIndex(db, s))])
        BY <3>0 DEF Serving
      <4>2. QED
        BY <1>3, <1>4, <4>1
    <3>3. Len(h) = 5 /\ h[3] = g[3] /\ h[4] = g[4] /\ h[5] = val
      BY <2>1, <2>4
    <3>4. SubjectIndex(db, s) # 0 /\ val = SView(db)[s] => FileKnows(s, f, h, db)
      BY <1>3, <1>5, <2>4, <3>b, <3>3 DEF FileKnows
    <3>5. QED
      BY <3>1, <3>2, <3>4 DEF h
  <2>5. CASE Len(g) = 5
    <3>a. r = Ask("GET_OBJECT", g[4])
      BY <2>5 DEF FileRequest
    <3>b. /\ g[3] = SubjectIndex(db, s) /\ g[4] = ObjectIndex(db, f) /\ g[4] # 0
          /\ s \in Subjects(db) /\ f \in Objects(db) /\ g[5] = SView(db)[s]
      BY <2>5 DEF FileKnows
    <3>0. r.op = "GET_OBJECT" /\ r.args = ObjectIndex(db, f)
      BY <3>a, <3>b, AskFields
    <3>1. ~Stopping(r.op, r.args, db)
      BY <1>5, <3>0, <3>b DEF Stopping
    <3>2. Serving(r.op, r.args, val, db, new) => new = db /\ val = OView(db)[f]
      <4>1. Serving(r.op, r.args, val, db, new) =>
              new = db /\ val = Fields(db.objs[RowAt(db.objs, ObjectIndex(db, f))])
        BY <3>0 DEF Serving
      <4>2. QED
        BY <1>5, <3>b, <4>1
    <3>3. Len(h) = 6 /\ h[3] = g[3] /\ h[4] = g[4] /\ h[5] = g[5] /\ h[6] = val
      BY <2>1, <2>5
    <3>4. val = OView(db)[f] => FileKnows(s, f, h, db)
      BY <2>5, <3>b, <3>3 DEF FileKnows
    <3>5. QED
      BY <3>1, <3>2, <3>4 DEF h
  <2>6. QED
    BY <1>2, <2>2, <2>3, <2>4, <2>5
<1>7. QED
  BY <1>6

LEMMA WriteStep ==
  ASSUME NEW db, DBOK(db), NEW s \in Users \X Pids, NEW f \in Files,
         NEW g, IsSeq(g), Len(g) >= 2, g[2] = Host, WriteKnows(s, f, g, db),
         NEW r, r = FileRequest(s, f, g), r # Done
  PROVE  /\ Stopping(r.op, r.args, db) => f \in Objects(db) /\ s \notin Subjects(db)
         /\ \A val, new : Serving(r.op, r.args, val, db, new) =>
                            new = db /\ WriteKnows(s, f, Append(g, val), db)
<1>1. Len(g) \in 2..5 /\ FileKnows(s, f, g, db)
  <2>1. Len(g) <= 6 /\ FileKnows(s, f, g, db)
    BY DEF WriteKnows
  <2>2. Len(g) \in Nat
    BY LenProperties DEF IsSeq
  <2>3. Len(g) = 6 => FALSE
    BY DEF FileRequest
  <2>4. \A n \in Nat : n >= 2 /\ n <= 6 /\ n # 6 => n \in 2..5
    OBVIOUS
  <2>5. QED
    BY <2>1, <2>2, <2>3, <2>4
<1>2. ASSUME NEW val
      PROVE  Len(Append(g, val)) <= 6
  <2>1. PICK n \in 2..5 : n = Len(g)
    BY <1>1
  <2>2. Len(Append(g, val)) = n + 1
    BY <2>1, AppendFacts
  <2>3. QED
    BY <2>2
<1>3. Stopping(r.op, r.args, db) => f \in Objects(db) /\ s \notin Subjects(db)
  BY <1>1, FileStep
<1>4. ASSUME NEW val, NEW new, Serving(r.op, r.args, val, db, new)
      PROVE  new = db /\ FileKnows(s, f, Append(g, val), db)
  BY <1>1, <1>4, FileStep
<1>5. QED
  BY <1>2, <1>3, <1>4 DEF WriteKnows

LEMMA ReadStep ==
  ASSUME NEW db, DBOK(db), NEW s \in Users \X Pids, NEW f \in Files,
         NEW g, IsSeq(g), Len(g) >= 2, g[2] = Host, ReadKnows(s, f, g, db),
         NEW r, r = ReadRequest(s, f, g), r # Done
  PROVE  /\ Stopping(r.op, r.args, db) => f \in Objects(db) /\ s \notin Subjects(db)
         /\ \A val, new : Serving(r.op, r.args, val, db, new) =>
              /\ DBOK(new) /\ ReadKnows(s, f, Append(g, val), new)
              /\ SameViews(db, new) \/ Reads(s, f, db, new)
<1>1. FileKnows(s, f, g, db) /\ Len(g) <= 7
  BY DEF ReadKnows
<1>2. \/ Len(g) \in 2..5 /\ r = FileRequest(s, f, g)
      \/ Len(g) = 6 /\ g[5].owner \in g[6].readers
  <2>1. Len(g) \in Nat
    BY LenProperties DEF IsSeq
  <2>2. Len(g) # 6 => r = FileRequest(s, f, g)
    BY DEF ReadRequest
  <2>3. Len(g) # 7
    BY SMTT(30), <2>2 DEF FileRequest
  <2>4. Len(g) = 6 => g[5].owner \in g[6].readers
    BY DEF ReadRequest, FileRequest
  <2>5. \A n \in Nat : n >= 2 /\ n <= 7 /\ n # 7 => n \in 2..5 \/ n = 6
    OBVIOUS
  <2>6. Len(g) \in 2..5 => Len(g) # 6
    BY SMTT(30)
  <2>7. QED
    BY <1>1, <2>1, <2>2, <2>3, <2>4, <2>5, <2>6
<1>3. CASE Len(g) \in 2..5 /\ r = FileRequest(s, f, g)
  <2>1. Stopping(r.op, r.args, db) => f \in Objects(db) /\ s \notin Subjects(db)
    BY <1>1, <1>3, FileStep
  <2>2. ASSUME NEW val, NEW new, Serving(r.op, r.args, val, db, new)
        PROVE  new = db /\ FileKnows(s, f, Append(g, val), db)
    BY <1>1, <1>3, <2>2, FileStep
  <2>3. ASSUME NEW val
        PROVE  Len(Append(g, val)) <= 7 /\ Len(Append(g, val)) # 7
    <3>1. PICK n \in 2..5 : n = Len(g)
      BY <1>3
    <3>2. Len(Append(g, val)) = n + 1
      BY <3>1, AppendFacts
    <3>3. QED
      BY <3>2
  <2>4. QED
    BY <2>1, <2>2, <2>3 DEF ReadKnows, SameViews
<1>4. CASE Len(g) = 6 /\ g[5].owner \in g[6].readers
  <2>i. PICK i : i = g[3]
    OBVIOUS
  <2>k. PICK row : row = Raise(g[5], g[6])
    OBVIOUS
  <2>a. r = Ask("UPDATE_SUBJECT_LABEL", <<i, row>>)
    BY <1>4, <2>i, <2>k DEF ReadRequest
  <2>0. r.op = "UPDATE_SUBJECT_LABEL" /\ r.args[1] = i /\ r.args[2] = row
    BY <2>a, AskFields
  <2>1. ~Stopping(r.op, r.args, db)
    BY <2>0 DEF Stopping
  <2>2. /\ i = SubjectIndex(db, s) /\ g[3] = i /\ g[4] = ObjectIndex(db, f) /\ g[4] # 0
        /\ s \in Subjects(db) /\ f \in Objects(db)
        /\ g[5] = SView(db)[s] /\ g[6] = OView(db)[f] /\ Whole(db)
    BY <1>1, <1>4, <2>i DEF FileKnows
  <2>3. SView(db)[s] \in RowType /\ OView(db)[f] \in RowType
    BY <2>2, ViewFacts DEF Subjects, Objects
  <2>4. /\ row \in RowType /\ row.owner = SView(db)[s].owner /\ FlowsTo(OView(db)[f], row)
        /\ row = Raise(SView(db)[s], OView(db)[f])
    BY <2>2, <2>3, <2>k, RaisedRow
  <2>5. ASSUME NEW val, NEW new, Serving(r.op, r.args, val, db, new)
        PROVE  /\ DBOK(new) /\ ReadKnows(s, f, Append(g, val), new)
               /\ Reads(s, f, db, new)
    <3> DEFINE h == Append(g, val)
    <3>1. new = WithSubjects(db, Relabel(db.subs, RowAt(db.subs, IndexOf(db.sids, SId(s))), row))
      BY <2>0, <2>2, <2>5 DEF Serving, SubjectIndex
    <3>2. DBOK(new) /\ OView(new) = OView(db)
      BY <2>2, <2>4, <3>1, UpdateView DEF Subjects
    <3>3. SView(new) = [SView(db) EXCEPT ![s] = row]
      BY <2>2, <2>4, <3>1, UpdateView DEF Subjects
    <3>4. SubjectsWhole(new)
      BY <2>2, <2>4, <3>1, UpdateView DEF Subjects, Whole
    <3>5. new.sids = db.sids /\ new.oids = db.oids /\ new.objs = db.objs
      BY <3>1 DEF WithSubjects
    <3>6. /\ Len(h) = 7 /\ h[3] = g[3] /\ h[4] = g[4] /\ h[6] = g[6]
      <4>1. Len(h) = Len(g) + 1 /\ \A n \in 1..Len(g) : h[n] = g[n]
        BY AppendFacts
      <4> HIDE DEF h
      <4>2. QED
        BY <1>4, <4>1
    <3>7. s \in Subjects(new) /\ f \in Objects(new) /\ SView(new)[s] = row
      BY <2>2, <3>2, <3>3 DEF Subjects, Objects
    <3>8. Whole(new)
      BY <2>2, <3>4, <3>5 DEF Whole, ObjectsWhole
    <3>9. SubjectIndex(new, s) = g[3] /\ ObjectIndex(new, f) = g[4]
      BY <2>2, <3>5 DEF SubjectIndex, ObjectIndex
    <3> HIDE DEF h
    <3>10. FileKnows(s, f, h, new)
      BY <2>2, <3>2, <3>6, <3>7, <3>8, <3>9 DEF FileKnows
    <3>11. SView(new)[s].owner \in OView(new)[f].readers /\ FlowsTo(OView(new)[f], SView(new)[s])
      BY <1>4, <2>2, <2>4, <3>2, <3>7
    <3>12. ReadKnows(s, f, h, new)
      BY <3>6, <3>10, <3>11 DEF ReadKnows
    <3>13. Reads(s, f, db, new)
      BY <1>4, <2>2, <2>4, <3>2, <3>3 DEF Reads, Subjects
    <3>14. QED
      BY <3>2, <3>12, <3>13 DEF h
  <2>6. QED
    BY <2>1, <2>5
<1>5. QED
  BY <1>2, <1>3, <1>4

\* kill_check
LEMMA KillStep ==
  ASSUME NEW db, DBOK(db), NEW s \in Users \X Pids, NEW t \in Users \X Pids,
         NEW g, IsSeq(g), Len(g) >= 2, g[2] = Host, KillKnows(s, t, g, db),
         NEW r, r = KillRequest(s, t, g), r # Done
  PROVE  /\ Stopping(r.op, r.args, db) => ~(s \in Subjects(db) /\ t \in Subjects(db))
         /\ \A val, new : Serving(r.op, r.args, val, db, new) =>
              /\ DBOK(new) /\ KillKnows(s, t, Append(g, val), new)
              /\ SameViews(db, new) \/ Kills(s, t, db, new)
<1>1. /\ SId(s) = <<Host, s[1], s[2]>> /\ SId(t) = <<Host, t[1], t[2]>>
      /\ s = <<s[1], s[2]>> /\ t = <<t[1], t[2]>>
  BY DEF SId
<1>2. \/ Len(g) = 2 \/ Len(g) = 3 \/ Len(g) = 4 \/ Len(g) = 5
      \/ (Len(g) = 6 /\ g[6].owner \in g[4].readers)
  <2>1. Len(g) \in Nat /\ Len(g) <= 7
    <3>1. Len(g) \in Nat
      BY LenProperties DEF IsSeq
    <3>2. QED
      BY <3>1 DEF KillKnows
  <2>2. Len(g) = 7 => FALSE
    BY DEF KillRequest
  <2>3. Len(g) = 6 => g[6].owner \in g[4].readers
    BY DEF KillRequest
  <2>4. \A n \in Nat : n >= 2 /\ n <= 7 /\ n # 7 => n = 2 \/ n = 3 \/ n = 4 \/ n = 5 \/ n = 6
    OBVIOUS
  <2>5. QED
    BY <2>1, <2>2, <2>3, <2>4
<1>3. ASSUME NEW u, u = <<u[1], u[2]>>
      PROVE  /\ SubjectIndex(db, u) # 0 =>
                  /\ u \in Subjects(db) /\ RowAt(db.subs, SubjectIndex(db, u)) # 0
                  /\ Fields(db.subs[RowAt(db.subs, SubjectIndex(db, u))]) = SView(db)[u]
             /\ SubjectIndex(db, u) = 0 =>
                  u \notin Subjects(db) /\ RowAt(db.subs, SubjectIndex(db, u)) = 0
  BY <1>3, SubjectFetched DEF KillKnows, Whole, SubjectsWhole
\* get_subject of the index of u
<1>4. ASSUME NEW u, u = <<u[1], u[2]>>, r.op = "GET_SUBJECT", r.args = SubjectIndex(db, u)
      PROVE  /\ Stopping(r.op, r.args, db) => u \notin Subjects(db)
             /\ \A val, new : Serving(r.op, r.args, val, db, new) =>
                                new = db /\ u \in Subjects(db) /\ val = SView(db)[u]
  <2>1. Stopping(r.op, r.args, db) => RowAt(db.subs, SubjectIndex(db, u)) = 0
    BY <1>4 DEF Stopping
  <2>2. ASSUME NEW val, NEW new, Serving(r.op, r.args, val, db, new)
        PROVE  /\ new = db /\ RowAt(db.subs, SubjectIndex(db, u)) # 0
               /\ val = Fields(db.subs[RowAt(db.subs, SubjectIndex(db, u))])
    BY <1>4, <2>2 DEF Serving
  <2>3. /\ SubjectIndex(db, u) # 0 =>
             /\ u \in Subjects(db) /\ RowAt(db.subs, SubjectIndex(db, u)) # 0
             /\ Fields(db.subs[RowAt(db.subs, SubjectIndex(db, u))]) = SView(db)[u]
        /\ SubjectIndex(db, u) = 0 =>
             u \notin Subjects(db) /\ RowAt(db.subs, SubjectIndex(db, u)) = 0
    BY <1>3, <1>4
  <2>4. QED
    BY <2>1, <2>2, <2>3
<1>5. ASSUME NEW val, NEW new
      PROVE  /\ Stopping(r.op, r.args, db) => ~(s \in Subjects(db) /\ t \in Subjects(db))
             /\ Serving(r.op, r.args, val, db, new) =>
                  /\ DBOK(new) /\ KillKnows(s, t, Append(g, val), new)
                  /\ SameViews(db, new) \/ Kills(s, t, db, new)
  <2> DEFINE h == Append(g, val)
  <2>1. /\ Len(g) \in Nat /\ Len(h) = Len(g) + 1 /\ h[Len(g) + 1] = val
        /\ \A i \in 1..Len(g) : h[i] = g[i]
    BY AppendFacts
  <2>2. new = db => DBOK(new) /\ SameViews(db, new)
    BY DEF SameViews
  <2> HIDE DEF h
  <2>3. CASE Len(g) = 2
    <3>a. r = Ask("GET_SUBJECT_ID_INDEX", <<g[2], s[1], s[2]>>)
      BY <2>3 DEF KillRequest
    <3>0. r.op = "GET_SUBJECT_ID_INDEX" /\ r.args = SId(s)
      BY <1>1, <3>a, AskFields
    <3>1. ~Stopping(r.op, r.args, db)
      BY <3>0 DEF Stopping
    <3>2. Serving(r.op, r.args, val, db, new) => new = db /\ val = SubjectIndex(db, s)
      BY <3>0 DEF Serving, SubjectIndex
    <3>3. Len(h) = 3 /\ h[3] = val
      BY <2>1, <2>3
    <3>4. val = SubjectIndex(db, s) => KillKnows(s, t, h, db)
      BY <3>3 DEF KillKnows
    <3>5. QED
      BY <2>2, <3>1, <3>2, <3>4 DEF h
  <2>4. CASE Len(g) = 3
    <3>a. r = Ask("GET_SUBJECT", g[3])
      BY <2>4 DEF KillRequest
    <3>b. g[3] = SubjectIndex(db, s)
      BY <2>4 DEF KillKnows
    <3>0. r.op = "GET_SUBJECT" /\ r.args = SubjectIndex(db, s)
      BY <3>a, <3>b, AskFields
    <3>1. Stopping(r.op, r.args, db) => s \notin Subjects(db)
      BY <1>1, <1>4, <3>0
    <3>2. Serving(r.op, r.args, val, db, new) =>
            new = db /\ s \in Subjects(db) /\ val = SView(db)[s]
      BY <1>1, <1>4, <3>0
    <3>3. Len(h) = 4 /\ h[3] = g[3] /\ h[4] = val
      BY <2>1, <2>4
    <3>4. s \in Subjects(db) /\ val = SView(db)[s] => KillKnows(s, t, h, db)
      BY <2>4, <3>3, <3>b DEF KillKnows
    <3>5. QED
      BY <2>2, <3>1, <3>2, <3>4 DEF h
  <2>5. CASE Len(g) = 4
    <3>a. r = Ask("GET_SUBJECT_ID_INDEX", <<g[2], t[1], t[2]>>)
      BY <2>5 DEF KillRequest
    <3>0. r.op = "GET_SUBJECT_ID_INDEX" /\ r.args = SId(t)
      BY <1>1, <3>a, AskFields
    <3>1. ~Stopping(r.op, r.args, db)
      BY <3>0 DEF Stopping
    <3>2. Serving(r.op, r.args, val, db, new) => new = db /\ val = SubjectIndex(db, t)
      BY <3>0 DEF Serving, SubjectIndex
    <3>3. Len(h) = 5 /\ h[3] = g[3] /\ h[4] = g[4] /\ h[5] = val
      BY <2>1, <2>5
    <3>4. val = SubjectIndex(db, t) => KillKnows(s, t, h, db)
      BY <2>5, <3>3 DEF KillKnows
    <3>5. QED
      BY <2>2, <3>1, <3>2, <3>4 DEF h
  <2>6. CASE Len(g) = 5
    <3>a. r = Ask("GET_SUBJECT", g[5])
      BY <2>6 DEF KillRequest
    <3>b. g[5] = SubjectIndex(db, t)
      BY <2>6 DEF KillKnows
    <3>0. r.op = "GET_SUBJECT" /\ r.args = SubjectIndex(db, t)
      BY <3>a, <3>b, AskFields
    <3>1. Stopping(r.op, r.args, db) => t \notin Subjects(db)
      BY <1>1, <1>4, <3>0
    <3>2. Serving(r.op, r.args, val, db, new) =>
            new = db /\ t \in Subjects(db) /\ val = SView(db)[t]
      BY <1>1, <1>4, <3>0
    <3>3. Len(h) = 6 /\ h[3] = g[3] /\ h[4] = g[4] /\ h[5] = g[5] /\ h[6] = val
      BY <2>1, <2>6
    <3>4. t \in Subjects(db) /\ val = SView(db)[t] => KillKnows(s, t, h, db)
      BY <2>6, <3>3, <3>b DEF KillKnows
    <3>5. QED
      BY <2>2, <3>1, <3>2, <3>4 DEF h
  <2>7. CASE Len(g) = 6 /\ g[6].owner \in g[4].readers
    <3>i. PICK i : i = g[5]
      OBVIOUS
    <3>k. PICK row : row = Raise(g[6], g[4])
      OBVIOUS
    <3>a. r = Ask("UPDATE_SUBJECT_LABEL", <<i, row>>)
      BY <2>7, <3>i, <3>k DEF KillRequest
    <3>0. r.op = "UPDATE_SUBJECT_LABEL" /\ r.args[1] = i /\ r.args[2] = row
      BY <3>a, AskFields
    <3>1. ~Stopping(r.op, r.args, db)
      BY <3>0 DEF Stopping
    <3>2. /\ g[3] = SubjectIndex(db, s) /\ i = SubjectIndex(db, t) /\ g[5] = i
          /\ s \in Subjects(db) /\ t \in Subjects(db)
          /\ g[4] = SView(db)[s] /\ g[6] = SView(db)[t] /\ Whole(db)
      BY <2>7, <3>i DEF KillKnows
    <3>3. SView(db)[s] \in RowType /\ SView(db)[t] \in RowType
      BY <3>2, ViewFacts DEF Subjects
    <3>4. /\ row \in RowType /\ row.owner = SView(db)[t].owner /\ FlowsTo(SView(db)[s], row)
          /\ row.readers = SView(db)[t].readers \cap SView(db)[s].readers
          /\ row.writers = SView(db)[t].writers \cup SView(db)[s].writers
          /\ row = Raise(SView(db)[t], SView(db)[s])
      BY <3>2, <3>3, <3>k, RaisedRow
    <3>5. ASSUME Serving(r.op, r.args, val, db, new)
          PROVE  DBOK(new) /\ KillKnows(s, t, h, new) /\ Kills(s, t, db, new)
      <4>1. new = WithSubjects(db, Relabel(db.subs, RowAt(db.subs, IndexOf(db.sids, SId(t))), row))
        BY <3>0, <3>2, <3>5 DEF Serving, SubjectIndex
      <4>2. DBOK(new) /\ OView(new) = OView(db)
        BY <3>2, <3>4, <4>1, UpdateView DEF Subjects
      <4>3. SView(new) = [SView(db) EXCEPT ![t] = row]
        BY <3>2, <3>4, <4>1, UpdateView DEF Subjects
      <4>4. SubjectsWhole(new)
        BY <3>2, <3>4, <4>1, UpdateView DEF Subjects, Whole
      <4>5. new.sids = db.sids /\ new.oids = db.oids /\ new.objs = db.objs
        BY <4>1 DEF WithSubjects
      <4>6. Len(h) = 7 /\ h[3] = g[3] /\ h[5] = g[5]
        BY <2>1, <2>7
      <4>7. /\ s \in Subjects(new) /\ t \in Subjects(new) /\ SView(new)[t] = row
            /\ s # t => SView(new)[s] = SView(db)[s]
        BY <3>2, <4>3 DEF Subjects
      <4>8. Whole(new)
        BY <3>2, <4>4, <4>5 DEF Whole, ObjectsWhole
      <4>9. SubjectIndex(new, s) = g[3] /\ SubjectIndex(new, t) = g[5]
        BY <3>2, <4>5 DEF SubjectIndex
      <4>10. SView(new)[t].owner \in SView(new)[s].readers /\ FlowsTo(SView(new)[s], SView(new)[t])
        <5>1. CASE s = t
          BY <2>7, <3>2, <3>4, <4>7, <5>1 DEF FlowsTo
        <5>2. CASE s # t
          BY <2>7, <3>2, <3>4, <4>7, <5>2
        <5>3. QED
          BY <5>1, <5>2
      <4>11. KillKnows(s, t, h, new)
        BY <4>6, <4>7, <4>8, <4>9, <4>10 DEF KillKnows
      <4>12. Kills(s, t, db, new)
        BY <2>7, <3>2, <3>4, <4>2, <4>3 DEF Kills, Subjects
      <4>13. QED
        BY <4>2, <4>11, <4>12
    <3>6. QED
      BY <3>1, <3>5 DEF h
  <2>8. QED
    BY <1>2, <2>3, <2>4, <2>5, <2>6, <2>7
<1>6. QED
  BY <1>5

(***************************************************************************)
(* One more answer, for any check.  The request is none of a check that    *)
(* has not got the lock, and where it stops the server RuleEngine does.    *)
(***************************************************************************)
LEMMA RequestStep ==
  ASSUME NEW db, DBOK(db), NEW j, JobOK(j), NEW g, Knows(j, g, db),
         NEW r, r = Request(j, g), r # Done
  PROVE  /\ r.op # "IS_RWFM_ENABLED"
         /\ Stopping(r.op, r.args, db) => Stops(j, db)
         /\ \A val, new : Serving(r.op, r.args, val, db, new) =>
              /\ DBOK(new) /\ Knows(j, Append(g, val), new)
              /\ SameViews(db, new) \/ Checks(j, db, new)
<1>1. IsSeq(g) /\ Len(g) \in Nat /\ Len(g) >= 1
  BY LenProperties DEF Knows, IsSeq
<1>2. ASSUME NEW val
      PROVE  /\ IsSeq(Append(g, val)) /\ Len(Append(g, val)) = Len(g) + 1
             /\ Len(g) = 1 => Append(g, val)[2] = val
             /\ Len(g) >= 2 => Append(g, val)[2] = g[2]
  <2> DEFINE h == Append(g, val)
  <2>1. /\ IsSeq(h) /\ Len(h) = Len(g) + 1 /\ h[Len(g) + 1] = val
        /\ \A i \in 1..Len(g) : h[i] = g[i]
    BY <1>1, AppendFacts
  <2>2. \A n \in Nat : n >= 2 => 2 \in 1..n
    OBVIOUS
  <2>3. Len(g) >= 2 => 2 \in 1..Len(g)
    BY <1>1, <2>2
  <2> HIDE DEF h
  <2>4. Len(g) = 1 => h[2] = val
    BY <2>1
  <2>5. QED
    BY <2>1, <2>3, <2>4 DEF h
<1>3. CASE Len(g) = 1
  <2>1. r = Ask("GET_HOST_INDEX", <<>>)
    BY <1>3 DEF Request
  <2>2. r.op = "GET_HOST_INDEX"
    BY <2>1, AskFields
  <2>3. ASSUME NEW val, NEW new, Serving(r.op, r.args, val, db, new)
        PROVE  DBOK(new) /\ Knows(j, Append(g, val), new) /\ SameViews(db, new)
    <3> DEFINE h == Append(g, val)
    <3>1. new = db /\ val = Host
      BY <2>2, <2>3 DEF Serving
    <3>2. IsSeq(h) /\ Len(h) = 2 /\ h[2] = Host
      BY <1>2, <1>3, <3>1
    <3> HIDE DEF h
    <3>3. j.check = "fork" => ForkKnows(j.self, <<j.self[1], j.about>>, h, db)
      BY <1>3, <3>2 DEF Knows, ForkKnows, ForkRow
    <3>4. j.check = "open" => OpenKnows(j.about, h, db)
      BY <1>3, <3>2 DEF Knows, OpenKnows, OpenRow
    <3>5. j.check = "read" => ReadKnows(j.self, j.about, h, db)
      BY <1>3, <3>2 DEF Knows, ReadKnows, FileKnows
    <3>6. j.check = "write" => WriteKnows(j.self, j.about, h, db)
      BY <1>3, <3>2 DEF Knows, WriteKnows, FileKnows
    <3>7. j.check = "kill" => KillKnows(j.self, j.about, h, db)
      BY <1>3, <3>2 DEF Knows, KillKnows
    <3>8. Knows(j, h, db)
      BY <3>2, <3>3, <3>4, <3>5, <3>6, <3>7 DEF Knows
    <3>9. QED
      BY <3>1, <3>8 DEF SameViews, h
  <2>4. QED
    BY <2>2, <2>3 DEF Stopping
<1>4. CASE Len(g) # 1
  <2>1. Len(g) > 1 /\ Len(g) >= 2 /\ g[2] = Host /\ Len(g) # 0
    <3>1. \A n \in Nat : n >= 1 /\ n # 1 => n > 1 /\ n >= 2 /\ n # 0
      OBVIOUS
    <3>2. Len(g) > 1 /\ Len(g) >= 2 /\ Len(g) # 0
      BY <1>1, <1>4, <3>1
    <3>3. QED
      BY <3>2 DEF Knows
  <2>2. ASSUME NEW val, NEW new
        PROVE  /\ Len(Append(g, val)) >= 1 /\ IsSeq(Append(g, val))
               /\ Append(g, val)[2] = Host
    <3> DEFINE h == Append(g, val)
    <3>1. IsSeq(h) /\ Len(h) = Len(g) + 1 /\ h[2] = g[2]
      BY <1>2, <2>1
    <3> HIDE DEF h
    <3>2. Len(h) >= 1
      BY <1>1, <3>1
    <3>3. QED
      BY <2>1, <3>1, <3>2 DEF h
  <2>3. CASE j.check = "fork"
    <3>1. r = ForkRequest(j.self, j.about, g)
      BY <1>4, <2>1, <2>3 DEF Request
    <3>2. j.self \in Users \X Pids /\ j.about \in Pids \cup {InitProc} /\ j.about # j.self[2]
      BY <2>3 DEF JobOK
    <3>3. ForkKnows(j.self, <<j.self[1], j.about>>, g, db)
      BY <2>3 DEF Knows
    <3>4. ~Stopping(r.op, r.args, db)
      BY <1>1, <2>1, <3>1, <3>2, <3>3, ForkStep
    <3>5. ASSUME NEW val, NEW new, Serving(r.op, r.args, val, db, new)
          PROVE  /\ DBOK(new)
                 /\ ForkKnows(j.self, <<j.self[1], j.about>>, Append(g, val), new)
                 /\ \/ SameViews(db, new)
                    \/ Forks(j.self, <<j.self[1], j.about>>, db, new)
      BY <1>1, <2>1, <3>1, <3>2, <3>3, <3>5, ForkStep
    <3>6. r.op # "IS_RWFM_ENABLED"
      BY <3>1 DEF ForkRequest, Ask, Done
    <3>7. QED
      BY <2>2, <2>3, <3>4, <3>5, <3>6 DEF Knows, Checks
  <2>4. CASE j.check = "open"
    <3>1. r = OpenRequest(j.about, g)
      BY <1>4, <2>1, <2>4 DEF Request
    <3>2. j.about \in Files
      BY <2>4 DEF JobOK
    <3>3. OpenKnows(j.about, g, db)
      BY <2>4 DEF Knows
    <3>4. ~Stopping(r.op, r.args, db)
      BY <1>1, <2>1, <3>1, <3>2, <3>3, OpenStep
    <3>5. ASSUME NEW val, NEW new, Serving(r.op, r.args, val, db, new)
          PROVE  /\ DBOK(new) /\ OpenKnows(j.about, Append(g, val), new)
                 /\ SameViews(db, new) \/ Opens(j.about, db, new)
      BY <1>1, <2>1, <3>1, <3>2, <3>3, <3>5, OpenStep
    <3>6. r.op # "IS_RWFM_ENABLED"
      BY <3>1 DEF OpenRequest, Ask, Done
    <3>7. QED
      BY <2>2, <2>4, <3>4, <3>5, <3>6 DEF Knows, Checks
  <2>5. CASE j.check = "read"
    <3>1. r = ReadRequest(j.self, j.about, g)
      BY <1>4, <2>1, <2>5 DEF Request
    <3>2. j.self \in Users \X Pids /\ j.about \in Files
      BY <2>5 DEF JobOK
    <3>3. ReadKnows(j.self, j.about, g, db)
      BY <2>5 DEF Knows
    <3>4. Stopping(r.op, r.args, db) => j.about \in Objects(db) /\ j.self \notin Subjects(db)
      BY <1>1, <2>1, <3>1, <3>2, <3>3, ReadStep
    <3>5. ASSUME NEW val, NEW new, Serving(r.op, r.args, val, db, new)
          PROVE  /\ DBOK(new) /\ ReadKnows(j.self, j.about, Append(g, val), new)
                 /\ SameViews(db, new) \/ Reads(j.self, j.about, db, new)
      BY <1>1, <2>1, <3>1, <3>2, <3>3, <3>5, ReadStep
    <3>6. r.op # "IS_RWFM_ENABLED"
      BY <3>1 DEF ReadRequest, FileRequest, Ask, Done
    <3>7. QED
      BY <2>2, <2>5, <3>4, <3>5, <3>6 DEF Knows, Checks, Stops
  <2>6. CASE j.check = "write"
    <3>1. r = FileRequest(j.self, j.about, g)
      BY <1>4, <2>1, <2>6 DEF Request
    <3>2. j.self \in Users \X Pids /\ j.about \in Files
      BY <2>6 DEF JobOK
    <3>3. WriteKnows(j.self, j.about, g, db)
      BY <2>6 DEF Knows
    <3>4. Stopping(r.op, r.args, db) => j.about \in Objects(db) /\ j.self \notin Subjects(db)
      BY <1>1, <2>1, <3>1, <3>2, <3>3, WriteStep
    <3>5. ASSUME NEW val, NEW new, Serving(r.op, r.args, val, db, new)
          PROVE  new = db /\ WriteKnows(j.self, j.about, Append(g, val), db)
      BY <1>1, <2>1, <3>1, <3>2, <3>3, <3>5, WriteStep
    <3>6. r.op # "IS_RWFM_ENABLED"
      BY <3>1 DEF FileRequest, Ask, Done
    <3>7. QED
      BY <2>2, <2>6, <3>4, <3>5, <3>6 DEF Knows, SameViews, Stops
  <2>7. CASE j.check = "kill"
    <3>1. r = KillRequest(j.self, j.about, g)
      BY <1>4, <2>1, <2>7 DEF Request
    <3>2. j.self \in Users \X Pids /\ j.about \in Users \X Pids
      BY <2>7 DEF JobOK
    <3>3. KillKnows(j.self, j.about, g, db)
      BY <2>7 DEF Knows
    <3>4. Stopping(r.op, r.args, db) => ~(j.self \in Subjects(db) /\ j.about \in Subjects(db))
      BY <1>1, <2>1, <3>1, <3>2, <3>3, KillStep
    <3>5. ASSUME NEW val, NEW new, Serving(r.op, r.args, val, db, new)
          PROVE  /\ DBOK(new) /\ KillKnows(j.self, j.about, Append(g, val), new)
                 /\ SameViews(db, new) \/ Kills(j.self, j.about, db, new)
      BY <1>1, <2>1, <3>1, <3>2, <3>3, <3>5, KillStep
    <3>6. r.op # "IS_RWFM_ENABLED"
      BY <3>1 DEF KillRequest, Ask, Done
    <3>7. QED
      BY <2>2, <2>7, <3>4, <3>5, <3>6 DEF Knows, Checks, Stops
  <2>8. QED
    BY <2>3, <2>4, <2>5, <2>6, <2>7 DEF JobOK
<1>5. QED
  BY <1>3, <1>4

\* A check that has just got the lock.
LEMMA KnowsFirst ==
  ASSUME NEW db, Whole(db), NEW j, NEW g, IsSeq(g), Len(g) = 1
  PROVE  Knows(j, g, db)
<1>1. ForkKnows(j.self, <<j.self[1], j.about>>, g, db)
  BY DEF Whole, SubjectsWhole, ForkKnows
<1>2. OpenKnows(j.about, g, db)
  BY DEF Whole, ObjectsWhole, OpenKnows, OpenRow
<1>3. ReadKnows(j.self, j.about, g, db) /\ WriteKnows(j.self, j.about, g, db)
  BY DEF ReadKnows, WriteKnows, FileKnows
<1>4. KillKnows(j.self, j.about, g, db)
  BY DEF KillKnows
<1>5. QED
  BY <1>1, <1>2, <1>3, <1>4 DEF Knows

\* Agrees, of any pair of tables.
AgreesIn(j, ret, sub, obj) ==
  CASE j.check = "fork"  -> j.self \in DOMAIN sub
    [] j.check = "open"  -> j.about \in DOMAIN obj
    [] j.check = "read"  ->
         IF j.about \notin DOMAIN obj THEN ret = "error"
         ELSE IF sub[j.self].owner \in obj[j.about].readers
           THEN ret = "allowed" /\ FlowsTo(obj[j.about], sub[j.self])
           ELSE ret = "denied"
    [] j.check = "write" ->
         IF j.about \notin DOMAIN obj THEN ret = "error"
         ELSE ret = IF WriteAllowed(sub[j.self], obj[j.about])
                      THEN "allowed" ELSE "denied"
    [] j.check = "kill"  ->
         IF sub[j.about].owner \in sub[j.self].readers
           THEN ret = "allowed" /\ FlowsTo(sub[j.self], sub[j.about])
           ELSE ret = "denied"

(***************************************************************************)
(* A check that has nothing left to ask leaves whole tables behind, and    *)
(* its result is what they say.                                            *)
(***************************************************************************)
LEMMA DoneStep ==
  ASSUME NEW db, DBOK(db), NEW j, JobOK(j), NEW g, Knows(j, g, db), Request(j, g) = Done
  PROVE  Whole(db) /\ AgreesIn(j, Result(j, g), SView(db), OView(db))
<1>1. Len(g) \in Nat /\ Len(g) > 1 /\ Len(g) # 1 /\ Len(g) # 0
  <2>1. IsSeq(g) /\ Len(g) >= 1
    BY DEF Knows
  <2>2. Len(g) \in Nat
    BY <2>1, LenProperties DEF IsSeq
  <2>3. Len(g) = 1 => FALSE
    BY DEF Request, Ask, Done
  <2>4. \A n \in Nat : n >= 1 /\ n # 1 => n > 1 /\ n # 0
    OBVIOUS
  <2>5. QED
    BY <2>1, <2>2, <2>3, <2>4
<1>2. \A n \in Nat : n > 1 /\ n <= 7 => n = 2 \/ n = 3 \/ n = 4 \/ n = 5 \/ n = 6 \/ n = 7
  OBVIOUS
<1>3. CASE j.check = "fork"
  <2>1. ForkRequest(j.self, j.about, g) = Done
    BY <1>1, <1>3 DEF Request
  <2>2. ForkKnows(j.self, <<j.self[1], j.about>>, g, db)
    BY <1>3 DEF Knows
  <2>3. Len(g) = 2 \/ Len(g) = 3 \/ Len(g) = 4 \/ Len(g) = 5 \/ Len(g) = 6 \/ Len(g) = 7
    BY <1>1, <1>2, <2>2 DEF ForkKnows
  <2>4. Len(g) = 7
    <3>1. ~(Len(g) = 2 \/ Len(g) = 3)
      BY <2>1 DEF ForkRequest, Ask, Done
    <3>2. ~(Len(g) = 4 \/ Len(g) = 5)
      BY <2>1 DEF ForkRequest, Ask, Done
    <3>3. ~(Len(g) = 6)
      BY <2>1 DEF ForkRequest, Ask, Done
    <3>4. QED
      BY <2>3, <3>1, <3>2, <3>3
  <2>5. j.self \in Subjects(db)
    BY <2>2, <2>4 DEF ForkKnows, ForkRow
  <2>6. Whole(db)
    BY <2>2, <2>4 DEF ForkKnows, ForkRow, Whole, SubjectsWhole
  <2>7. QED
    BY <1>3, <2>5, <2>6 DEF AgreesIn, Subjects
<1>4. CASE j.check = "open"
  <2>1. OpenRequest(j.about, g) = Done
    BY <1>1, <1>4 DEF Request
  <2>2. OpenKnows(j.about, g, db)
    BY <1>4 DEF Knows
  <2>3. (Len(g) = 3 /\ g[3] # 0) \/ Len(g) = OpenRow(j.about)
    <3>1. Len(g) # 2 /\ Len(g) # 4 /\ Len(g) # 5
      BY <2>1 DEF OpenRequest, Ask, Done
    <3>2. Len(g) # 8 /\ Len(g) # 9
      BY <2>1 DEF OpenRequest, Ask, Done
    <3>3. Len(g) # 6
      BY <2>1 DEF OpenRequest, Ask, Done
    <3>4. Len(g) = 7 => g[6] = NoUser
      BY <2>1 DEF OpenRequest, Ask, Done
    <3>5. Len(g) = 3 => g[3] # 0
      BY <2>1 DEF OpenRequest, Ask, Done
    <3>6. Len(g) <= OpenRow(j.about) /\ (Len(g) >= 6 => g[6] = FileStat[j.about].uid)
      BY <2>2 DEF OpenKnows
    <3>7. \A n \in Nat : n > 1 /\ n <= 10 =>
            n = 2 \/ n = 3 \/ n = 4 \/ n = 5 \/ n = 6 \/ n = 7 \/ n = 8 \/ n = 9 \/ n = 10
      OBVIOUS
    <3>8. Len(g) = 3 \/ Len(g) = 7 \/ Len(g) = 10
      <4>1. Len(g) <= 10
        BY <1>1, <3>6 DEF OpenRow
      <4>2. QED
        BY <1>1, <3>1, <3>2, <3>3, <3>7, <4>1
    <3>9. Len(g) = 7 => OpenRow(j.about) = 7
      BY <3>4, <3>6 DEF OpenRow
    <3>10. Len(g) = 10 => OpenRow(j.about) = 10
      BY <3>6 DEF OpenRow
    <3>11. QED
      BY <3>5, <3>8, <3>9, <3>10
  <2>4. Whole(db)
    <3>1. ~(Len(g) >= 4 /\ Len(g) < OpenRow(j.about))
      <4>1. \A n, k \in Nat : n = 3 \/ n = k => ~(n >= 4 /\ n < k)
        OBVIOUS
      <4>2. OpenRow(j.about) \in Nat
        BY DEF OpenRow
      <4>3. QED
        BY <1>1, <2>3, <4>1, <4>2
    <3>2. QED
      BY <2>2, <3>1 DEF OpenKnows, Whole, ObjectsWhole
  <2>5. j.about \in Objects(db)
    <3>1. CASE Len(g) = 3 /\ g[3] # 0
      <4>1. ObjectIndex(db, j.about) # 0
        BY <2>2, <3>1 DEF OpenKnows
      <4>2. QED
        BY <2>4, <4>1, ObjectFetched DEF Whole, ObjectsWhole
    <3>2. CASE Len(g) = OpenRow(j.about)
      BY <2>2, <3>2 DEF OpenKnows
    <3>3. QED
      BY <2>3, <3>1, <3>2
  <2>6. QED
    BY <1>4, <2>4, <2>5 DEF AgreesIn, Objects
\* What a file check that is done knows.
<1>5. ASSUME FileRequest(j.self, j.about, g) = Done, FileKnows(j.self, j.about, g, db),
             Len(g) <= 7
      PROVE  /\ Whole(db)
             /\ \/ Len(g) = 4 /\ j.about \notin Objects(db)
                \/ Len(g) = 6 \/ Len(g) = 7
  <2>1. Len(g) = 2 \/ Len(g) = 3 \/ Len(g) = 4 \/ Len(g) = 5 \/ Len(g) = 6 \/ Len(g) = 7
    BY <1>1, <1>2, <1>5
  <2>2. Len(g) # 2 /\ Len(g) # 3 /\ Len(g) # 5
    BY <1>5 DEF FileRequest, Ask, Done
  <2>3. Len(g) = 4 => g[4] = 0
    BY <1>5 DEF FileRequest, Ask, Done
  <2>4. Len(g) = 4 => j.about \notin Objects(db)
    BY <1>5, <2>3, ObjectFetched DEF FileKnows
  <2>5. QED
    BY <1>5, <2>1, <2>2, <2>4 DEF FileKnows
<1>6. CASE j.check = "read"
  <2>1. ReadRequest(j.self, j.about, g) = Done
    BY <1>1, <1>6 DEF Request
  <2>2. ReadKnows(j.self, j.about, g, db)
    BY <1>6 DEF Knows
  <2>3. FileRequest(j.self, j.about, g) = Done
    BY <2>1 DEF ReadRequest, Ask, Done
  <2>4. Len(g) = 6 => g[5].owner \notin g[6].readers
    BY <2>1 DEF ReadRequest, Ask, Done
  <2>5. /\ Whole(db)
        /\ \/ Len(g) = 4 /\ j.about \notin Objects(db)
           \/ Len(g) = 6 \/ Len(g) = 7
    BY <1>5, <2>2, <2>3 DEF ReadKnows
  <2>6. CASE Len(g) = 4 /\ j.about \notin Objects(db)
    <3>1. Result(j, g) = "error"
      BY <1>6, <2>6 DEF Result
    <3>2. QED
      BY <1>6, <2>5, <2>6, <3>1 DEF AgreesIn, Objects
  <2>7. CASE Len(g) = 6
    <3>1. Result(j, g) = "denied"
      BY <1>6, <2>7 DEF Result
    <3>2. /\ j.about \in Objects(db)
          /\ SView(db)[j.self].owner \notin OView(db)[j.about].readers
      BY <2>2, <2>4, <2>7 DEF ReadKnows, FileKnows
    <3>3. QED
      BY <1>6, <2>5, <3>1, <3>2 DEF AgreesIn, Objects
  <2>8. CASE Len(g) = 7
    <3>1. Result(j, g) = "allowed"
      BY <1>6, <2>8 DEF Result
    <3>2. /\ j.about \in Objects(db)
          /\ SView(db)[j.self].owner \in OView(db)[j.about].readers
          /\ FlowsTo(OView(db)[j.about], SView(db)[j.self])
      BY <2>2, <2>8 DEF ReadKnows, FileKnows
    <3>3. QED
      BY <1>6, <2>5, <3>1, <3>2 DEF AgreesIn, Objects
  <2>9. QED
    BY <2>5, <2>6, <2>7, <2>8
<1>7. CASE j.check = "write"
  <2>1. FileRequest(j.self, j.about, g) = Done
    BY <1>1, <1>7 DEF Request
  <2>2. WriteKnows(j.self, j.about, g, db) /\ Len(g) <= 6 /\ Len(g) <= 7
    <3>1. WriteKnows(j.self, j.about, g, db) /\ Len(g) <= 6
      BY <1>7 DEF Knows, WriteKnows
    <3>2. QED
      BY <1>1, <3>1
  <2>3. /\ Whole(db)
        /\ \/ Len(g) = 4 /\ j.about \notin Objects(db)
           \/ Len(g) = 6 \/ Len(g) = 7
    BY <1>5, <2>1, <2>2 DEF WriteKnows
  <2>4. CASE Len(g) = 4 /\ j.about \notin Objects(db)
    <3>1. Result(j, g) = "error"
      BY <1>7, <2>4 DEF Result
    <3>2. QED
      BY <1>7, <2>3, <2>4, <3>1 DEF AgreesIn, Objects
  <2>5. CASE Len(g) = 6
    <3>1. Result(j, g) = IF WriteAllowed(g[5], g[6]) THEN "allowed" ELSE "denied"
      BY <1>7, <2>5 DEF Result
    <3>2. /\ j.about \in Objects(db)
          /\ g[5] = SView(db)[j.self] /\ g[6] = OView(db)[j.about]
      BY <2>2, <2>5 DEF WriteKnows, FileKnows
    <3>3. QED
      BY <1>7, <2>3, <3>1, <3>2 DEF AgreesIn, Objects
  <2>6. Len(g) # 7
    <3>1. \A n \in Nat : n <= 6 => n # 7
      OBVIOUS
    <3>2. QED
      BY <1>1, <2>2, <3>1
  <2>7. QED
    BY <2>3, <2>4, <2>5, <2>6
<1>8. CASE j.check = "kill"
  <2>1. KillRequest(j.self, j.about, g) = Done
    BY <1>1, <1>8 DEF Request
  <2>2. KillKnows(j.self, j.about, g, db)
    BY <1>8 DEF Knows
  <2>3. Len(g) = 6 \/ Len(g) = 7
    <3>1. Len(g) # 2 /\ Len(g) # 3 /\ Len(g) # 4 /\ Len(g) # 5
      BY <2>1 DEF KillRequest, Ask, Done
    <3>2. QED
      BY <1>1, <1>2, <2>2, <3>1 DEF KillKnows
  <2>4. Len(g) = 6 => g[6].owner \notin g[4].readers
    BY <2>1 DEF KillRequest, Ask, Done
  <2>5. CASE Len(g) = 6
    <3>1. Result(j, g) = "denied"
      BY <1>8, <2>5 DEF Result
    <3>2. Whole(db) /\ SView(db)[j.about].owner \notin SView(db)[j.self].readers
      BY <2>2, <2>4, <2>5 DEF KillKnows
    <3>3. QED
      BY <1>8, <3>1, <3>2 DEF AgreesIn
  <2>6. CASE Len(g) = 7
    <3>1. Result(j, g) = "allowed"
      BY <1>8, <2>6 DEF Result
    <3>2. /\ Whole(db) /\ SView(db)[j.about].owner \in SView(db)[j.self].readers
          /\ FlowsTo(SView(db)[j.self], SView(db)[j.about])
      BY <2>2, <2>6 DEF KillKnows
    <3>3. QED
      BY <1>8, <3>1, <3>2 DEF AgreesIn
  <2>7. QED
    BY <2>3, <2>5, <2>6
<1>9. QED
  BY <1>3, <1>4, <1>6, <1>7, <1>8 DEF JobOK

-----------------------------------------------------------------------------
(* The invariant *)

Vals(g) == [i \in DOMAIN g |-> g[i].val]

(***************************************************************************)
(* A request r under way was sent by a client, at p in its check j with    *)
(* the answers g, that waits for the answer or has died since; and, from   *)
(* when the client got the lock, by one that knew where it stood.          *)
(***************************************************************************)
Sent(r, p, j, g, db) ==
  \/ /\ p = "receive"
     /\ r.op = Request(j, Vals(g)).op /\ r.args = Request(j, Vals(g)).args
     /\ Request(j, Vals(g)) # Done
     /\ g # <<>> => Knows(j, Vals(g), db)
  \/ /\ p = "dead"
     /\ r.op # "IS_RWFM_ENABLED" =>
          \E h : /\ Knows(j, h, db) /\ Request(j, h) # Done
                 /\ r.op = Request(j, h).op /\ r.args = Request(j, h).args

\* A response under way answers what its client asked, or comes too late.
Answering(r, p, j, g, db) ==
  \/ /\ p = "receive" /\ r.op = Request(j, Vals(g)).op
     /\ g # <<>> => Knows(j, Append(Vals(g), r.val), db)
  \/ p = "dead"

RequestFrom(c, r) == r.pid = PidOf[c] /\ Sent(r, pc[c], job[c], got[c], DB)
ResponseTo(c, r) == r.pid = PidOf[c] /\ Answering(r, pc[c], job[c], got[c], DB)

OnePerPid(q) == \A i, k \in 1..Len(q) : q[i].pid = q[k].pid => i = k

QueueInv ==
  /\ IsSeq(requests) /\ OnePerPid(requests)
  /\ IsSeq(responses) /\ OnePerPid(responses)
  /\ \A r \in Range(requests) : \E c \in Clients : RequestFrom(c, r)
  /\ \A r \in Range(responses) : \E c \in Clients : ResponseTo(c, r)
  /\ \A r \in Range(requests), s \in Range(responses) : r.pid # s.pid

(***************************************************************************)
(* A client has the lock from its first answer on; when it is dead, its    *)
(* last request has it.                                                    *)
(***************************************************************************)
HasLock(id, p, g, q) ==
  \/ p \in {"send", "receive"} /\ g # <<>>
  \/ \E r \in Range(q) : r.pid = id /\ r.op # "IS_RWFM_ENABLED"
Holds(c) == HasLock(PidOf[c], pc[c], got[c], requests)

LockInv ==
  /\ semaphore \in {0, 1}
  /\ \A c, d \in Clients : Holds(c) /\ Holds(d) => c = d
  /\ semaphore = 1 => Whole(DB) /\ \A c \in Clients : ~Holds(c)
  /\ \A c \in Clients : pc[c] = "send" /\ got[c] # <<>> => Knows(job[c], Vals(got[c]), DB)

PcType == {"born", "idle", "send", "receive", "lock", "dead"}

ClientOK(p, j, g, jobs) ==
  /\ IsSeq(g) /\ (p \in {"born", "idle", "dead"} => g = <<>>)
  /\ p = "lock" => Len(g) = 1
  /\ p \notin {"born", "idle"} => j \in jobs

ClientInv ==
  /\ server \in {"up", "stopped"} /\ uid \in [Pids -> Users]
  /\ pc \in [Clients -> PcType] /\ DOMAIN job = Clients /\ DOMAIN got = Clients
  /\ \A c \in Clients : ClientOK(pc[c], job[c], got[c], Births(c) \cup Calls(c, Clients))

RpcInv == ClientInv /\ DBOK(DB) /\ QueueInv /\ LockInv

-----------------------------------------------------------------------------
(* Queues and answers *)

LEMMA RangeFacts ==
  ASSUME NEW q, IsSeq(q)
  PROVE  /\ Len(q) \in Nat
         /\ \A i \in 1..Len(q) : q[i] \in Range(q)
         /\ \A r \in Range(q) : \E i \in 1..Len(q) : r = q[i]
<1>1. Len(q) \in Nat /\ DOMAIN q = 1..Len(q)
  BY LenProperties DEF IsSeq
<1>2. QED
  BY <1>1 DEF Range

LEMMA QueueAppend ==
  ASSUME NEW q, IsSeq(q), NEW e
  PROVE  /\ IsSeq(Append(q, e))
         /\ \A r \in Range(Append(q, e)) : r \in Range(q) \/ r = e
         /\ OnePerPid(q) /\ (\A r \in Range(q) : r.pid # e.pid) => OnePerPid(Append(q, e))
<1> DEFINE new == Append(q, e)
<1>1. /\ IsSeq(new) /\ Len(q) \in Nat /\ Len(new) = Len(q) + 1
      /\ \A i \in 1..Len(q) : new[i] = q[i]
      /\ new[Len(q) + 1] = e
  BY AppendFacts
<1> HIDE DEF new
<1>2. PICK n \in Nat : n = Len(q)
  BY <1>1
<1>3. \A i \in 1..(n + 1) : i \in 1..n \/ i = n + 1
  BY <1>2
<1>4. \A r \in Range(new) : r \in Range(q) \/ r = e
  BY <1>1, <1>2, <1>3, RangeFacts
<1>5. ASSUME OnePerPid(q), \A r \in Range(q) : r.pid # e.pid
      PROVE  OnePerPid(new)
  <2>1. \A i \in 1..n : q[i].pid # e.pid
    BY <1>2, <1>5, RangeFacts
  <2>2. ASSUME NEW i \in 1..(n + 1), NEW k \in 1..(n + 1), new[i].pid = new[k].pid
        PROVE  i = k
    <3>1. CASE i \in 1..n /\ k \in 1..n
      BY <1>1, <1>2, <1>5, <2>2, <3>1 DEF OnePerPid
    <3>2. CASE i \in 1..n /\ k = n + 1
      BY <1>1, <1>2, <2>1, <2>2, <3>2
    <3>3. CASE i = n + 1 /\ k \in 1..n
      BY <1>1, <1>2, <2>1, <2>2, <3>3
    <3>4. QED
      BY <1>3, <3>1, <3>2, <3>3
  <2>3. QED
    BY <1>1, <1>2, <2>2 DEF OnePerPid
<1>6. QED
  BY <1>1, <1>4, <1>5 DEF new

LEMMA QueueTail ==
  ASSUME NEW q, IsSeq(q), OnePerPid(q), q # <<>>
  PROVE  /\ IsSeq(Tail(q)) /\ OnePerPid(Tail(q)) /\ Head(q) \in Range(q)
         /\ \A r \in Range(Tail(q)) : r \in Range(q) /\ r.pid # Head(q).pid
<1> DEFINE new == Tail(q)
<1>1. /\ IsSeq(new) /\ Len(q) \in Nat \ {0} /\ Len(new) = Len(q) - 1 /\ Head(q) = q[1]
      /\ \A i \in 1..(Len(q) - 1) : new[i] = q[i + 1]
  BY TailFacts
<1> HIDE DEF new
<1>2. PICK n \in Nat \ {0} : n = Len(q)
  BY <1>1
<1>3. \A i \in 1..(n - 1) : i + 1 \in 1..n /\ i + 1 # 1 /\ 1 \in 1..n
  BY <1>2
<1>4. \A i \in 1..(n - 1) : new[i] \in Range(q) /\ new[i].pid # Head(q).pid
  <2>1. TAKE i \in 1..(n - 1)
  <2>2. new[i] = q[i + 1] /\ i + 1 \in 1..n /\ i + 1 # 1 /\ 1 \in 1..n
    BY <1>1, <1>2, <1>3
  <2>3. q[i + 1] \in Range(q)
    BY <1>2, <2>2, RangeFacts
  <2>4. q[i + 1].pid # q[1].pid
    BY <1>2, <2>2 DEF OnePerPid
  <2>5. QED
    BY <1>1, <2>2, <2>3, <2>4
<1>5. \A r \in Range(new) : r \in Range(q) /\ r.pid # Head(q).pid
  BY <1>1, <1>2, <1>4, RangeFacts
<1>6. OnePerPid(new)
  <2>1. ASSUME NEW i \in 1..(n - 1), NEW k \in 1..(n - 1), new[i].pid = new[k].pid
        PROVE  i = k
    <3>1. q[i + 1].pid = q[k + 1].pid
      BY <1>1, <1>2, <2>1
    <3>2. i + 1 = k + 1
      BY <1>2, <1>3, <3>1 DEF OnePerPid
    <3>3. QED
      BY <3>2
  <2>2. QED
    BY <1>1, <1>2, <2>1 DEF OnePerPid
<1>7. Head(q) \in Range(q)
  BY <1>1, <1>2, RangeFacts
<1>8. QED
  BY <1>1, <1>5, <1>6, <1>7 DEF new

LEMMA QueueRemove ==
  ASSUME NEW q, IsSeq(q), OnePerPid(q), NEW k \in 1..Len(q)
  PROVE  /\ IsSeq(RemoveAt(q, k)) /\ OnePerPid(RemoveAt(q, k)) /\ q[k] \in Range(q)
         /\ \A r \in Range(RemoveAt(q, k)) : r \in Range(q) /\ r.pid # q[k].pid
<1> DEFINE new == RemoveAt(q, k)
           from(i) == IF i < k THEN i ELSE i + 1
<1>1. /\ IsSeq(new) /\ Len(q) \in Nat /\ DOMAIN new = 1..(Len(q) - 1)
      /\ \A i \in 1..(Len(q) - 1) : new[i] = q[from(i)]
  BY RemoveAtFacts
<1> HIDE DEF new
<1>2. PICK n \in Nat : n = Len(q)
  BY <1>1
<1>3. \A i \in 1..(n - 1) : from(i) \in 1..n /\ from(i) # k
  BY <1>2
<1>4. \A i, l \in 1..(n - 1) : from(i) = from(l) => i = l
  BY <1>2
<1> HIDE DEF from
<1>5. Len(new) \in Nat /\ DOMAIN new = 1..Len(new) /\ DOMAIN new = 1..(n - 1)
  BY <1>1, <1>2, LenProperties DEF IsSeq
<1>6. \A i \in 1..(n - 1) : new[i] \in Range(q) /\ new[i].pid # q[k].pid
  <2>1. ASSUME NEW i \in 1..(n - 1)
        PROVE  new[i] \in Range(q) /\ new[i].pid # q[k].pid
    <3>1. new[i] = q[from(i)] /\ from(i) \in 1..n /\ from(i) # k
      BY <1>1, <1>2, <1>3
    <3>2. QED
      BY <1>2, <3>1, RangeFacts DEF OnePerPid
  <2>2. QED
    BY <2>1
<1>7. \A r \in Range(new) : r \in Range(q) /\ r.pid # q[k].pid
  <2>1. \A r \in Range(new) : \E i \in 1..(n - 1) : r = new[i]
    BY <1>5 DEF Range
  <2>2. QED
    BY <1>6, <2>1
<1>8. OnePerPid(new)
  <2>1. ASSUME NEW i \in 1..(n - 1), NEW l \in 1..(n - 1), new[i].pid = new[l].pid
        PROVE  i = l
    <3>1. q[from(i)].pid = q[from(l)].pid /\ from(i) \in 1..n /\ from(l) \in 1..n
      BY <1>1, <1>2, <1>3, <2>1
    <3>2. from(i) = from(l)
      BY <1>2, <3>1 DEF OnePerPid
    <3>3. QED
      BY <1>4, <3>2
  <2>2. QED
    BY <1>5, <2>1 DEF OnePerPid
<1>9. q[k] \in Range(q)
  BY RangeFacts
<1>10. QED
  BY <1>1, <1>7, <1>8, <1>9 DEF new

LEMMA ValsFacts ==
  ASSUME NEW g, IsSeq(g)
  PROVE  /\ IsSeq(Vals(g)) /\ Len(Vals(g)) = Len(g) /\ Len(g) \in Nat
         /\ g = <<>> => Len(Vals(g)) = 0
         /\ g # <<>> => Len(g) >= 1
         /\ \A e : Vals(Append(g, e)) = Append(Vals(g), e.val)
<1> DEFINE v == Vals(g)
           S == Range(v)
<1>1. /\ Len(g) \in Nat /\ DOMAIN g = 1..Len(g) /\ (g # <<>> => Len(g) \in Nat \ {0})
      /\ (g = <<>> => Len(g) = 0)
  BY LenProperties, EmptySeq DEF IsSeq
<1>2. v = [i \in 1..Len(g) |-> g[i].val] /\ v \in [1..Len(g) -> S]
  BY <1>1 DEF Vals, Range
<1> HIDE DEF v, S
<1>3. v \in Seq(S)
  BY <1>1, <1>2, SeqDef
<1>4. Len(v) = Len(g)
  <2>1. DOMAIN v = 1..Len(v) /\ Len(v) \in Nat
    BY <1>3, LenProperties
  <2>2. 1..Len(v) = 1..Len(g)
    BY <1>2, <2>1
  <2>3. \A m, n \in Nat : 1..m = 1..n => m = n
    <3>1. ASSUME NEW m \in Nat, NEW n \in Nat, 1..m = 1..n
          PROVE  m <= n
      BY <3>1
    <3>2. QED
      BY <3>1
  <2>4. QED
    BY <1>1, <2>1, <2>2, <2>3
<1>5. IsSeq(v)
  BY <1>3, SeqOfRange DEF IsSeq
<1>6. ASSUME NEW e
      PROVE  Vals(Append(g, e)) = Append(v, e.val)
  <2> DEFINE h == Append(g, e)
             w == Append(v, e.val)
             n == Len(g)
  <2>1. DOMAIN h = 1..(n + 1) /\ h[n + 1] = e /\ \A i \in 1..n : h[i] = g[i]
    BY AppendFacts
  <2>2. /\ DOMAIN w = 1..(n + 1) /\ w[n + 1] = e.val /\ \A i \in 1..n : w[i] = v[i]
        /\ IsSeq(w)
    BY <1>4, <1>5, AppendFacts
  <2>3. w = [i \in DOMAIN w |-> w[i]]
    <3> HIDE DEF w
    <3>1. w \in [1..Len(w) -> Range(w)]
      BY <2>2, LenProperties DEF IsSeq
    <3>2. QED
      BY <3>1
  <2> HIDE DEF h, w
  <2>4. \A i \in 1..(n + 1) : h[i].val = w[i]
    <3>1. \A i \in 1..(n + 1) : i \in 1..n \/ i = n + 1
      BY <1>1
    <3>2. \A i \in 1..n : v[i] = g[i].val
      BY <1>2
    <3>3. QED
      BY <2>1, <2>2, <3>1, <3>2
  <2>5. QED
    BY <2>1, <2>2, <2>3, <2>4 DEF Vals, h, w
<1>7. g # <<>> => Len(g) >= 1
  <2>1. \A n \in Nat \ {0} : n >= 1
    OBVIOUS
  <2>2. QED
    BY <1>1, <2>1
<1>8. \A e : Vals(Append(g, e)) = Append(Vals(g), e.val)
  BY <1>6 DEF v
<1>9. IsSeq(Vals(g)) /\ Len(Vals(g)) = Len(g)
  BY <1>4, <1>5 DEF v
<1>10. QED
  BY <1>1, <1>7, <1>8, <1>9

LEMMA FirstRequest ==
  ASSUME NEW j, NEW g, Len(g) = 0
  PROVE  Request(j, g).op = "IS_RWFM_ENABLED" /\ Request(j, g) # Done
<1>1. Request(j, g) = Ask("IS_RWFM_ENABLED", <<>>)
  BY DEF Request
<1>2. QED
  BY <1>1, AskFields DEF Ask, Done

\* What a client asks is a function of its check and its answers.
LEMMA AskedByVals ==
  ASSUME NEW c
  PROVE  Answers(c) = Vals(got[c])
BY DEF Answers, Vals

LEMMA JobTyped ==
  ASSUME uid \in [Pids -> Users], NEW c \in Clients,
         NEW j \in Births(c) \cup Calls(c, Clients)
  PROVE  JobOK(j)
<1>1. Self(c) \in Users \X Pids /\ Self(c)[2] = PidOf[c]
  BY RpcAssumption DEF Self
<1>2. ASSUME j \in Births(c)
      PROVE  JobOK(j)
  <2>1. /\ j.check = "fork" /\ j.self = Self(c)
        /\ j.about \in (Pids \ {PidOf[c]}) \cup {InitProc}
    BY <1>2 DEF Births
  <2>2. j.about # PidOf[c]
    BY <2>1, RpcAssumption
  <2>3. QED
    BY <1>1, <2>1, <2>2 DEF JobOK
<1>3. ASSUME j \in Calls(c, Clients)
      PROVE  JobOK(j)
  <2>1. \A d \in Clients : Self(d) \in Users \X Pids
    BY RpcAssumption DEF Self
  <2>2. CASE j \in [check : {"open", "read", "write"}, self : {Self(c)}, about : Files]
    BY <1>1, <2>2 DEF JobOK
  <2>3. CASE j \in [check : {"kill"}, self : {Self(c)}, about : {Self(d) : d \in Clients}]
    BY <1>1, <2>1, <2>3 DEF JobOK
  <2>4. QED
    BY <1>3, <2>2, <2>3 DEF Calls
<1>4. QED
  BY <1>2, <1>3

-----------------------------------------------------------------------------
(* Every action keeps the invariant *)

\* A message with the pid of a client is that client's.
LEMMA QueuedFor ==
  ASSUME SingleThreaded, RpcInv, NEW c \in Clients
  PROVE  /\ \A r \in Range(requests) : r.pid = PidOf[c] => RequestFrom(c, r)
         /\ \A r \in Range(responses) : r.pid = PidOf[c] => ResponseTo(c, r)
         /\ pc[c] \notin {"receive", "dead"} =>
              \A r \in Range(requests) \cup Range(responses) : r.pid # PidOf[c]
<1>1. \A r \in Range(requests) : r.pid = PidOf[c] => RequestFrom(c, r)
  BY DEF SingleThreaded, RpcInv, QueueInv, RequestFrom
<1>2. \A r \in Range(responses) : r.pid = PidOf[c] => ResponseTo(c, r)
  BY DEF SingleThreaded, RpcInv, QueueInv, ResponseTo
<1>3. QED
  BY <1>1, <1>2 DEF RequestFrom, ResponseTo, Sent, Answering

LEMMA InitInv ==
  ASSUME Init
  PROVE  RpcInv
<1>1. IsSeq(<<>>) /\ OnePerPid(<<>>) /\ Range(<<>>) = {} /\ DOMAIN <<>> = {}
  <2>1. <<>> \in Seq({}) /\ Len(<<>>) = 0
    BY EmptySeq
  <2>2. <<>> \in Seq(Range(<<>>)) /\ DOMAIN <<>> = 1..0
    BY <2>1, SeqOfRange, LenProperties
  <2>3. QED
    BY <2>1, <2>2 DEF IsSeq, OnePerPid, Range
<1>2. ClientInv
  <2>1. uid \in [Pids -> Users]
    BY RpcAssumption DEF Init
  <2>2. pc \in [Clients -> PcType] /\ DOMAIN job = Clients /\ DOMAIN got = Clients
    BY DEF Init, PcType
  <2>3. ASSUME NEW c \in Clients
        PROVE  ClientOK(pc[c], job[c], got[c], Births(c) \cup Calls(c, Clients))
    BY <1>1 DEF Init, ClientOK
  <2>4. QED
    BY <2>1, <2>2, <2>3 DEF ClientInv, Init
<1>3. DB.sids = <<>> /\ DB.subs = <<>> /\ DB.oids = <<>> /\ DB.objs = <<>>
  BY DEF DB, Init
<1>4. DBOK(DB)
  <2>1. <<>> \in Seq(Range(<<>>)) /\ <<>> \in Seq(Rows) /\ Len(<<>>) = 0
    BY <1>1, EmptySeq DEF IsSeq
  <2>2. TableOK(<<>>, <<>>)
    BY <1>1, <2>1 DEF TableOK
  <2>3. QED
    BY <1>3, <2>1, <2>2 DEF DBOK
<1>5. QueueInv
  BY <1>1 DEF Init, QueueInv
<1>6. LockInv
  <2>1. semaphore = 1 /\ requests = <<>> /\ \A c \in Clients : got[c] = <<>>
    BY DEF Init
  <2>2. Whole(DB)
    BY <1>1, <1>3 DEF Whole, SubjectsWhole, ObjectsWhole
  <2>3. \A c \in Clients : ~Holds(c)
    BY <1>1, <2>1 DEF Holds, HasLock
  <2>4. QED
    BY <2>1, <2>2, <2>3 DEF LockInv
<1>7. QED
  BY <1>2, <1>4, <1>5, <1>6 DEF RpcInv

\* Whose the messages in the queues are after an action of c.
LEMMA StillQueued ==
  ASSUME QueueInv, NEW c \in Clients, DB' = DB,
         \A d \in Clients : d # c => pc'[d] = pc[d] /\ job'[d] = job[d] /\ got'[d] = got[d],
         \A m \in Range(requests') :
           \/ m \in Range(requests) /\ m.pid # PidOf[c]
           \/ m.pid = PidOf[c] /\ Sent(m, pc'[c], job'[c], got'[c], DB'),
         \A m \in Range(responses') :
           \/ m \in Range(responses) /\ m.pid # PidOf[c]
           \/ m.pid = PidOf[c] /\ Answering(m, pc'[c], job'[c], got'[c], DB'),
         IsSeq(requests'), OnePerPid(requests'), IsSeq(responses'), OnePerPid(responses'),
         \A m \in Range(requests'), n \in Range(responses') : m.pid # n.pid
  PROVE  QueueInv'
<1>1. ASSUME NEW m \in Range(requests')
      PROVE  \E d \in Clients : RequestFrom(d, m)'
  <2>1. CASE m \in Range(requests) /\ m.pid # PidOf[c]
    <3>1. PICK d \in Clients : RequestFrom(d, m)
      BY <2>1 DEF QueueInv
    <3>2. d # c
      BY <2>1, <3>1 DEF RequestFrom
    <3>3. RequestFrom(d, m)'
      BY <3>1, <3>2 DEF RequestFrom
    <3>4. QED
      BY <3>3
  <2>2. CASE m.pid = PidOf[c] /\ Sent(m, pc'[c], job'[c], got'[c], DB')
    <3>1. RequestFrom(c, m)'
      BY <2>2 DEF RequestFrom
    <3>2. QED
      BY <3>1
  <2>3. QED
    BY <2>1, <2>2
<1>2. ASSUME NEW m \in Range(responses')
      PROVE  \E d \in Clients : ResponseTo(d, m)'
  <2>1. CASE m \in Range(responses) /\ m.pid # PidOf[c]
    <3>1. PICK d \in Clients : ResponseTo(d, m)
      BY <2>1 DEF QueueInv
    <3>2. d # c
      BY <2>1, <3>1 DEF ResponseTo
    <3>3. ResponseTo(d, m)'
      BY <3>1, <3>2 DEF ResponseTo
    <3>4. QED
      BY <3>3
  <2>2. CASE m.pid = PidOf[c] /\ Answering(m, pc'[c], job'[c], got'[c], DB')
    <3>1. ResponseTo(c, m)'
      BY <2>2 DEF ResponseTo
    <3>2. QED
      BY <3>1
  <2>3. QED
    BY <2>1, <2>2
<1>3. /\ \A m \in Range(requests') : \E d \in Clients : RequestFrom(d, m)'
      /\ \A m \in Range(responses') : \E d \in Clients : ResponseTo(d, m)'
  BY <1>1, <1>2
<1>4. QED
  BY <1>3 DEF QueueInv

(***************************************************************************)
(* What a step of the server does to the tables.                           *)
(***************************************************************************)
ServedAs(c) ==
  /\ JobOK(job[c])
  /\ \/ Checks(job[c], DB, DB') /\ UNCHANGED server
     \/ Stops(job[c], DB) /\ SameViews(DB, DB') /\ server' = "stopped"

LEMMA ServeStep ==
  ASSUME SingleThreaded, RpcInv, Serve, server = "up"
  PROVE  /\ RpcInv'
         /\ requests # <<>> /\ requests' = Tail(requests)
         /\ \/ SameViews(DB, DB') /\ UNCHANGED server
            \/ \E c \in Clients : PidOf[c] = Head(requests).pid /\ ServedAs(c)
<1> DEFINE r == Head(requests)
<1>1. /\ requests # <<>> /\ requests' = Tail(requests)
      /\ semaphore' = semaphore /\ uid' = uid /\ pc' = pc /\ job' = job /\ got' = got
  BY ServeCases DEF clients
<1>2. \/ /\ Stopping(r.op, r.args, DB) /\ DB' = DB
         /\ server' = "stopped" /\ responses' = <<>>
      \/ \E val : /\ Serving(r.op, r.args, val, DB, DB') /\ server' = server
                  /\ responses' = Append(responses, [pid |-> r.pid, op |-> r.op, val |-> val])
  BY ServeCases
<1> HIDE DEF r
<1>3. /\ IsSeq(requests') /\ OnePerPid(requests') /\ r \in Range(requests)
      /\ \A m \in Range(requests') : m \in Range(requests) /\ m.pid # r.pid
  BY <1>1, QueueTail DEF RpcInv, QueueInv, r
<1>4. PICK c \in Clients : RequestFrom(c, r)
  BY <1>3 DEF RpcInv, QueueInv
<1>5. ClientInv'
  <2>1. ClientInv /\ server' \in {"up", "stopped"}
    BY <1>2 DEF RpcInv
  <2>2. \A d \in Clients : Births(d)' = Births(d) /\ Calls(d, Clients)' = Calls(d, Clients)
    BY <1>1 DEF Births, Calls, Self
  <2>3. QED
    BY <1>1, <2>1, <2>2 DEF ClientInv
<1>6. \A d \in Clients : Holds(d)' => Holds(d)
  BY <1>1, <1>3 DEF Holds, HasLock
\* The server answers a request from before the lock.
<1>7. CASE r.op = "IS_RWFM_ENABLED"
  <2>1. PICK val : /\ Serving(r.op, r.args, val, DB, DB') /\ server' = server
                   /\ responses' = Append(responses, [pid |-> r.pid, op |-> r.op, val |-> val])
    BY <1>2, <1>7 DEF Stopping
  <2>2. DB' = DB
    BY <1>7, <2>1 DEF Serving
  <2>s. PICK s : s = [pid |-> r.pid, op |-> r.op, val |-> val]
    OBVIOUS
  <2>3. s.pid = r.pid /\ s.op = r.op
    BY <2>s
  <2>4. /\ IsSeq(responses') /\ OnePerPid(responses')
        /\ \A m \in Range(responses') : m \in Range(responses) \/ m = s
    BY SMTT(30), <1>3, <2>1, <2>3, <2>s, QueueAppend DEF RpcInv, QueueInv
  <2>5. ResponseTo(c, s)'
    <3>1. pc[c] = "receive" => got[c] = <<>>
      <4>1. ASSUME pc[c] = "receive", got[c] # <<>>
            PROVE  FALSE
        <5>1. /\ Knows(job[c], Vals(got[c]), DB) /\ Request(job[c], Vals(got[c])) # Done
              /\ Request(job[c], Vals(got[c])).op = "IS_RWFM_ENABLED"
          BY <1>4, <1>7, <4>1 DEF RequestFrom, Sent
        <5>2. JobOK(job[c]) /\ DBOK(DB)
          BY <4>1, JobTyped DEF RpcInv, ClientInv, ClientOK
        <5>3. QED
          BY <5>1, <5>2, RequestStep
      <4>2. QED
        BY <4>1
    <3>2. QED
      BY <1>1, <1>4, <2>2, <2>3, <3>1 DEF RequestFrom, Sent, ResponseTo, Answering
  <2>6. QueueInv'
    <3>1. QueueInv /\ DB' = DB
      BY <2>2 DEF RpcInv
    <3>2. \A d \in Clients : d # c => pc'[d] = pc[d] /\ job'[d] = job[d] /\ got'[d] = got[d]
      BY <1>1
    <3>3. r.pid = PidOf[c] /\ s.pid = PidOf[c]
      BY <1>4, <2>3 DEF RequestFrom
    <3>4. \A m \in Range(requests') : m \in Range(requests) /\ m.pid # PidOf[c]
      BY <1>3, <3>3
    <3>5. \A m \in Range(responses') :
            \/ m \in Range(responses) /\ m.pid # PidOf[c]
            \/ m.pid = PidOf[c] /\ Answering(m, pc'[c], job'[c], got'[c], DB')
      <4>1. Answering(s, pc'[c], job'[c], got'[c], DB')
        BY <2>5 DEF ResponseTo
      <4>2. \A m \in Range(responses) : m.pid # r.pid
        BY <1>3, <3>1 DEF QueueInv
      <4>3. QED
        BY <2>4, <3>3, <4>1, <4>2
    <3>6. \A m \in Range(requests'), n \in Range(responses') : m.pid # n.pid
      BY <3>3, <1>3, <2>3, <2>4 DEF RpcInv, QueueInv
    <3>7. QED
      BY <1>3, <2>4, <3>1, <3>2, <3>4, <3>5, <3>6, StillQueued
  <2>7. LockInv'
    BY <1>1, <1>6, <2>2 DEF RpcInv, LockInv
  <2>8. QED
    BY <1>1, <1>5, <2>1, <2>2, <2>6, <2>7 DEF RpcInv, SameViews
\* It works for the client that has the lock.
<1>8. CASE r.op # "IS_RWFM_ENABLED"
  <2>1. PICK h : /\ Knows(job[c], h, DB) /\ Request(job[c], h) # Done
                 /\ r.op = Request(job[c], h).op /\ r.args = Request(job[c], h).args
                 /\ pc[c] \in {"receive", "dead"}
                 /\ pc[c] = "receive" => h = Vals(got[c])
    <3>1. CASE pc[c] = "dead"
      BY <1>4, <1>8, <3>1 DEF RequestFrom, Sent
    <3>2. CASE pc[c] = "receive"
      <4>1. got[c] # <<>>
        <5>1. ASSUME got[c] = <<>>
              PROVE  FALSE
          <6>1. Len(Vals(got[c])) = 0
            BY <5>1, ValsFacts DEF RpcInv, ClientInv, ClientOK
          <6>2. QED
            BY <1>4, <1>8, <3>2, <6>1, FirstRequest DEF RequestFrom, Sent
        <5>2. QED
          BY <5>1
      <4>2. QED
        BY <1>4, <3>2, <4>1 DEF RequestFrom, Sent
    <3>3. QED
      BY <1>4, <3>1, <3>2 DEF RequestFrom, Sent
  <2>2. JobOK(job[c]) /\ DBOK(DB)
    BY <2>1, JobTyped DEF RpcInv, ClientInv, ClientOK
  <2>3. Holds(c)
    BY <1>3, <1>4, <1>8 DEF Holds, HasLock, RequestFrom
  <2>4. semaphore # 1 /\ \A d \in Clients : d # c => ~Holds(d)
    BY <2>3 DEF RpcInv, LockInv
  <2>5. \A d \in Clients : d # c =>
          /\ pc[d] \in {"send", "receive"} => got[d] = <<>>
          /\ \A m \in Range(requests) : m.pid = PidOf[d] => m.op = "IS_RWFM_ENABLED"
    BY <2>4 DEF Holds, HasLock
  <2>6. \A m \in Range(requests') : \E d \in Clients : RequestFrom(d, m)'
    <3>1. ASSUME NEW m \in Range(requests')
          PROVE  \E d \in Clients : RequestFrom(d, m)'
      <4>1. m \in Range(requests) /\ m.pid # r.pid
        BY <1>3
      <4>2. PICK d \in Clients : RequestFrom(d, m)
        BY <4>1 DEF RpcInv, QueueInv
      <4>3. d # c
        BY <1>4, <4>1, <4>2 DEF RequestFrom
      <4>4. QED
        BY <1>1, <2>5, <4>1, <4>2, <4>3 DEF RequestFrom, Sent
    <3>2. QED
      BY <3>1
  <2>7. LockInv'
    <3>1. \A d \in Clients : ~(pc[d] = "send" /\ got[d] # <<>>)
      BY <2>1, <2>5
    <3>2. QED
      BY <1>1, <1>6, <2>4, <3>1 DEF RpcInv, LockInv
  <2>9. CASE Stopping(r.op, r.args, DB) /\ DB' = DB /\ server' = "stopped" /\ responses' = <<>>
    <3>1. Stops(job[c], DB)
      BY <2>1, <2>2, <2>9, RequestStep
    <3>2. IsSeq(responses') /\ OnePerPid(responses') /\ Range(responses') = {}
      <4>1. <<>> \in Seq({}) /\ Len(<<>>) = 0
        BY EmptySeq
      <4>2. <<>> \in Seq(Range(<<>>)) /\ DOMAIN <<>> = 1..0
        BY <4>1, SeqOfRange, LenProperties
      <4>3. QED
        BY <2>9, <4>1, <4>2 DEF IsSeq, OnePerPid, Range
    <3>3. QueueInv'
      BY <1>3, <2>6, <3>2 DEF QueueInv
    <3>4. ServedAs(c)
      BY <2>2, <2>9, <3>1 DEF ServedAs, SameViews
    <3>5. QED
      BY <1>1, <1>4, <1>5, <2>2, <2>7, <2>9, <3>3, <3>4 DEF RpcInv, RequestFrom, r
  <2>10. ASSUME NEW val, Serving(r.op, r.args, val, DB, DB'), server' = server,
                responses' = Append(responses, [pid |-> r.pid, op |-> r.op, val |-> val])
         PROVE  RpcInv' /\ (SameViews(DB, DB') \/ Checks(job[c], DB, DB'))
    <3>1. /\ DBOK(DB') /\ Knows(job[c], Append(h, val), DB')
          /\ SameViews(DB, DB') \/ Checks(job[c], DB, DB')
      BY <2>1, <2>2, <2>10, RequestStep
    <3>s. PICK s : s = [pid |-> r.pid, op |-> r.op, val |-> val]
      OBVIOUS
    <3>2. s.pid = r.pid /\ s.op = r.op /\ s.val = val
      BY <3>s
    <3>3. /\ IsSeq(responses') /\ OnePerPid(responses')
          /\ \A m \in Range(responses') : m \in Range(responses) \/ m = s
      BY <1>3, <2>10, <3>2, <3>s, QueueAppend DEF RpcInv, QueueInv
    <3>4. ResponseTo(c, s)'
      BY <1>1, <1>4, <2>1, <3>1, <3>2 DEF RequestFrom, ResponseTo, Answering
    <3>5. ASSUME NEW m \in Range(responses)
          PROVE  \E d \in Clients : ResponseTo(d, m)'
      <4>1. PICK d \in Clients : ResponseTo(d, m)
        BY DEF RpcInv, QueueInv
      <4>2. d # c
        BY <1>3, <1>4, <4>1 DEF RpcInv, QueueInv, RequestFrom, ResponseTo
      <4>3. m.pid = PidOf[d] /\ Answering(m, pc[d], job[d], got[d], DB)
        BY <4>1 DEF ResponseTo
      <4>4. pc[d] = "receive" => got[d] = <<>>
        BY <2>5, <4>2
      <4>5. Answering(m, pc[d], job[d], got[d], DB')
        BY <4>3, <4>4 DEF Answering
      <4>6. ResponseTo(d, m)'
        BY <1>1, <4>3, <4>5 DEF ResponseTo
      <4>7. QED
        BY <4>6
    <3>6. \A m \in Range(responses') : \E d \in Clients : ResponseTo(d, m)'
      BY <3>3, <3>4, <3>5
    <3>7. \A m \in Range(requests'), n \in Range(responses') : m.pid # n.pid
      BY <1>3, <3>2, <3>3 DEF RpcInv, QueueInv
    <3>8. QueueInv'
      BY <1>3, <2>6, <3>3, <3>6, <3>7 DEF QueueInv
    <3>9. QED
      BY <1>5, <2>7, <3>1, <3>8 DEF RpcInv
  <2>11. QED
    BY <1>1, <1>2, <1>4, <2>2, <2>9, <2>10 DEF ServedAs, RequestFrom, r
<1>9. QED
  BY <1>7, <1>8

\* What no action of a client changes, and what none of a client changes of
\* the others.
LEMMA ClientFrame ==
  ASSUME ClientInv, NEW c \in Clients, UNCHANGED <<tables, uid, server>>,
         DOMAIN job' = Clients, DOMAIN got' = Clients, pc' \in [Clients -> PcType],
         \A d \in Clients : d # c => pc'[d] = pc[d] /\ job'[d] = job[d] /\ got'[d] = got[d],
         ClientOK(pc'[c], job'[c], got'[c], Births(c) \cup Calls(c, Clients))
  PROVE  ClientInv' /\ DB' = DB
<1>1. DB' = DB
  BY DEF DB, tables
<1>2. \A d \in Clients : Births(d)' = Births(d) /\ Calls(d, Clients)' = Calls(d, Clients)
  BY DEF Births, Calls, Self
<1>3. ClientInv'
  BY <1>2 DEF ClientInv
<1>4. QED
  BY <1>1, <1>3

LEMMA BeginStep ==
  ASSUME SingleThreaded, RpcInv, NEW c \in Clients, Begin(c)
  PROVE  RpcInv'
<1>1. /\ pc[c] \in {"born", "idle"} /\ got[c] = <<>> /\ IsSeq(got[c])
      /\ pc \in [Clients -> PcType] /\ DOMAIN job = Clients /\ DOMAIN got = Clients
  BY DEF Begin, RpcInv, ClientInv, ClientOK
<1>2. PICK j \in Births(c) \cup Calls(c, Clients) :
        /\ job' = [job EXCEPT ![c] = j] /\ pc' = [pc EXCEPT ![c] = "send"]
        /\ UNCHANGED <<tables, server, semaphore, requests, responses, got, uid>>
  <2>1. \A peers \in SUBSET Clients : Calls(c, peers) \subseteq Calls(c, Clients)
    BY DEF Calls
  <2>2. QED
    BY <2>1 DEF Begin, queues
<1>3. pc'[c] = "send" /\ job'[c] = j /\ got'[c] = <<>> /\ pc' \in [Clients -> PcType]
  BY <1>1, <1>2 DEF PcType
<1>4. ClientInv' /\ DB' = DB
  <2>1. ClientOK(pc'[c], job'[c], got'[c], Births(c) \cup Calls(c, Clients))
    BY <1>1, <1>2, <1>3 DEF ClientOK
  <2>2. \A d \in Clients : d # c => pc'[d] = pc[d] /\ job'[d] = job[d] /\ got'[d] = got[d]
    BY <1>1, <1>2
  <2>3. ClientInv
    BY DEF RpcInv
  <2>4. QED
    BY <1>1, <1>2, <1>3, <2>1, <2>2, <2>3, ClientFrame
<1>5. QueueInv'
  <2>1. \A m \in Range(requests) \cup Range(responses) : m.pid # PidOf[c]
    BY <1>1, QueuedFor
  <2>2. QueueInv /\ requests' = requests /\ responses' = responses
    BY <1>2 DEF RpcInv
  <2>3. /\ DB' = DB
        /\ \A d \in Clients : d # c => pc'[d] = pc[d] /\ job'[d] = job[d] /\ got'[d] = got[d]
    BY <1>1, <1>2, <1>4
  <2>4. /\ \A m \in Range(requests') : m \in Range(requests) /\ m.pid # PidOf[c]
        /\ \A m \in Range(responses') : m \in Range(responses) /\ m.pid # PidOf[c]
    BY <2>1, <2>2
  <2>5. /\ IsSeq(requests') /\ OnePerPid(requests')
        /\ IsSeq(responses') /\ OnePerPid(responses')
        /\ \A m \in Range(requests'), n \in Range(responses') : m.pid # n.pid
    BY <2>2 DEF QueueInv
  <2>6. QED
    BY <2>2, <2>3, <2>4, <2>5, StillQueued
<1>6. LockInv'
  <2>1. \A d \in Clients : Holds(d)' => Holds(d)
    BY <1>1, <1>2, <1>3 DEF Holds, HasLock
  <2>2. \A d \in Clients : pc'[d] = "send" /\ got'[d] # <<>> =>
                             Knows(job'[d], Vals(got'[d]), DB')
    BY <1>1, <1>2, <1>3, <1>4 DEF RpcInv, LockInv
  <2>3. QED
    BY <1>2, <1>4, <2>1, <2>2 DEF RpcInv, LockInv
<1>7. QED
  BY <1>4, <1>5, <1>6 DEF RpcInv

LEMMA SendStep ==
  ASSUME SingleThreaded, RpcInv, NEW c \in Clients, Send(c)
  PROVE  RpcInv'
<1> DEFINE v == Vals(got[c])
<1>1. /\ pc[c] = "send" /\ IsSeq(got[c])
      /\ pc \in [Clients -> PcType] /\ DOMAIN job = Clients /\ DOMAIN got = Clients
      /\ ClientOK(pc[c], job[c], got[c], Births(c) \cup Calls(c, Clients))
  BY DEF Send, RpcInv, ClientInv, ClientOK
<1>2. PICK r, ask :
        /\ ask = Request(job[c], v) /\ ask # Done
        /\ r = [pid |-> PidOf[c], op |-> ask.op, args |-> ask.args]
        /\ requests' = Append(requests, r) /\ pc' = [pc EXCEPT ![c] = "receive"]
        /\ UNCHANGED <<tables, server, semaphore, responses, job, got, uid>>
  BY AskedByVals DEF Send
<1>3. r.pid = PidOf[c] /\ r.op = ask.op /\ r.args = ask.args
  BY <1>2
<1>4. /\ pc'[c] = "receive" /\ pc' \in [Clients -> PcType]
      /\ \A d \in Clients : d # c => pc'[d] = pc[d]
  BY <1>1, <1>2 DEF PcType
<1> HIDE DEF v
<1>5. ClientInv' /\ DB' = DB
  <2>1. ClientOK(pc'[c], job'[c], got'[c], Births(c) \cup Calls(c, Clients))
    BY <1>1, <1>2, <1>4 DEF ClientOK
  <2>2. ClientInv
    BY DEF RpcInv
  <2>3. QED
    BY <1>1, <1>2, <1>4, <2>1, <2>2, ClientFrame
<1>6. \A m \in Range(requests) \cup Range(responses) : m.pid # PidOf[c]
  BY <1>1, QueuedFor
<1>7. QueueInv'
  <2>1. QueueInv /\ responses' = responses
    BY <1>2 DEF RpcInv
  <2>2. /\ IsSeq(requests') /\ OnePerPid(requests')
        /\ \A m \in Range(requests') : m \in Range(requests) \/ m = r
    BY <1>2, <1>3, <1>6, <2>1, QueueAppend DEF QueueInv
  <2>3. r.pid = PidOf[c] /\ Sent(r, pc'[c], job'[c], got'[c], DB')
    <3>1. got[c] # <<>> => Knows(job[c], v, DB)
      BY <1>1 DEF RpcInv, LockInv, v
    <3>2. QED
      BY <1>2, <1>3, <1>4, <1>5, <3>1 DEF Sent, v
  <2>4. /\ DB' = DB
        /\ \A d \in Clients : d # c => pc'[d] = pc[d] /\ job'[d] = job[d] /\ got'[d] = got[d]
    BY <1>2, <1>4, <1>5
  <2>5. /\ \A m \in Range(requests') :
             \/ m \in Range(requests) /\ m.pid # PidOf[c]
             \/ m.pid = PidOf[c] /\ Sent(m, pc'[c], job'[c], got'[c], DB')
        /\ \A m \in Range(responses') : m \in Range(responses) /\ m.pid # PidOf[c]
    BY <1>6, <2>1, <2>2, <2>3
  <2>6. /\ IsSeq(responses') /\ OnePerPid(responses')
        /\ \A m \in Range(requests'), n \in Range(responses') : m.pid # n.pid
    BY <1>3, <1>6, <2>1, <2>2 DEF QueueInv
  <2>7. QED
    BY <2>1, <2>2, <2>4, <2>5, <2>6, StillQueued
<1>8. LockInv'
  <2>1. got[c] = <<>> => r.op = "IS_RWFM_ENABLED"
    <3>1. got[c] = <<>> => Len(v) = 0
      BY <1>1, ValsFacts DEF v
    <3>2. QED
      BY <1>2, <1>3, <3>1, FirstRequest
  <2>2. ASSUME NEW d \in Clients, Holds(d)'
        PROVE  Holds(d)
    <3>1. CASE pc'[d] \in {"send", "receive"} /\ got'[d] # <<>>
      BY <1>1, <1>2, <1>4, <3>1 DEF Holds, HasLock
    <3>2. CASE \E m \in Range(requests') : m.pid = PidOf[d] /\ m.op # "IS_RWFM_ENABLED"
      <4>1. PICK m \in Range(requests') : m.pid = PidOf[d] /\ m.op # "IS_RWFM_ENABLED"
        BY <3>2
      <4>2. m \in Range(requests) \/ m = r
        BY <1>2, QueueAppend, <4>1 DEF RpcInv, QueueInv
      <4>3. CASE m \in Range(requests)
        BY <4>1, <4>3 DEF Holds, HasLock
      <4>4. CASE m = r
        <5>1. d = c
          BY <1>3, <4>1, <4>4 DEF SingleThreaded
        <5>2. got[c] # <<>>
          BY <2>1, <4>1, <4>4
        <5>3. QED
          BY <1>1, <5>1, <5>2 DEF Holds, HasLock
      <4>5. QED
        BY <4>2, <4>3, <4>4
    <3>3. QED
      BY <2>2, <3>1, <3>2 DEF Holds, HasLock
  <2>3. \A d \in Clients : pc'[d] = "send" /\ got'[d] # <<>> =>
                             Knows(job'[d], Vals(got'[d]), DB')
    BY <1>2, <1>4, <1>5 DEF RpcInv, LockInv
  <2>4. QED
    BY <1>2, <1>5, <2>2, <2>3 DEF RpcInv, LockInv
<1>9. QED
  BY <1>5, <1>7, <1>8 DEF RpcInv

LEMMA ReceiveStep ==
  ASSUME SingleThreaded, RpcInv, NEW c \in Clients, Receive(c)
  PROVE  /\ RpcInv'
         /\ job' = job /\ \A d \in Clients : d # c => got'[d] = got[d]
         /\ \E e : /\ got'[c] = Append(got[c], e)
                   /\ e.op = Request(job[c], Vals(got[c])).op
<1> DEFINE i == SelectInSeq(responses, LAMBDA r : r.pid = PidOf[c])
<1>1. /\ pc[c] = "receive" /\ IsSeq(got[c])
      /\ pc \in [Clients -> PcType] /\ DOMAIN job = Clients /\ DOMAIN got = Clients
      /\ ClientOK(pc[c], job[c], got[c], Births(c) \cup Calls(c, Clients))
      /\ IsSeq(responses) /\ OnePerPid(responses)
  BY DEF Receive, RpcInv, ClientInv, ClientOK, QueueInv
<1>2. /\ i # 0
      /\ got' = [got EXCEPT ![c] = Append(@, [op |-> responses[i].op, val |-> responses[i].val])]
      /\ responses' = RemoveAt(responses, i)
      /\ pc' = [pc EXCEPT ![c] = IF got[c] = <<>> THEN "lock" ELSE "send"]
      /\ UNCHANGED <<tables, server, semaphore, requests, job, uid>>
  BY DEF Receive
<1>3. i \in 1..Len(responses) /\ responses[i].pid = PidOf[c]
  BY <1>1, <1>2, AnswerFound
<1> HIDE DEF i
<1>4. PICK s : s = responses[i]
  OBVIOUS
<1>5. PICK e : e = [op |-> s.op, val |-> s.val]
  OBVIOUS
<1>6. e.op = s.op /\ e.val = s.val
  BY <1>5
<1>7. /\ IsSeq(responses') /\ OnePerPid(responses') /\ s \in Range(responses)
      /\ \A m \in Range(responses') : m \in Range(responses) /\ m.pid # PidOf[c]
  BY <1>1, <1>2, <1>3, <1>4, QueueRemove
<1>8. Answering(s, pc[c], job[c], got[c], DB) /\ s.pid = PidOf[c]
  BY <1>3, <1>4, <1>7, QueuedFor DEF ResponseTo
<1>9. \A m \in Range(requests) : m.pid # PidOf[c]
  BY <1>7, <1>8 DEF RpcInv, QueueInv
<1>10. /\ got'[c] = Append(got[c], e) /\ job' = job
       /\ pc'[c] = (IF got[c] = <<>> THEN "lock" ELSE "send") /\ pc' \in [Clients -> PcType]
       /\ DOMAIN got' = Clients
       /\ \A d \in Clients : d # c => pc'[d] = pc[d] /\ got'[d] = got[d]
  BY <1>1, <1>2, <1>4, <1>5 DEF PcType
<1>11. /\ IsSeq(got'[c]) /\ Len(got'[c]) = Len(got[c]) + 1 /\ Len(got[c]) \in Nat
       /\ Vals(got'[c]) = Append(Vals(got[c]), s.val)
       /\ got[c] = <<>> => Len(got[c]) = 0
  BY <1>1, <1>6, <1>10, AppendFacts, ValsFacts, EmptySeq
<1>12. e.op = Request(job[c], Vals(got[c])).op
  BY <1>1, <1>6, <1>8 DEF Answering
<1>13. got[c] # <<>> => Knows(job[c], Vals(got'[c]), DB)
  BY <1>1, <1>8, <1>11 DEF Answering
<1>14. ClientInv' /\ DB' = DB
  <2>1. ClientOK(pc'[c], job'[c], got'[c], Births(c) \cup Calls(c, Clients))
    BY <1>1, <1>10, <1>11 DEF ClientOK
  <2>2. ClientInv
    BY DEF RpcInv
  <2>3. QED
    BY <1>1, <1>2, <1>10, <2>1, <2>2, ClientFrame
<1>15. QueueInv'
  <2>1. QueueInv /\ requests' = requests
    BY <1>2 DEF RpcInv
  <2>2. /\ DB' = DB
        /\ \A d \in Clients : d # c => pc'[d] = pc[d] /\ job'[d] = job[d] /\ got'[d] = got[d]
    BY <1>10, <1>14
  <2>3. /\ \A m \in Range(requests') : m \in Range(requests) /\ m.pid # PidOf[c]
        /\ \A m \in Range(responses') : m \in Range(responses) /\ m.pid # PidOf[c]
    BY <1>7, <1>9, <2>1
  <2>4. /\ IsSeq(requests') /\ OnePerPid(requests')
        /\ IsSeq(responses') /\ OnePerPid(responses')
        /\ \A m \in Range(requests'), n \in Range(responses') : m.pid # n.pid
    BY <1>7, <2>1 DEF QueueInv
  <2>5. QED
    BY <2>1, <2>2, <2>3, <2>4, StillQueued
<1>16. LockInv'
  <2>1. \A d \in Clients : Holds(d)' => Holds(d)
    <3>1. Holds(c)' => Holds(c)
      BY <1>1, <1>2, <1>10 DEF Holds, HasLock
    <3>2. ASSUME NEW d \in Clients, d # c, Holds(d)'
          PROVE  Holds(d)
      BY <1>2, <1>10, <3>2 DEF Holds, HasLock
    <3>3. QED
      BY <3>1, <3>2
  <2>2. \A d \in Clients : pc'[d] = "send" /\ got'[d] # <<>> =>
                             Knows(job'[d], Vals(got'[d]), DB')
    <3>1. pc'[c] = "send" => Knows(job'[c], Vals(got'[c]), DB')
      BY <1>10, <1>13, <1>14
    <3>2. \A d \in Clients : pc[d] = "send" /\ got[d] # <<>> => Knows(job[d], Vals(got[d]), DB)
      BY DEF RpcInv, LockInv
    <3>3. ASSUME NEW d \in Clients, pc'[d] = "send", got'[d] # <<>>
          PROVE  Knows(job'[d], Vals(got'[d]), DB')
      BY <1>10, <1>14, <3>1, <3>2, <3>3
    <3>4. QED
      BY <3>3
  <2>3. QED
    BY <1>2, <1>14, <2>1, <2>2 DEF RpcInv, LockInv
<1>17. QED
  BY <1>10, <1>12, <1>14, <1>15, <1>16 DEF RpcInv

LEMMA LockStep ==
  ASSUME SingleThreaded, RpcInv, NEW c \in Clients, Lock(c)
  PROVE  RpcInv'
<1>1. /\ pc[c] = "lock" /\ semaphore = 1 /\ IsSeq(got[c]) /\ Len(got[c]) = 1
      /\ pc \in [Clients -> PcType] /\ DOMAIN job = Clients /\ DOMAIN got = Clients
      /\ ClientOK(pc[c], job[c], got[c], Births(c) \cup Calls(c, Clients))
  BY DEF Lock, RpcInv, ClientInv, ClientOK, LockInv
<1>2. /\ semaphore' = 0 /\ pc' = [pc EXCEPT ![c] = "send"]
      /\ UNCHANGED <<tables, server, requests, responses, job, got, uid>>
  BY <1>1 DEF Lock, queues
<1>3. /\ pc'[c] = "send" /\ pc' \in [Clients -> PcType]
      /\ \A d \in Clients : d # c => pc'[d] = pc[d]
  BY <1>1, <1>2 DEF PcType
<1>4. ClientInv' /\ DB' = DB
  <2>1. ClientOK(pc'[c], job'[c], got'[c], Births(c) \cup Calls(c, Clients))
    BY <1>1, <1>2, <1>3 DEF ClientOK
  <2>2. ClientInv
    BY DEF RpcInv
  <2>3. QED
    BY <1>1, <1>2, <1>3, <2>1, <2>2, ClientFrame
<1>5. QueueInv'
  <2>1. \A m \in Range(requests) \cup Range(responses) : m.pid # PidOf[c]
    BY <1>1, QueuedFor
  <2>2. QueueInv /\ requests' = requests /\ responses' = responses
    BY <1>2 DEF RpcInv
  <2>3. /\ DB' = DB
        /\ \A d \in Clients : d # c => pc'[d] = pc[d] /\ job'[d] = job[d] /\ got'[d] = got[d]
    BY <1>2, <1>3, <1>4
  <2>4. /\ \A m \in Range(requests') : m \in Range(requests) /\ m.pid # PidOf[c]
        /\ \A m \in Range(responses') : m \in Range(responses) /\ m.pid # PidOf[c]
    BY <2>1, <2>2
  <2>5. /\ IsSeq(requests') /\ OnePerPid(requests')
        /\ IsSeq(responses') /\ OnePerPid(responses')
        /\ \A m \in Range(requests'), n \in Range(responses') : m.pid # n.pid
    BY <2>2 DEF QueueInv
  <2>6. QED
    BY <2>2, <2>3, <2>4, <2>5, StillQueued
<1>6. LockInv'
  <2>1. Whole(DB) /\ \A d \in Clients : ~Holds(d)
    BY <1>1 DEF RpcInv, LockInv
  <2>2. ASSUME NEW d \in Clients, d # c
        PROVE  ~Holds(d)' /\ ~(pc'[d] = "send" /\ got'[d] # <<>>)
    BY <1>2, <1>3, <2>1, <2>2 DEF Holds, HasLock
  <2>3. Knows(job'[c], Vals(got'[c]), DB')
    <3>1. IsSeq(Vals(got[c])) /\ Len(Vals(got[c])) = 1
      BY <1>1, ValsFacts
    <3>2. QED
      BY <1>2, <1>4, <2>1, <3>1, KnowsFirst
  <2>4. \A d \in Clients : pc'[d] = "send" /\ got'[d] # <<>> =>
                             Knows(job'[d], Vals(got'[d]), DB')
    BY <2>2, <2>3
  <2>5. \A d, f \in Clients : Holds(d)' /\ Holds(f)' => d = f
    BY <2>2
  <2>6. QED
    BY <1>2, <2>4, <2>5 DEF LockInv
<1>7. QED
  BY <1>4, <1>5, <1>6 DEF RpcInv

LEMMA UnlockStep ==
  ASSUME SingleThreaded, RpcInv, NEW c \in Clients, Unlock(c)
  PROVE  RpcInv' /\ got'[c] = <<>> /\ \A d \in Clients : d # c => got'[d] = got[d] /\ job'[d] = job[d]
<1>1. /\ pc[c] = "send" /\ IsSeq(got[c])
      /\ pc \in [Clients -> PcType] /\ DOMAIN job = Clients /\ DOMAIN got = Clients
      /\ ClientOK(pc[c], job[c], got[c], Births(c) \cup Calls(c, Clients))
  BY DEF Unlock, RpcInv, ClientInv, ClientOK
<1>2. Request(job[c], Vals(got[c])) = Done
  BY AskedByVals DEF Unlock
<1>3. /\ semaphore' = semaphore + 1 /\ pc' = [pc EXCEPT ![c] = "idle"]
      /\ job' = [job EXCEPT ![c] = [check |-> "none"]]
      /\ got' = [got EXCEPT ![c] = <<>>]
      /\ UNCHANGED <<tables, server, requests, responses, uid>>
  BY DEF Unlock, queues
<1>4. /\ pc'[c] = "idle" /\ pc' \in [Clients -> PcType] /\ got'[c] = <<>>
      /\ DOMAIN job' = Clients /\ DOMAIN got' = Clients
      /\ \A d \in Clients : d # c => pc'[d] = pc[d] /\ job'[d] = job[d] /\ got'[d] = got[d]
  BY <1>1, <1>3 DEF PcType
<1>5. ClientInv' /\ DB' = DB
  <2>1. ClientOK(pc'[c], job'[c], got'[c], Births(c) \cup Calls(c, Clients))
    <3>1. IsSeq(<<>>)
      BY EmptySeq, SeqOfRange DEF IsSeq
    <3>2. QED
      BY <1>4, <3>1 DEF ClientOK
  <2>2. ClientInv
    BY DEF RpcInv
  <2>3. QED
    BY <1>3, <1>4, <2>1, <2>2, ClientFrame
<1>6. \A m \in Range(requests) \cup Range(responses) : m.pid # PidOf[c]
  BY <1>1, QueuedFor
<1>7. QueueInv'
  <2>1. QueueInv /\ requests' = requests /\ responses' = responses
    BY <1>3 DEF RpcInv
  <2>2. /\ DB' = DB
        /\ \A d \in Clients : d # c => pc'[d] = pc[d] /\ job'[d] = job[d] /\ got'[d] = got[d]
    BY <1>4, <1>5
  <2>3. /\ \A m \in Range(requests') : m \in Range(requests) /\ m.pid # PidOf[c]
        /\ \A m \in Range(responses') : m \in Range(responses) /\ m.pid # PidOf[c]
    BY <1>6, <2>1
  <2>4. /\ IsSeq(requests') /\ OnePerPid(requests')
        /\ IsSeq(responses') /\ OnePerPid(responses')
        /\ \A m \in Range(requests'), n \in Range(responses') : m.pid # n.pid
    BY <2>1 DEF QueueInv
  <2>5. QED
    BY <2>1, <2>2, <2>3, <2>4, StillQueued
\* It had the lock, and the tables are whole again.
<1>8. got[c] # <<>>
  <2>1. ASSUME got[c] = <<>>
        PROVE  FALSE
    <3>1. Len(Vals(got[c])) = 0
      BY <1>1, <2>1, ValsFacts
    <3>2. QED
      BY <1>2, <3>1, FirstRequest
  <2>2. QED
    BY <2>1
<1>9. LockInv'
  <2>1. Holds(c) /\ semaphore = 0 /\ \A d \in Clients : d # c => ~Holds(d)
    <3>1. Holds(c)
      BY <1>1, <1>8 DEF Holds, HasLock
    <3>2. QED
      BY <3>1 DEF RpcInv, LockInv
  <2>2. Whole(DB)
    <3>1. Knows(job[c], Vals(got[c]), DB)
      BY <1>1, <1>8 DEF RpcInv, LockInv
    <3>2. JobOK(job[c]) /\ DBOK(DB)
      BY <1>1, JobTyped DEF RpcInv, ClientInv, ClientOK
    <3>3. QED
      BY <1>2, <3>1, <3>2, DoneStep
  <2>3. \A d \in Clients : ~Holds(d)'
    <3>1. ~Holds(c)'
      BY <1>3, <1>4, <1>6 DEF Holds, HasLock
    <3>2. ASSUME NEW d \in Clients, d # c
          PROVE  ~Holds(d)'
      BY <1>3, <1>4, <2>1, <3>2 DEF Holds, HasLock
    <3>3. QED
      BY <3>1, <3>2
  <2>4. semaphore' = 1
    BY <1>3, <2>1
  <2>5. \A d \in Clients : pc'[d] = "send" /\ got'[d] # <<>> =>
                             Knows(job'[d], Vals(got'[d]), DB')
    BY <1>4, <2>1 DEF Holds, HasLock
  <2>6. QED
    BY <1>5, <2>2, <2>3, <2>4, <2>5 DEF LockInv
<1>10. QED
  BY <1>4, <1>5, <1>7, <1>9 DEF RpcInv

LEMMA DieStep ==
  ASSUME SingleThreaded, RpcInv, NEW c \in Clients, Die(c)
  PROVE  RpcInv' /\ job' = job /\ got'[c] = <<>> /\ \A d \in Clients : d # c => got'[d] = got[d]
<1>1. /\ pc[c] \in {"send", "receive", "lock"} /\ IsSeq(got[c])
      /\ pc \in [Clients -> PcType] /\ DOMAIN job = Clients /\ DOMAIN got = Clients
      /\ ClientOK(pc[c], job[c], got[c], Births(c) \cup Calls(c, Clients))
  BY DEF Die, RpcInv, ClientInv, ClientOK
<1>2. /\ pc' = [pc EXCEPT ![c] = "dead"] /\ got' = [got EXCEPT ![c] = <<>>]
      /\ UNCHANGED <<tables, server, semaphore, requests, responses, job, uid>>
  BY DEF Die, queues
<1>3. /\ pc'[c] = "dead" /\ pc' \in [Clients -> PcType] /\ got'[c] = <<>> /\ job' = job
      /\ DOMAIN got' = Clients
      /\ \A d \in Clients : d # c => pc'[d] = pc[d] /\ got'[d] = got[d]
  BY <1>1, <1>2 DEF PcType
<1>4. ClientInv' /\ DB' = DB
  <2>1. ClientOK(pc'[c], job'[c], got'[c], Births(c) \cup Calls(c, Clients))
    <3>1. IsSeq(<<>>)
      BY EmptySeq, SeqOfRange DEF IsSeq
    <3>2. QED
      BY <1>1, <1>3, <3>1 DEF ClientOK
  <2>2. ClientInv
    BY DEF RpcInv
  <2>3. QED
    BY <1>1, <1>2, <1>3, <2>1, <2>2, ClientFrame
\* Its request stays, and was asked by a client that knew where it stood.
<1>5. ASSUME NEW m \in Range(requests), m.pid = PidOf[c]
      PROVE  Sent(m, pc'[c], job'[c], got'[c], DB')
  <2>1. Sent(m, pc[c], job[c], got[c], DB) /\ pc[c] = "receive"
    BY <1>1, <1>5, QueuedFor DEF RequestFrom, Sent
  <2>2. /\ m.op = Request(job[c], Vals(got[c])).op /\ m.args = Request(job[c], Vals(got[c])).args
        /\ Request(job[c], Vals(got[c])) # Done
        /\ got[c] # <<>> => Knows(job[c], Vals(got[c]), DB)
    BY <2>1 DEF Sent
  <2>3. got[c] = <<>> => m.op = "IS_RWFM_ENABLED"
    <3>1. got[c] = <<>> => Len(Vals(got[c])) = 0
      BY <1>1, ValsFacts
    <3>2. QED
      BY <2>2, <3>1, FirstRequest
  <2>4. QED
    BY <1>3, <1>4, <2>2, <2>3 DEF Sent
<1>6. QueueInv'
  <2>1. QueueInv /\ requests' = requests /\ responses' = responses
    BY <1>2 DEF RpcInv
  <2>2. /\ DB' = DB
        /\ \A d \in Clients : d # c => pc'[d] = pc[d] /\ job'[d] = job[d] /\ got'[d] = got[d]
    BY <1>3, <1>4
  <2>3. \A m \in Range(requests') :
          \/ m \in Range(requests) /\ m.pid # PidOf[c]
          \/ m.pid = PidOf[c] /\ Sent(m, pc'[c], job'[c], got'[c], DB')
    BY <1>5, <2>1
  <2>4. \A m \in Range(responses') :
          \/ m \in Range(responses) /\ m.pid # PidOf[c]
          \/ m.pid = PidOf[c] /\ Answering(m, pc'[c], job'[c], got'[c], DB')
    BY <1>3, <2>1 DEF Answering
  <2>5. /\ IsSeq(requests') /\ OnePerPid(requests')
        /\ IsSeq(responses') /\ OnePerPid(responses')
        /\ \A m \in Range(requests'), n \in Range(responses') : m.pid # n.pid
    BY <2>1 DEF QueueInv
  <2>6. QED
    BY <2>1, <2>2, <2>3, <2>4, <2>5, StillQueued
<1>7. LockInv'
  <2>1. \A d \in Clients : Holds(d)' => Holds(d)
    <3>1. Holds(c)' => Holds(c)
      BY <1>2, <1>3 DEF Holds, HasLock
    <3>2. ASSUME NEW d \in Clients, d # c, Holds(d)'
          PROVE  Holds(d)
      BY <1>2, <1>3, <3>2 DEF Holds, HasLock
    <3>3. QED
      BY <3>1, <3>2
  <2>2. \A d \in Clients : pc'[d] = "send" /\ got'[d] # <<>> =>
                             Knows(job'[d], Vals(got'[d]), DB')
    BY <1>3, <1>4 DEF RpcInv, LockInv
  <2>3. QED
    BY <1>2, <1>4, <2>1, <2>2 DEF RpcInv, LockInv
<1>8. QED
  BY <1>3, <1>4, <1>6, <1>7 DEF RpcInv

LEMMA PrefixKept ==
  ASSUME NEW v, IsSeq(v), NEW e, NEW n \in 0..Len(v)
  PROVE  /\ SubSeq(Append(v, e), 1, n) = SubSeq(v, 1, n)
         /\ SubSeq(v, 1, Len(v)) = v
<1> DEFINE w == Append(v, e)
           m == Len(v)
<1>1. IsSeq(w) /\ m \in Nat /\ Len(w) = m + 1 /\ \A i \in 1..m : w[i] = v[i]
  BY AppendFacts
<1> HIDE DEF w
<1>2. SubSeq(v, 1, m) = v
  BY SubSeqFull DEF IsSeq
<1>3. SubSeq(v, 1, n) = Restrict(v, 1..n)
  BY SubSeqRestrict DEF IsSeq
<1>4. SubSeq(w, 1, n) = Restrict(w, 1..n)
  <2>1. n \in 0..Len(w)
    BY <1>1
  <2>2. QED
    BY <1>1, <2>1, SubSeqRestrict DEF IsSeq
<1>5. \A i \in 1..n : w[i] = v[i]
  BY <1>1
<1>6. Restrict(w, 1..n) = Restrict(v, 1..n)
  BY <1>5 DEF Restrict
<1>7. QED
  BY <1>2, <1>3, <1>4, <1>6 DEF w

\* The answers g to check j, each to what was asked then.
Matched(j, g) ==
  \A i \in DOMAIN g : g[i].op = Request(j, SubSeq(Vals(g), 1, i - 1)).op

LEMMA MatchedAppend ==
  ASSUME NEW j, NEW g, IsSeq(g), Matched(j, g), NEW e, e.op = Request(j, Vals(g)).op
  PROVE  Matched(j, Append(g, e))
<1> DEFINE h == Append(g, e)
           v == Vals(g)
<1>1. /\ IsSeq(v) /\ Len(v) = Len(g) /\ Len(g) \in Nat
      /\ Vals(h) = Append(v, e.val)
  BY ValsFacts
<1>2. /\ DOMAIN h = 1..(Len(g) + 1) /\ h[Len(g) + 1] = e /\ DOMAIN g = 1..Len(g)
      /\ \A i \in 1..Len(g) : h[i] = g[i]
  BY AppendFacts
<1> HIDE DEF h, v
<1>3. PICK n \in Nat : n = Len(g)
  BY <1>1
<1>4. \A i \in 1..(n + 1) : i - 1 \in 0..n /\ (i \in 1..n \/ (i = n + 1 /\ i - 1 = n))
  BY <1>3
<1>5. \A k \in 0..n : SubSeq(Vals(h), 1, k) = SubSeq(v, 1, k)
  BY <1>1, <1>3, PrefixKept
<1>6. SubSeq(v, 1, n) = v
  BY <1>1, <1>3, SubSeqFull DEF IsSeq
<1>7. ASSUME NEW i \in 1..(n + 1)
      PROVE  h[i].op = Request(j, SubSeq(Vals(h), 1, i - 1)).op
  <2>1. SubSeq(Vals(h), 1, i - 1) = SubSeq(v, 1, i - 1)
    BY <1>4, <1>5
  <2>2. CASE i \in 1..n
    BY <1>2, <1>3, <2>1, <2>2 DEF Matched, v
  <2>3. CASE i = n + 1 /\ i - 1 = n
    <3>1. SubSeq(v, 1, i - 1) = v
      BY <1>6, <2>3
    <3>2. h[i] = e
      BY <1>2, <1>3, <2>3
    <3>3. QED
      BY <2>1, <3>1, <3>2 DEF v
  <2>4. QED
    BY <1>4, <2>2, <2>3
<1>8. QED
  BY <1>2, <1>3, <1>7 DEF Matched, h

LEMMA SeqTyped ==
  ASSUME NEW s, IsSeq(s), NEW T, \A i \in 1..Len(s) : s[i] \in T
  PROVE  s \in Seq(T)
<1>1. DOMAIN s = 1..Len(s) /\ Len(s) \in Nat /\ s \in [1..Len(s) -> Range(s)]
  BY LenProperties DEF IsSeq
<1>2. s \in [1..Len(s) -> T]
  BY <1>1
<1>3. QED
  BY <1>1, <1>2, SeqDef

\* AnswersMatch, client by client.
LEMMA MatchedAnswers ==
  AnswersMatch <=> \A c \in Clients : Matched(job[c], got[c])
BY AskedByVals DEF AnswersMatch, Matched

-----------------------------------------------------------------------------
(* The theorems *)

LEMMA NextInv ==
  ASSUME SingleThreaded, RpcInv, [Next]_vars
  PROVE  RpcInv'
<1>1. CASE UNCHANGED vars
  <2>1. /\ DB' = DB /\ pc' = pc /\ job' = job /\ got' = got /\ uid' = uid /\ server' = server
        /\ semaphore' = semaphore /\ requests' = requests /\ responses' = responses
    BY <1>1 DEF vars, tables, queues, clients, DB
  <2>2. ClientInv'
    <3>1. \A d \in Clients : Births(d)' = Births(d) /\ Calls(d, Clients)' = Calls(d, Clients)
      BY <2>1 DEF Births, Calls, Self
    <3>2. QED
      BY <2>1, <3>1 DEF RpcInv, ClientInv
  <2>3. QueueInv'
    BY <2>1 DEF RpcInv, QueueInv, RequestFrom, ResponseTo
  <2>4. LockInv'
    BY <2>1 DEF RpcInv, LockInv, Holds
  <2>5. QED
    BY <2>1, <2>2, <2>3, <2>4 DEF RpcInv
<1>2. CASE server = "up" /\ Serve
  BY <1>2, ServeStep
<1>3. ASSUME NEW c \in Clients, Begin(c) \/ Send(c) \/ Receive(c) \/ Lock(c) \/ Unlock(c) \/ Die(c)
      PROVE  RpcInv'
  BY <1>3, BeginStep, SendStep, ReceiveStep, LockStep, UnlockStep, DieStep
<1>4. QED
  BY <1>1, <1>2, <1>3 DEF Next

(***************************************************************************)
(* The arrays are consistent, the messages in the two queues are from and  *)
(* for clients that wait for an answer or died, and whoever has the lock   *)
(* knows from its answers what the tables say.                             *)
(***************************************************************************)
THEOREM RpcInvariance == SingleThreaded => (Spec => []RpcInv)
<1> SUFFICES ASSUME SingleThreaded PROVE Spec => []RpcInv
  OBVIOUS
<1>1. Init => RpcInv
  BY InitInv
<1>2. RpcInv /\ [Next]_vars => RpcInv'
  BY NextInv
<1>3. QED
  BY <1>1, <1>2, PTL DEF Spec

LEMMA TypesFollow ==
  ASSUME RpcInv
  PROVE  TypeOK
<1>1. all_subject_ids \in Seq({Host} \X Users \X Pids) /\ all_subjects \in Seq(Rows)
  <2>1. /\ TableOK(all_subject_ids, all_subjects)
        /\ \A i \in 1..Len(all_subject_ids) : all_subject_ids[i] \in {Host} \X Users \X Pids
    BY DEF RpcInv, DBOK, DB, SubjectIdType
  <2>2. QED
    BY <2>1, SeqTyped DEF TableOK
<1>2. all_object_ids \in Seq({Host} \X Files) /\ all_objects \in Seq(Rows)
  <2>1. /\ TableOK(all_object_ids, all_objects)
        /\ \A i \in 1..Len(all_object_ids) : all_object_ids[i] \in {Host} \X Files
    BY DEF RpcInv, DBOK, DB, ObjectIdType
  <2>2. QED
    BY <2>1, SeqTyped DEF TableOK
<1>3. \A i \in DOMAIN requests : requests[i].pid \in Pids
  <2>1. ASSUME NEW i \in DOMAIN requests
        PROVE  requests[i].pid \in Pids
    <3>1. requests[i] \in Range(requests)
      BY DEF Range
    <3>2. PICK c \in Clients : RequestFrom(c, requests[i])
      BY <3>1 DEF RpcInv, QueueInv
    <3>3. QED
      BY <3>2, RpcAssumption DEF RequestFrom
  <2>2. QED
    BY <2>1
<1>4. \A i \in DOMAIN responses : responses[i].pid \in Pids
  <2>1. ASSUME NEW i \in DOMAIN responses
        PROVE  responses[i].pid \in Pids
    <3>1. responses[i] \in Range(responses)
      BY DEF Range
    <3>2. PICK c \in Clients : ResponseTo(c, responses[i])
      BY <3>1 DEF RpcInv, QueueInv
    <3>3. QED
      BY <3>2, RpcAssumption DEF ResponseTo
  <2>2. QED
    BY <2>1
<1>5. /\ server \in {"up", "stopped"} /\ semaphore \in {0, 1} /\ uid \in [Pids -> Users]
      /\ pc \in [Clients -> {"born", "idle", "send", "receive", "lock", "dead"}]
      /\ \A c \in Clients : pc[c] \in {"send", "receive", "lock"} =>
                              job[c] \in Births(c) \cup Calls(c, Clients)
  BY DEF RpcInv, ClientInv, ClientOK, LockInv, PcType
<1>6. QED
  BY <1>1, <1>2, <1>3, <1>4, <1>5 DEF TypeOK

(***************************************************************************)
(* The arrays, queues and clients keep their types.                        *)
(***************************************************************************)
THEOREM DatabaseRpcTypes == SingleThreaded => (Spec => []TypeOK)
<1> SUFFICES ASSUME SingleThreaded PROVE Spec => []TypeOK
  OBVIOUS
<1>1. RpcInv => TypeOK
  BY TypesFollow
<1>2. QED
  BY RpcInvariance, <1>1, PTL

(***************************************************************************)
(* When the lock is free, no id in the arrays is without its row: a check  *)
(* that would be sent on to add_subject or add_object has got there.       *)
(***************************************************************************)
THEOREM IdsGetRows == SingleThreaded => (Spec => []IdsHaveRows)
<1> SUFFICES ASSUME SingleThreaded PROVE Spec => []IdsHaveRows
  OBVIOUS
<1>1. RpcInv => IdsHaveRows
  <2>1. RpcInv /\ semaphore = 1 =>
          /\ DOMAIN all_subject_ids \subseteq Complete(all_subject_ids, all_subjects)
          /\ DOMAIN all_object_ids \subseteq Complete(all_object_ids, all_objects)
    BY DEF RpcInv, LockInv, Whole, SubjectsWhole, ObjectsWhole, DB
  <2>2. /\ Complete(all_subject_ids, all_subjects) \subseteq DOMAIN all_subject_ids
        /\ Complete(all_object_ids, all_objects) \subseteq DOMAIN all_object_ids
    BY DEF Complete
  <2>3. QED
    BY <2>1, <2>2 DEF IdsHaveRows
<1>2. QED
  BY RpcInvariance, <1>1, PTL

\* The tables of RuleEngine are the views.
LEMMA TablesAreViews ==
  /\ SubjectTable = SView(DB) /\ ObjectTable = OView(DB)
  /\ SubjectTable' = SView(DB') /\ ObjectTable' = OView(DB')
BY DEF SubjectTable, ObjectTable, SView, OView, RowOf, SId, OId, DB

(***************************************************************************)
(* A check computes its result from copies of rows it fetched some         *)
(* requests ago; when it is about to unlock, the result is what the tables *)
(* say now, and the label it raised has been raised.                       *)
(***************************************************************************)
THEOREM ResultsAreCurrent == SingleThreaded => (Spec => []ResultIsCurrent)
<1> SUFFICES ASSUME SingleThreaded PROVE Spec => []ResultIsCurrent
  OBVIOUS
<1>1. RpcInv => ResultIsCurrent
  <2>1. ASSUME RpcInv, NEW c \in Clients, pc[c] = "send", Request(job[c], Answers(c)) = Done
        PROVE  Agrees(job[c], Result(job[c], Answers(c)))
    <3> DEFINE v == Vals(got[c])
    <3>1. Answers(c) = v
      BY AskedByVals
    <3>2. got[c] # <<>>
      <4>1. ASSUME got[c] = <<>>
            PROVE  FALSE
        <5>1. Len(Vals(got[c])) = 0
          BY <2>1, <4>1, ValsFacts DEF RpcInv, ClientInv, ClientOK
        <5>2. QED
          BY <2>1, <3>1, <5>1, FirstRequest
      <4>2. QED
        BY <4>1
    <3>3. Knows(job[c], v, DB)
      BY <2>1, <3>2 DEF RpcInv, LockInv
    <3>4. JobOK(job[c]) /\ DBOK(DB)
      BY <2>1, JobTyped DEF RpcInv, ClientInv, ClientOK
    <3> HIDE DEF v
    <3>5. AgreesIn(job[c], Result(job[c], v), SView(DB), OView(DB))
      BY <2>1, <3>1, <3>3, <3>4, DoneStep
    <3>6. AgreesIn(job[c], Result(job[c], v), SubjectTable, ObjectTable)
      BY <3>5, TablesAreViews
    <3>7. QED
      BY <3>1, <3>6 DEF Agrees, AgreesIn
  <2>2. QED
    BY <2>1 DEF ResultIsCurrent
<1>2. QED
  BY RpcInvariance, <1>1, PTL

LEMMA NextMatched ==
  ASSUME SingleThreaded, RpcInv, AnswersMatch, [Next]_vars
  PROVE  AnswersMatch'
<1>1. \A c \in Clients : Matched(job[c], got[c])
  BY MatchedAnswers
<1>2. AnswersMatch' <=> \A c \in Clients : Matched(job'[c], got'[c])
  BY DEF AnswersMatch, Matched, Answers, Vals
<1>3. \A j : Matched(j, <<>>)
  BY DEF Matched
<1>4. CASE job' = job /\ got' = got
  BY <1>1, <1>2, <1>4
<1>5. ASSUME NEW c \in Clients, got'[c] = <<>>,
             \A d \in Clients : d # c => job'[d] = job[d] /\ got'[d] = got[d]
      PROVE  AnswersMatch'
  BY <1>1, <1>2, <1>3, <1>5
<1>6. CASE UNCHANGED vars
  BY <1>4, <1>6 DEF vars, clients
<1>7. CASE server = "up" /\ Serve
  <2>1. job' = job /\ got' = got
    BY <1>7, ServeCases DEF clients
  <2>2. QED
    BY <1>4, <2>1
<1>8. ASSUME NEW c \in Clients, Begin(c) \/ Send(c) \/ Receive(c) \/ Lock(c) \/ Unlock(c) \/ Die(c)
      PROVE  AnswersMatch'
  <2>1. CASE Begin(c)
    <3>1. got' = got /\ got[c] = <<>> /\ \A d \in Clients : d # c => job'[d] = job[d]
      BY <2>1 DEF Begin, RpcInv, ClientInv, ClientOK
    <3>2. QED
      BY <1>5, <3>1
  <2>2. CASE Send(c)
    BY <1>4, <2>2 DEF Send
  <2>3. CASE Receive(c)
    <3>1. PICK e : got'[c] = Append(got[c], e) /\ e.op = Request(job[c], Vals(got[c])).op
      BY <2>3, ReceiveStep
    <3>2. job' = job /\ \A d \in Clients : d # c => got'[d] = got[d]
      BY <2>3, ReceiveStep
    <3>3. IsSeq(got[c])
      BY DEF RpcInv, ClientInv, ClientOK
    <3>4. Matched(job[c], Append(got[c], e))
      BY <1>1, <3>1, <3>3, MatchedAppend
    <3>5. \A d \in Clients : Matched(job'[d], got'[d])
      BY <1>1, <3>1, <3>2, <3>4
    <3>6. QED
      BY <1>2, <3>5
  <2>4. CASE Lock(c)
    BY <1>4, <2>4 DEF Lock
  <2>5. CASE Unlock(c)
    <3>1. got'[c] = <<>> /\ \A d \in Clients : d # c => job'[d] = job[d] /\ got'[d] = got[d]
      BY <2>5, UnlockStep
    <3>2. QED
      BY <1>5, <3>1
  <2>6. CASE Die(c)
    <3>1. got'[c] = <<>> /\ \A d \in Clients : d # c => job'[d] = job[d] /\ got'[d] = got[d]
      BY <2>6, DieStep
    <3>2. QED
      BY <1>5, <3>1
  <2>7. QED
    BY <1>8, <2>1, <2>2, <2>3, <2>4, <2>5, <2>6
<1>9. QED
  BY <1>6, <1>7, <1>8 DEF Next

(***************************************************************************)
(* Every answer that a client has taken off the queue is the answer to     *)
(* what it had asked, whoever died with requests and answers under way.    *)
(***************************************************************************)
THEOREM AnswersMatchRequests == SingleThreaded => (Spec => []AnswersMatch)
<1> SUFFICES ASSUME SingleThreaded PROVE Spec => []AnswersMatch
  OBVIOUS
<1>1. Init => AnswersMatch
  BY DEF Init, AnswersMatch
<1>2. RpcInv /\ AnswersMatch /\ [Next]_vars => AnswersMatch'
  BY NextMatched
<1>3. QED
  BY RpcInvariance, <1>1, <1>2, PTL DEF Spec

-----------------------------------------------------------------------------
(* The rule engine that the server and its clients implement *)

LEMMA SameChecks ==
  /\ \A a, b : RE!FlowsTo(a, b) = FlowsTo(a, b)
  /\ \A sub, obj : RE!WriteAllowed(sub, obj) = WriteAllowed(sub, obj)
<1>1. \A a, b : RE!FlowsTo(a, b) = FlowsTo(a, b)
  BY DEF RE!FlowsTo, FlowsTo
<1>2. QED
  BY <1>1 DEF RE!WriteAllowed, WriteAllowed

\* A step of the server for a client is the check that the client makes.
LEMMA ServedIsCheck ==
  ASSUME NEW c, ServedAs(c), server = "up"
  PROVE  CheckOf(job[c])
<1> DEFINE j == job[c]
<1>1. /\ SubjectTable = SView(DB) /\ ObjectTable = OView(DB)
      /\ SubjectTable' = SView(DB') /\ ObjectTable' = OView(DB')
      /\ DOMAIN SubjectTable = Subjects(DB) /\ DOMAIN ObjectTable = Objects(DB)
  BY TablesAreViews DEF Subjects, Objects
<1> HIDE DEF j
<1>2. CASE Checks(j, DB, DB') /\ server' = server
  <2>1. CASE j.check = "fork" /\ Forks(j.self, <<j.self[1], j.about>>, DB, DB')
    <3>s. j.self = <<j.self[1], j.self[2]>>
      <4>1. JobOK(j)
        BY DEF ServedAs, j
      <4>2. j.self \in Users \X Pids
        BY <4>1 DEF JobOK
      <4>3. QED
        BY <4>2
    <3>1. RE!fork_check(j.self[1], j.self[2], j.about)
      BY <1>1, <1>2, <2>1, <3>s DEF RE!fork_check, Forks
    <3>2. QED
      BY <2>1, <3>1 DEF CheckOf, j
  <2>2. CASE j.check = "open" /\ Opens(j.about, DB, DB')
    <3>1. RE!file_open_check(j.about)
      BY <1>1, <1>2, <2>2 DEF RE!file_open_check, Opens
    <3>2. QED
      BY <2>2, <3>1 DEF CheckOf, j
  <2>3. CASE j.check = "read" /\ Reads(j.self, j.about, DB, DB')
    <3>1. RE!file_read_check(j.self, j.about, "allowed")
      BY <1>1, <1>2, <2>3, SameOperators DEF RE!file_read_check, Reads
    <3>2. "allowed" \in RE!Results
      BY DEF RE!Results
    <3>3. QED
      BY <2>3, <3>1, <3>2 DEF CheckOf, j
  <2>4. CASE j.check = "kill" /\ Kills(j.self, j.about, DB, DB')
    <3>1. RE!kill_check(j.self, j.about, "allowed")
      BY <1>1, <1>2, <2>4, SameOperators DEF RE!kill_check, Kills
    <3>2. "allowed" \in RE!Results
      BY DEF RE!Results
    <3>3. QED
      BY <2>4, <3>1, <3>2 DEF CheckOf, j
  <2>5. QED
    BY <1>2, <2>1, <2>2, <2>3, <2>4 DEF Checks
<1>3. CASE Stops(j, DB) /\ SameViews(DB, DB') /\ server' = "stopped"
  <2>1. RE!StopServer /\ "stopped" \in RE!Results
    BY <1>1, <1>3 DEF RE!StopServer, RE!Results, SameViews
  <2>2. CASE j.check \in {"read", "write"} /\ j.about \in Objects(DB) /\ j.self \notin Subjects(DB)
    <3>1. /\ RE!file_read_check(j.self, j.about, "stopped")
          /\ RE!file_write_check(j.self, j.about, "stopped")
      BY <1>1, <2>1, <2>2 DEF RE!file_read_check, RE!file_write_check
    <3>2. QED
      BY <2>1, <2>2, <3>1 DEF CheckOf, j
  <2>3. CASE j.check = "kill" /\ ~(j.self \in Subjects(DB) /\ j.about \in Subjects(DB))
    <3>1. RE!kill_check(j.self, j.about, "stopped")
      BY <1>1, <2>1, <2>3 DEF RE!kill_check
    <3>2. QED
      BY <2>1, <2>3, <3>1 DEF CheckOf, j
  <2>4. QED
    BY <1>3, <2>2, <2>3 DEF Stops
<1>4. QED
  BY <1>2, <1>3 DEF ServedAs, j

LEMMA TablesAtFirst ==
  ASSUME Init
  PROVE  RE!REInit
<1>1. all_subject_ids = <<>> /\ all_object_ids = <<>> /\ server = "up" /\ DOMAIN <<>> = {}
  BY DEF Init
<1>2. Complete(all_subject_ids, all_subjects) = {} /\ Complete(all_object_ids, all_objects) = {}
  BY <1>1 DEF Complete
<1>3. DOMAIN SubjectTable = {} /\ DOMAIN ObjectTable = {}
  BY <1>2 DEF SubjectTable, ObjectTable
<1>4. /\ SubjectTable = [s \in DOMAIN SubjectTable |-> SubjectTable[s]]
      /\ ObjectTable = [f \in DOMAIN ObjectTable |-> ObjectTable[f]]
  BY DEF SubjectTable, ObjectTable
<1>5. SubjectTable = [s \in {} |-> RE!DefaultSubject(s)]
  BY <1>3, <1>4
<1>6. ObjectTable = [f \in {} |-> RE!InferredObject(f)]
  BY <1>3, <1>4
<1>7. QED
  BY <1>1, <1>5, <1>6 DEF RE!REInit

AtomicStep ==
  /\ requests # <<>> /\ requests' = Tail(requests)
  /\ \/ UNCHANGED <<SubjectTable, ObjectTable, server>>
     \/ \E c \in Clients : PidOf[c] = Head(requests).pid /\ CheckOf(job[c])

LEMMA StepIsAtomic ==
  ASSUME SingleThreaded, RpcInv, [Next]_vars
  PROVE  [AtomicStep]_<<tables, server>>
<1>1. CASE server = "up" /\ Serve
  <2>1. /\ requests # <<>> /\ requests' = Tail(requests)
        /\ \/ SameViews(DB, DB') /\ UNCHANGED server
           \/ \E c \in Clients : PidOf[c] = Head(requests).pid /\ ServedAs(c)
    BY <1>1, ServeStep
  <2>2. CASE SameViews(DB, DB') /\ UNCHANGED server
    <3>1. UNCHANGED <<SubjectTable, ObjectTable, server>>
      BY <2>2, TablesAreViews DEF SameViews
    <3>2. QED
      BY <2>1, <3>1 DEF AtomicStep
  <2>3. CASE \E c \in Clients : PidOf[c] = Head(requests).pid /\ ServedAs(c)
    <3>1. PICK c \in Clients : PidOf[c] = Head(requests).pid /\ ServedAs(c)
      BY <2>3
    <3>2. CheckOf(job[c])
      BY <1>1, <3>1, ServedIsCheck
    <3>3. QED
      BY <2>1, <3>1, <3>2 DEF AtomicStep
  <2>4. QED
    BY <2>1, <2>2, <2>3
<1>2. ASSUME NEW c \in Clients, Begin(c) \/ Send(c) \/ Receive(c) \/ Lock(c) \/ Unlock(c) \/ Die(c)
      PROVE  UNCHANGED <<tables, server>>
  BY <1>2 DEF Begin, Send, Receive, Lock, Unlock, Die
<1>3. CASE UNCHANGED vars
  BY <1>3 DEF vars
<1>4. QED
  BY <1>1, <1>2, <1>3 DEF Next

(***************************************************************************)
(* Requests of several clients interleave, and a check is a dozen of them, *)
(* yet it is one step of the rule engine; the tables change in no other    *)
(* way.                                                                    *)
(***************************************************************************)
THEOREM ChecksAtomic == SingleThreaded => (Spec => ChecksAreAtomic)
<1> SUFFICES ASSUME SingleThreaded PROVE Spec => ChecksAreAtomic
  OBVIOUS
<1>1. Init => RE!REInit
  BY TablesAtFirst
<1>2. RpcInv /\ [Next]_vars => [AtomicStep]_<<tables, server>>
  BY StepIsAtomic
<1>3. QED
  BY RpcInvariance, <1>1, <1>2, PTL DEF Spec, ChecksAreAtomic, AtomicStep

LEMMA CheckIsNext ==
  ASSUME NEW c, JobOK(job[c]), CheckOf(job[c])
  PROVE  RE!RENext
<1> DEFINE j == job[c]
<1>1. JobOK(j)
  OBVIOUS
<1> HIDE DEF j
<1>2. CASE j.check = "fork" /\ RE!fork_check(j.self[1], j.self[2], j.about)
  <2>1. j.self[1] \in Users /\ j.self[2] \in Pids /\ j.about \in Pids \cup {InitProc}
    BY <1>1, <1>2 DEF JobOK
  <2>2. QED
    BY <1>2, <2>1 DEF RE!RENext
<1>3. CASE j.check = "open" /\ RE!file_open_check(j.about)
  <2>1. j.about \in Files
    BY <1>1, <1>3 DEF JobOK
  <2>2. QED
    BY <1>3, <2>1 DEF RE!RENext
<1>4. CASE j.check \in {"read", "write"} /\ \E ret \in RE!Results :
             RE!file_read_check(j.self, j.about, ret) \/ RE!file_write_check(j.self, j.about, ret)
  <2>1. j.self \in RE!SubjectIds /\ j.about \in Files
    BY <1>1, <1>4 DEF JobOK, RE!SubjectIds
  <2>2. QED
    BY <1>4, <2>1 DEF RE!RENext
<1>5. CASE j.check = "kill" /\ \E ret \in RE!Results : RE!kill_check(j.self, j.about, ret)
  <2>1. j.self \in RE!SubjectIds /\ j.about \in RE!SubjectIds
    BY <1>1, <1>5 DEF JobOK, RE!SubjectIds
  <2>2. QED
    BY <1>5, <2>1 DEF RE!RENext
<1>6. QED
  BY <1>2, <1>3, <1>4, <1>5 DEF CheckOf, j

LEMMA StepIsCheck ==
  ASSUME SingleThreaded, RpcInv, [Next]_vars
  PROVE  [RE!RENext]_(RE!revars)
<1>1. CASE server = "up" /\ Serve
  <2>1. \/ SameViews(DB, DB') /\ UNCHANGED server
        \/ \E c \in Clients : ServedAs(c)
    BY <1>1, ServeStep
  <2>2. CASE SameViews(DB, DB') /\ UNCHANGED server
    <3>1. UNCHANGED <<SubjectTable, ObjectTable, server>>
      BY <2>2, TablesAreViews DEF SameViews
    <3>2. QED
      BY <3>1 DEF RE!revars
  <2>3. ASSUME NEW c \in Clients, ServedAs(c)
        PROVE  RE!RENext
    <3>1. CheckOf(job[c]) /\ JobOK(job[c])
      BY <1>1, <2>3, ServedIsCheck DEF ServedAs
    <3>2. QED
      BY <3>1, CheckIsNext
  <2>4. QED
    BY <2>1, <2>2, <2>3
<1>2. ASSUME UNCHANGED <<tables, server>>
      PROVE  UNCHANGED RE!revars
  <2>1. DB' = DB /\ server' = server
    BY <1>2 DEF DB, tables
  <2>2. QED
    BY <2>1, TablesAreViews DEF RE!revars
<1>3. ASSUME NEW c \in Clients, Begin(c) \/ Send(c) \/ Receive(c) \/ Lock(c) \/ Unlock(c) \/ Die(c)
      PROVE  UNCHANGED <<tables, server>>
  BY <1>3 DEF Begin, Send, Receive, Lock, Unlock, Die
<1>4. CASE UNCHANGED vars
  BY <1>2, <1>4 DEF vars
<1>5. QED
  BY <1>1, <1>2, <1>3, <1>4 DEF Next

(***************************************************************************)
(* What RuleEngine says of checks that are one step each is true of checks *)
(* that are carried out request by request.                                *)
(***************************************************************************)
THEOREM ImplementsRuleEngine == SingleThreaded => (Spec => RE!RESpec)
<1> SUFFICES ASSUME SingleThreaded PROVE Spec => RE!RESpec
  OBVIOUS
<1>1. Init => RE!REInit
  BY TablesAtFirst
<1>2. RpcInv /\ [Next]_vars => [RE!RENext]_(RE!revars)
  BY StepIsCheck
<1>3. QED
  BY RpcInvariance, <1>1, <1>2, PTL DEF Spec, RE!RESpec
=============================================================================
