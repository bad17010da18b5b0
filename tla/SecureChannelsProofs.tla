------------------------ MODULE SecureChannelsProofs ------------------------
(***************************************************************************)
(* Theorems about SecureChannels, for any users, processes, files and      *)
(* channels.  Types, one row for each channel and rising labels hold       *)
(* without a condition.  The others name what they need:                   *)
(*   OnePipe     at most one of the channels is a pipe or a fifo, so that  *)
(*               no position in the table of pipes moves; sockets may be   *)
(*               as many as there are                                      *)
(*   Forkers = {}  nobody forks, so that no mapping with an old position   *)
(*               is used (the run pipe_shift has two pipes and a fork)     *)
(*   Races = {}  no channel is opened and closed at the same time          *)
(*   slips = {}  no read or write of a socket has moved anything: they     *)
(*               make no check                                             *)
(*                                                                         *)
(* The inductive invariants build on each other:                           *)
(*   TypeInv     types, and the parent of a child that has no row yet      *)
(*   TableInv    one row of a channel at most, in the table of its kind    *)
(*   CallsInv    what a call is about is open, and who makes it has a row  *)
(*   MapInv      of a single pipe: the mappings tell the open ends         *)
(*   CountInv    of many pipes, without forks: a row counts the open ends  *)
(*   FlowInv     rows cover what is known, waits, or is on its way         *)
(***************************************************************************)
EXTENDS SecureChannels, RuleEngineProofs, SequenceTheorems, FiniteSetTheorems

-----------------------------------------------------------------------------
(* Sequences *)

\* A set of positions has a least one: the finite sets 1..i are well founded.
LEMMA LeastIndex ==
  ASSUME NEW I, I \subseteq Nat, I # {}
  PROVE  Min(I) \in I /\ \A i \in I : Min(I) <= i
<1> DEFINE T == {1..i : i \in I}
<1>1. IsWellFoundedOn(StrictSubsetOrdering(Nat), FiniteSubsetsOf(Nat))
  BY FS_StrictSubsetOrderingWellFounded
<1>2. T \subseteq FiniteSubsetsOf(Nat) /\ T # {}
  <2>1. \A i \in I : 1..i \subseteq Nat /\ IsFiniteSet(1..i)
    BY FS_Interval
  <2>2. QED
    BY <2>1 DEF FiniteSubsetsOf
<1>3. PICK X \in T : \A Y \in T : ~(<<Y, X>> \in StrictSubsetOrdering(Nat))
  BY <1>1, <1>2, WFMin
<1>4. PICK x \in I : X = 1..x
  OBVIOUS
<1>5. ASSUME NEW y \in I, y < x
      PROVE  FALSE
  <2>1. 1..y \subseteq 1..x /\ 1..y # 1..x /\ 1..x \subseteq Nat /\ 1..y \subseteq Nat
    BY <1>5
  <2>2. <<1..y, 1..x>> \in StrictSubsetOrdering(Nat)
    BY <2>1 DEF StrictSubsetOrdering
  <2>3. QED
    BY <1>3, <1>4, <2>2
<1>6. \A y \in I : x <= y
  BY <1>5
<1>7. QED
  BY <1>6 DEF Min

\* Induction over the numbers, for a set of them: its complement has no least one.
LEMMA EveryNumber ==
  ASSUME NEW S, 0 \in S, \A n \in Nat : n \in S => n + 1 \in S
  PROVE  \A n \in Nat : n \in S
<1> DEFINE I == Nat \ S
<1>1. SUFFICES ASSUME I # {}
               PROVE  FALSE
  OBVIOUS
<1>2. Min(I) \in I /\ \A i \in I : Min(I) <= i
  <2>1. I \subseteq Nat
    OBVIOUS
  <2> HIDE DEF I
  <2>2. QED
    BY <1>1, <2>1, LeastIndex
<1>3. Min(I) \in Nat /\ Min(I) \notin S /\ Min(I) # 0
  BY <1>2
<1>4. PICK n \in Nat : Min(I) = n + 1
  <2>1. Min(I) - 1 \in Nat /\ Min(I) = (Min(I) - 1) + 1
    BY <1>3
  <2>2. QED
    BY <2>1
<1>5. n \notin I
  BY <1>2, <1>4
<1>6. QED
  BY <1>3, <1>4, <1>5

LEMMA RemoveAtFacts ==
  ASSUME NEW S, NEW s \in Seq(S), NEW k \in 1..Len(s)
  PROVE  /\ RemoveAt(s, k) \in Seq(S) /\ Len(s) \in Nat
         /\ Len(RemoveAt(s, k)) = Len(s) - 1
         /\ \A i \in 1..(Len(s) - 1) :
              RemoveAt(s, k)[i] = s[IF i < k THEN i ELSE i + 1]
<1> DEFINE low == SubSeq(s, 1, k - 1)
           high == SubSeq(s, k + 1, Len(s))
<1>1. Len(s) \in Nat /\ \A i \in 1..Len(s) : s[i] \in S
  BY LenProperties, ElementOfSeq
<1>2. /\ low \in Seq(S) /\ Len(low) = k - 1
      /\ \A i \in 1..(k - 1) : low[i] = s[i]
  <2>1. \A i \in 1..(k - 1) : s[i] \in S
    BY <1>1
  <2>2. QED
    BY <1>1, <2>1, SubSeqProperties
<1>3. /\ high \in Seq(S) /\ Len(high) = Len(s) - k
      /\ \A i \in 1..(Len(s) - k) : high[i] = s[k + i]
  <2>1. \A i \in (k + 1)..Len(s) : s[i] \in S
    BY <1>1
  <2>2. QED
    BY <1>1, <2>1, SubSeqProperties
<1> HIDE DEF low, high
<1>4. RemoveAt(s, k) = low \o high
  BY DEF RemoveAt, low, high
<1>5. /\ low \o high \in Seq(S) /\ Len(low \o high) = Len(s) - 1
      /\ \A i \in 1..(Len(s) - 1) :
           (low \o high)[i] = IF i <= k - 1 THEN low[i] ELSE high[i - (k - 1)]
  <2>1. Len(low) + Len(high) = Len(s) - 1
    BY <1>1, <1>2, <1>3
  <2>2. /\ low \o high \in Seq(S) /\ Len(low \o high) = Len(low) + Len(high)
        /\ \A i \in 1..(Len(low) + Len(high)) :
             (low \o high)[i] = IF i <= Len(low) THEN low[i] ELSE high[i - Len(low)]
    BY <1>2, <1>3, ConcatProperties
  <2>3. QED
    BY <1>2, <2>1, <2>2
<1>6. ASSUME NEW i \in 1..(Len(s) - 1)
      PROVE  (low \o high)[i] = s[IF i < k THEN i ELSE i + 1]
  <2>1. CASE i < k
    BY <1>1, <1>2, <1>5, <2>1
  <2>2. CASE i >= k
    <3>1. (low \o high)[i] = high[i - (k - 1)] /\ i - (k - 1) \in 1..(Len(s) - k)
      BY <1>1, <1>5, <2>2
    <3>2. high[i - (k - 1)] = s[i + 1]
      <4>1. k + (i - (k - 1)) = i + 1
        BY <1>1
      <4>2. QED
        BY <1>3, <3>1, <4>1
    <3>3. QED
      BY <1>1, <2>2, <3>1, <3>2
  <2>3. i < k \/ i >= k
    BY <1>1
  <2>4. QED
    BY <2>1, <2>2, <2>3
<1>7. QED
  BY <1>1, <1>4, <1>5, <1>6

LEMMA AppendFacts ==
  ASSUME NEW S, NEW s \in Seq(S), NEW e \in S
  PROVE  /\ Append(s, e) \in Seq(S) /\ Len(s) \in Nat
         /\ Len(Append(s, e)) = Len(s) + 1
         /\ \A i \in 1..Len(s) : Append(s, e)[i] = s[i]
         /\ Append(s, e)[Len(s) + 1] = e
  BY AppendProperties, LenProperties

\* The positions of a row in a table, and of a mapping.
LEMMA IndexOfFacts ==
  ASSUME NEW S, NEW table \in Seq(S), NEW x
  PROVE  /\ IndexOf(table, x) \in 0..Len(table) /\ Len(table) \in Nat
         /\ IndexOf(table, x) = 0 => \A i \in 1..Len(table) : table[i].channel # x
         /\ IndexOf(table, x) # 0 => table[IndexOf(table, x)].channel = x
<1> DEFINE I == {i \in 1..Len(table) : table[i].channel = x}
<1>1. IndexOf(table, x) = IF I # {} THEN Min(I) ELSE 0
  BY DEF IndexOf, SelectInSeq
<1>2. I # {} => Min(I) \in I
  <2>1. I \subseteq Nat
    BY LenProperties
  <2> HIDE DEF I
  <2>2. QED
    BY <2>1, LeastIndex
<1>3. QED
  BY <1>1, <1>2, LenProperties

LEMMA MapIndexFacts ==
  ASSUME NEW S, pipe_ref_map \in Seq(S), NEW s, NEW i
  PROVE  /\ MapIndex(s, i) \in 0..Len(pipe_ref_map) /\ Len(pipe_ref_map) \in Nat
         /\ MapIndex(s, i) = 0 =>
              \A n \in 1..Len(pipe_ref_map) :
                ~(pipe_ref_map[n].subject = s /\ pipe_ref_map[n].index = i)
         /\ MapIndex(s, i) # 0 => /\ pipe_ref_map[MapIndex(s, i)].subject = s
                                  /\ pipe_ref_map[MapIndex(s, i)].index = i
<1> DEFINE I == {n \in 1..Len(pipe_ref_map) :
                   pipe_ref_map[n].subject = s /\ pipe_ref_map[n].index = i}
<1>1. MapIndex(s, i) = IF I # {} THEN Min(I) ELSE 0
  BY DEF MapIndex, SelectInSeq
<1>2. I # {} => Min(I) \in I
  <2>1. I \subseteq Nat
    BY LenProperties
  <2> HIDE DEF I
  <2>2. QED
    BY <2>1, LeastIndex
<1>3. QED
  BY <1>1, <1>2, LenProperties

-----------------------------------------------------------------------------
(* Sums *)

\* f is the sequence of the partial sums of u.
SumOf(f, u, N) == /\ f[0] = 0
                  /\ \A n \in 1..N : u[n] \in Nat /\ f[n] = f[n - 1] + u[n]

LEMMA SumType ==
  ASSUME NEW N \in Nat, NEW f, NEW u, SumOf(f, u, N)
  PROVE  /\ \A n \in 0..N : f[n] \in Nat
         /\ \A n \in 1..N : u[n] <= f[N]
<1> DEFINE G == {n \in Nat : n <= N => f[n] \in Nat /\ \A k \in 1..n : u[k] <= f[n]}
<1>1. 0 \in G
  BY DEF SumOf
<1>2. ASSUME NEW n \in Nat, n \in G
      PROVE  n + 1 \in G
  <2>1. SUFFICES ASSUME n + 1 <= N
                 PROVE  f[n + 1] \in Nat /\ \A k \in 1..(n + 1) : u[k] <= f[n + 1]
    OBVIOUS
  <2>2. f[n] \in Nat /\ \A k \in 1..n : u[k] <= f[n]
    BY <1>2, <2>1
  <2>3. u[n + 1] \in Nat /\ f[n + 1] = f[n] + u[n + 1]
    <3>1. n + 1 \in 1..N /\ (n + 1) - 1 = n
      BY <2>1
    <3>2. QED
      BY <3>1 DEF SumOf
  <2>4. \A k \in 1..n : u[k] \in Nat
    BY <2>1 DEF SumOf
  <2>5. QED
    BY <2>2, <2>3, <2>4
<1> HIDE DEF G
<1>3. \A n \in Nat : n \in G
  BY <1>1, <1>2, EveryNumber
<1>4. QED
  BY <1>3 DEF G

\* The sums of sequences that differ at k only, or nowhere, differ by that.
LEMMA SumChange ==
  ASSUME NEW N \in Nat, NEW f, NEW u, SumOf(f, u, N), NEW g, NEW v, SumOf(g, v, N),
         NEW k \in Nat \ {0}, \A n \in 1..N : n # k => u[n] = v[n]
  PROVE  IF k \in 1..N THEN g[N] = f[N] + v[k] - u[k] ELSE g[N] = f[N]
<1> DEFINE G == {n \in Nat : n <= N =>
                   IF k <= n THEN g[n] = f[n] + v[k] - u[k] ELSE g[n] = f[n]}
<1>1. 0 \in G
  BY DEF SumOf
<1>2. ASSUME NEW n \in Nat, n \in G
      PROVE  n + 1 \in G
  <2>1. SUFFICES ASSUME n + 1 <= N
                 PROVE  IF k <= n + 1 THEN g[n + 1] = f[n + 1] + v[k] - u[k]
                                      ELSE g[n + 1] = f[n + 1]
    OBVIOUS
  <2>2. IF k <= n THEN g[n] = f[n] + v[k] - u[k] ELSE g[n] = f[n]
    BY <1>2, <2>1
  <2>3. /\ u[n + 1] \in Nat /\ f[n + 1] = f[n] + u[n + 1]
        /\ v[n + 1] \in Nat /\ g[n + 1] = g[n] + v[n + 1]
    <3>1. n + 1 \in 1..N /\ (n + 1) - 1 = n
      BY <2>1
    <3>2. QED
      BY <3>1 DEF SumOf
  <2>4. f[n] \in Nat /\ g[n] \in Nat
    BY <2>1, SumType
  <2>5. n + 1 # k => u[n + 1] = v[n + 1]
    BY <2>1
  <2>6. k <= n => u[k] \in Nat /\ v[k] \in Nat
    BY <2>1 DEF SumOf
  <2>7. CASE k <= n
    BY <2>2, <2>3, <2>4, <2>5, <2>6, <2>7
  <2>8. CASE k = n + 1
    BY <2>2, <2>3, <2>4, <2>8
  <2>9. CASE k > n + 1
    BY <2>2, <2>3, <2>4, <2>5, <2>9
  <2>10. QED
    BY <2>7, <2>8, <2>9
<1> HIDE DEF G
<1>3. N \in G
  BY <1>1, <1>2, EveryNumber
<1>4. QED
  BY <1>3 DEF G

\* A sequence without its k-th number has a sum that is smaller by that number.
LEMMA SumRemove ==
  ASSUME NEW N \in Nat, NEW f, NEW u, SumOf(f, u, N), NEW k \in 1..N,
         NEW g, NEW v, SumOf(g, v, N - 1),
         \A n \in 1..(N - 1) : v[n] = u[IF n < k THEN n ELSE n + 1]
  PROVE  g[N - 1] = f[N] - u[k]
<1> DEFINE G == {n \in Nat : n <= N - 1 =>
                   IF n < k THEN g[n] = f[n] ELSE g[n] = f[n + 1] - u[k]}
<1>1. 0 \in G
  BY DEF SumOf
<1>2. ASSUME NEW n \in Nat, n \in G
      PROVE  n + 1 \in G
  <2>1. SUFFICES ASSUME n + 1 <= N - 1
                 PROVE  IF n + 1 < k THEN g[n + 1] = f[n + 1]
                                     ELSE g[n + 1] = f[n + 2] - u[k]
    OBVIOUS
  <2>2. IF n < k THEN g[n] = f[n] ELSE g[n] = f[n + 1] - u[k]
    BY <1>2, <2>1
  <2>3. v[n + 1] \in Nat /\ g[n + 1] = g[n] + v[n + 1]
    <3>1. n + 1 \in 1..(N - 1) /\ (n + 1) - 1 = n
      BY <2>1
    <3>2. QED
      BY <3>1 DEF SumOf
  <2>4. u[n + 1] \in Nat /\ f[n + 1] = f[n] + u[n + 1]
    <3>1. n + 1 \in 1..N /\ (n + 1) - 1 = n
      BY <2>1
    <3>2. QED
      BY <3>1 DEF SumOf
  <2>5. u[n + 2] \in Nat /\ f[n + 2] = f[n + 1] + u[n + 2]
    <3>1. n + 2 \in 1..N /\ (n + 2) - 1 = n + 1
      BY <2>1
    <3>2. QED
      BY <3>1 DEF SumOf
  <2>6. f[n] \in Nat /\ f[n + 1] \in Nat /\ g[n] \in Nat
    <3>1. n \in 0..N /\ n + 1 \in 0..N /\ n \in 0..(N - 1) /\ N - 1 \in Nat
      BY <2>1
    <3>2. QED
      BY <3>1, SumType
  <2>7. v[n + 1] = IF n + 1 < k THEN u[n + 1] ELSE u[n + 2]
    <3>1. n + 1 \in 1..(N - 1) /\ (n + 1) + 1 = n + 2
      BY <2>1
    <3>2. QED
      BY <3>1
  <2>8. u[k] \in Nat
    BY DEF SumOf
  <2>9. CASE n + 1 < k
    BY <2>2, <2>3, <2>4, <2>6, <2>7, <2>9
  <2>10. CASE n + 1 = k
    BY <2>2, <2>3, <2>4, <2>5, <2>6, <2>7, <2>10
  <2>11. CASE n + 1 > k
    BY <2>2, <2>3, <2>5, <2>6, <2>7, <2>8, <2>11
  <2>12. QED
    BY <2>9, <2>10, <2>11
<1> HIDE DEF G
<1>3. N - 1 \in Nat /\ N - 1 \in G
  BY <1>1, <1>2, EveryNumber
<1>4. CASE k = N
  <2>1. f[N] = f[N - 1] + u[N] /\ u[N] \in Nat
    BY DEF SumOf
  <2>2. f[N - 1] \in Nat
    BY <1>3, SumType
  <2>3. g[N - 1] = f[N - 1]
    BY <1>3, <1>4 DEF G
  <2>4. QED
    BY <1>4, <2>1, <2>2, <2>3
<1>5. CASE k < N
  <2>1. ~(N - 1 < k) /\ (N - 1) + 1 = N
    BY <1>5
  <2>2. QED
    BY <1>3, <2>1 DEF G
<1>6. QED
  BY <1>4, <1>5

\* Smaller numbers have a smaller sum.
LEMMA SumLess ==
  ASSUME NEW N \in Nat, NEW f, NEW u, SumOf(f, u, N), NEW g, NEW v, SumOf(g, v, N),
         \A n \in 1..N : u[n] <= v[n]
  PROVE  f[N] <= g[N]
<1> DEFINE G == {n \in Nat : n <= N => f[n] <= g[n]}
<1>1. 0 \in G
  BY DEF SumOf
<1>2. ASSUME NEW n \in Nat, n \in G
      PROVE  n + 1 \in G
  <2>1. SUFFICES ASSUME n + 1 <= N
                 PROVE  f[n + 1] <= g[n + 1]
    OBVIOUS
  <2>2. f[n] <= g[n]
    BY <1>2, <2>1
  <2>3. /\ u[n + 1] \in Nat /\ f[n + 1] = f[n] + u[n + 1]
        /\ v[n + 1] \in Nat /\ g[n + 1] = g[n] + v[n + 1]
    <3>1. n + 1 \in 1..N /\ (n + 1) - 1 = n
      BY <2>1
    <3>2. QED
      BY <3>1 DEF SumOf
  <2>4. f[n] \in Nat /\ g[n] \in Nat
    BY <2>1, SumType
  <2>5. u[n + 1] <= v[n + 1]
    BY <2>1
  <2>6. QED
    BY <2>2, <2>3, <2>4, <2>5
<1> HIDE DEF G
<1>3. N \in G
  BY <1>1, <1>2, EveryNumber
<1>4. QED
  BY <1>3 DEF G

-----------------------------------------------------------------------------
(* Counting the references *)

\* What a mapping adds to the count, and all of them.
Part(row, S, i) == IF row.subject \in S /\ row.index = i THEN row.ref_count ELSE 0

\* What each mapping adds to the references of the subjects of S to row i.
Parts(maps, S, i) == [n \in 1..Len(maps) |-> Part(maps[n], S, i)]

\* f counts the references in the first mappings, as RefCount does.
Sums(maps, S, i, N, f) ==
  f = [n \in 0..N |-> IF n = 0 THEN 0 ELSE f[n - 1] + Part(maps[n], S, i)]

LEMMA SumExists ==
  ASSUME NEW maps, NEW S, NEW i, NEW N \in Nat
  PROVE  \E f : Sums(maps, S, i, N, f)
<1> DEFINE G == {n \in Nat : \E f : Sums(maps, S, i, n, f)}
<1>1. 0 \in G
  <2> DEFINE f == [n \in 0..0 |-> 0]
  <2>1. f = [n \in 0..0 |-> IF n = 0 THEN 0 ELSE f[n - 1] + Part(maps[n], S, i)]
    OBVIOUS
  <2> HIDE DEF f
  <2>2. QED
    BY <2>1 DEF Sums
<1>2. ASSUME NEW n \in Nat, n \in G
      PROVE  n + 1 \in G
  <2>1. PICK f : f = [m \in 0..n |-> IF m = 0 THEN 0 ELSE f[m - 1] + Part(maps[m], S, i)]
    BY <1>2 DEF Sums
  <2> DEFINE g == [m \in 0..(n + 1) |->
                     IF m = n + 1 THEN f[n] + Part(maps[m], S, i) ELSE f[m]]
  <2>2. ASSUME NEW m \in 0..(n + 1)
        PROVE  g[m] = IF m = 0 THEN 0 ELSE g[m - 1] + Part(maps[m], S, i)
    <3>1. CASE m = n + 1
      <4>1. g[m] = f[n] + Part(maps[m], S, i) /\ m # 0
        BY <3>1
      <4>2. g[m - 1] = f[n]
        BY <3>1
      <4>3. QED
        BY <4>1, <4>2
    <3>2. CASE m # n + 1
      <4>1. m \in 0..n /\ g[m] = f[m] /\ (m # 0 => m - 1 \in 0..n)
        BY <3>2
      <4>2. m # 0 => g[m - 1] = f[m - 1]
        BY <3>2, <4>1
      <4>3. f[m] = IF m = 0 THEN 0 ELSE f[m - 1] + Part(maps[m], S, i)
        BY <2>1, <4>1
      <4>4. QED
        BY <4>1, <4>2, <4>3
    <3>3. QED
      BY <3>1, <3>2
  <2>3. g = [m \in 0..(n + 1) |-> IF m = 0 THEN 0 ELSE g[m - 1] + Part(maps[m], S, i)]
    <3>1. DOMAIN g = 0..(n + 1) /\ g = [m \in 0..(n + 1) |-> g[m]]
      OBVIOUS
    <3> HIDE DEF g
    <3>2. QED
      BY <2>2, <3>1
  <2> HIDE DEF g
  <2>4. QED
    BY <2>3 DEF Sums
<1> HIDE DEF G
<1>3. N \in G
  BY <1>1, <1>2, EveryNumber
<1>4. QED
  BY <1>3 DEF G

\* The function that RefCount is the last value of.
RefCounts(maps, S, i) == CHOOSE f : Sums(maps, S, i, Len(maps), f)

LEMMA RefCountIsSum ==
  ASSUME NEW maps \in Seq(RefMapRow), NEW S, NEW i
  PROVE  /\ SumOf(RefCounts(maps, S, i), Parts(maps, S, i), Len(maps))
         /\ RefCount(maps, S, i) = RefCounts(maps, S, i)[Len(maps)]
         /\ Len(maps) \in Nat
<1> DEFINE N == Len(maps)
           f == RefCounts(maps, S, i)
<1>1. N \in Nat /\ \A n \in 1..N : maps[n] \in RefMapRow
  BY LenProperties, ElementOfSeq
<1>2. Sums(maps, S, i, N, f)
  <2>1. \E g : Sums(maps, S, i, N, g)
    BY <1>1, SumExists
  <2>2. QED
    BY <2>1 DEF RefCounts
<1>3. RefCount(maps, S, i) = f[N]
  BY DEF RefCount, RefCounts, Sums, Part
<1> HIDE DEF f
<1>4. f = [n \in 0..N |-> IF n = 0 THEN 0 ELSE f[n - 1] + Part(maps[n], S, i)]
  BY <1>2 DEF Sums
<1>5. f[0] = 0
  BY <1>1, <1>4
<1>6. \A n \in 1..N : f[n] = f[n - 1] + Part(maps[n], S, i)
  BY <1>1, <1>4
<1>7. \A n \in 1..N : Part(maps[n], S, i) \in Nat
  BY <1>1 DEF Part, RefMapRow
<1>8. \A n \in 1..N : Parts(maps, S, i)[n] = Part(maps[n], S, i)
  BY DEF Parts
<1>9. SumOf(f, Parts(maps, S, i), N)
  BY <1>5, <1>6, <1>7, <1>8 DEF SumOf
<1>10. QED
  BY <1>1, <1>3, <1>9 DEF f

\* A count is a number, and none of its mappings counts more.
LEMMA RefCountType ==
  ASSUME NEW maps \in Seq(RefMapRow), NEW S, NEW i
  PROVE  /\ RefCount(maps, S, i) \in Nat
         /\ \A n \in 1..Len(maps) : Part(maps[n], S, i) <= RefCount(maps, S, i)
<1>1. /\ SumOf(RefCounts(maps, S, i), Parts(maps, S, i), Len(maps))
      /\ RefCount(maps, S, i) = RefCounts(maps, S, i)[Len(maps)]
      /\ Len(maps) \in Nat
  BY RefCountIsSum
<1>2. /\ \A n \in 0..Len(maps) : RefCounts(maps, S, i)[n] \in Nat
      /\ \A n \in 1..Len(maps) : Parts(maps, S, i)[n] <= RefCounts(maps, S, i)[Len(maps)]
  BY <1>1, SumType
<1>3. \A n \in 1..Len(maps) : Parts(maps, S, i)[n] = Part(maps[n], S, i)
  BY DEF Parts
<1>4. QED
  BY <1>1, <1>2, <1>3

\* One mapping is changed, or none.
LEMMA RefCountChange ==
  ASSUME NEW maps \in Seq(RefMapRow), NEW newer \in Seq(RefMapRow),
         Len(newer) = Len(maps), NEW k \in 1..Len(maps),
         \A n \in 1..Len(maps) : n # k => newer[n] = maps[n], NEW S, NEW i
  PROVE  RefCount(newer, S, i)
           = RefCount(maps, S, i) + Part(newer[k], S, i) - Part(maps[k], S, i)
<1>1. /\ SumOf(RefCounts(maps, S, i), Parts(maps, S, i), Len(maps))
      /\ RefCount(maps, S, i) = RefCounts(maps, S, i)[Len(maps)]
      /\ Len(maps) \in Nat
  BY RefCountIsSum
<1>2. /\ SumOf(RefCounts(newer, S, i), Parts(newer, S, i), Len(maps))
      /\ RefCount(newer, S, i) = RefCounts(newer, S, i)[Len(maps)]
  BY RefCountIsSum
<1>3. /\ \A n \in 1..Len(maps) : Parts(maps, S, i)[n] = Part(maps[n], S, i)
      /\ \A n \in 1..Len(maps) : Parts(newer, S, i)[n] = Part(newer[n], S, i)
  BY DEF Parts
<1>4. \A n \in 1..Len(maps) : n # k => Parts(maps, S, i)[n] = Parts(newer, S, i)[n]
  BY <1>3
<1>5. k \in Nat \ {0}
  BY <1>1
<1>6. RefCounts(newer, S, i)[Len(maps)]
        = RefCounts(maps, S, i)[Len(maps)] + Parts(newer, S, i)[k] - Parts(maps, S, i)[k]
  BY <1>1, <1>2, <1>4, <1>5, SumChange
<1>7. QED
  BY <1>1, <1>2, <1>3, <1>6

LEMMA RefCountAppend ==
  ASSUME NEW maps \in Seq(RefMapRow), NEW row \in RefMapRow, NEW S, NEW i
  PROVE  RefCount(Append(maps, row), S, i) = RefCount(maps, S, i) + Part(row, S, i)
<1> DEFINE newer == Append(maps, row)
           N == Len(maps)
<1>1. /\ SumOf(RefCounts(maps, S, i), Parts(maps, S, i), N)
      /\ RefCount(maps, S, i) = RefCounts(maps, S, i)[N]
      /\ N \in Nat
  BY RefCountIsSum
<1>2. /\ newer \in Seq(RefMapRow) /\ Len(newer) = N + 1
      /\ \A n \in 1..N : newer[n] = maps[n]
      /\ newer[N + 1] = row
  BY AppendFacts
<1> HIDE DEF newer
<1>3. /\ SumOf(RefCounts(newer, S, i), Parts(newer, S, i), N + 1)
      /\ RefCount(newer, S, i) = RefCounts(newer, S, i)[N + 1]
  BY <1>2, RefCountIsSum
<1>4. /\ \A n \in 1..N : Parts(maps, S, i)[n] = Part(maps[n], S, i)
      /\ \A n \in 1..(N + 1) : Parts(newer, S, i)[n] = Part(newer[n], S, i)
  BY <1>2 DEF Parts
<1> HIDE DEF N
<1>5. SumOf(RefCounts(newer, S, i), Parts(newer, S, i), N)
  BY <1>1, <1>3 DEF SumOf
<1>6. \A n \in 1..N : n # N + 1 => Parts(maps, S, i)[n] = Parts(newer, S, i)[n]
  BY <1>1, <1>2, <1>4
<1>7. RefCounts(newer, S, i)[N] = RefCounts(maps, S, i)[N]
  <2>1. N + 1 \in Nat \ {0} /\ N + 1 \notin 1..N
    BY <1>1
  <2>2. QED
    BY <1>1, <1>5, <1>6, <2>1, SumChange
<1>8. RefCounts(newer, S, i)[N + 1] = RefCounts(newer, S, i)[N] + Parts(newer, S, i)[N + 1]
  <2>1. N + 1 \in 1..(N + 1) /\ (N + 1) - 1 = N
    BY <1>1
  <2>2. QED
    BY <1>3, <2>1 DEF SumOf
<1>9. Parts(newer, S, i)[N + 1] = Part(row, S, i)
  BY <1>1, <1>2, <1>4
<1>10. RefCount(newer, S, i) = RefCount(maps, S, i) + Part(row, S, i)
  BY <1>1, <1>3, <1>7, <1>8, <1>9
<1>11. QED
  BY <1>10 DEF newer

LEMMA RefCountRemove ==
  ASSUME NEW maps \in Seq(RefMapRow), NEW k \in 1..Len(maps), NEW S, NEW i
  PROVE  RefCount(RemoveAt(maps, k), S, i) = RefCount(maps, S, i) - Part(maps[k], S, i)
<1> DEFINE newer == RemoveAt(maps, k)
           N == Len(maps)
<1>1. /\ SumOf(RefCounts(maps, S, i), Parts(maps, S, i), N)
      /\ RefCount(maps, S, i) = RefCounts(maps, S, i)[N]
      /\ N \in Nat
  BY RefCountIsSum
<1>2. /\ newer \in Seq(RefMapRow) /\ Len(newer) = N - 1
      /\ \A n \in 1..(N - 1) : newer[n] = maps[IF n < k THEN n ELSE n + 1]
  BY RemoveAtFacts
<1> HIDE DEF newer
<1>3. /\ SumOf(RefCounts(newer, S, i), Parts(newer, S, i), N - 1)
      /\ RefCount(newer, S, i) = RefCounts(newer, S, i)[N - 1]
  BY <1>2, RefCountIsSum
<1>4. /\ \A n \in 1..N : Parts(maps, S, i)[n] = Part(maps[n], S, i)
      /\ \A n \in 1..(N - 1) : Parts(newer, S, i)[n] = Part(newer[n], S, i)
  BY <1>2 DEF Parts
<1>5. k \in 1..N
  OBVIOUS
<1> HIDE DEF N
<1>6. ASSUME NEW n \in 1..(N - 1)
      PROVE  Parts(newer, S, i)[n] = Parts(maps, S, i)[IF n < k THEN n ELSE n + 1]
  <2>1. (IF n < k THEN n ELSE n + 1) \in 1..N
    BY <1>1
  <2>2. QED
    BY <1>2, <1>4, <2>1
<1>7. RefCounts(newer, S, i)[N - 1] = RefCounts(maps, S, i)[N] - Parts(maps, S, i)[k]
  BY <1>1, <1>3, <1>6, <1>5, SumRemove
<1>8. RefCount(newer, S, i) = RefCount(maps, S, i) - Part(maps[k], S, i)
  BY <1>1, <1>3, <1>4, <1>7, <1>5
<1>9. QED
  BY <1>8 DEF newer

\* More subjects have no smaller count.
LEMMA RefCountMore ==
  ASSUME NEW maps \in Seq(RefMapRow), NEW S, NEW T, S \subseteq T, NEW i
  PROVE  RefCount(maps, S, i) <= RefCount(maps, T, i)
<1>1. /\ SumOf(RefCounts(maps, S, i), Parts(maps, S, i), Len(maps))
      /\ RefCount(maps, S, i) = RefCounts(maps, S, i)[Len(maps)]
      /\ Len(maps) \in Nat
  BY RefCountIsSum
<1>2. /\ SumOf(RefCounts(maps, T, i), Parts(maps, T, i), Len(maps))
      /\ RefCount(maps, T, i) = RefCounts(maps, T, i)[Len(maps)]
  BY RefCountIsSum
<1>3. \A n \in 1..Len(maps) : Parts(maps, S, i)[n] <= Parts(maps, T, i)[n]
  <2>1. \A n \in 1..Len(maps) : maps[n] \in RefMapRow
    BY ElementOfSeq
  <2>2. \A n \in 1..Len(maps) : maps[n].ref_count \in Nat
    BY <2>1 DEF RefMapRow
  <2>3. QED
    BY <2>2 DEF Parts, Part
<1>4. QED
  BY <1>1, <1>2, <1>3, SumLess

-----------------------------------------------------------------------------
(* Changing the mappings *)

MapsTypeOK == pipe_ref_map \in Seq(RefMapRow)

\* The keys of the mappings are among the old ones and those of K.
KeysWithin(newer, K) ==
  \A n \in 1..Len(newer) :
    \/ <<newer[n].subject, newer[n].index>> \in K
    \/ \E m \in 1..Len(pipe_ref_map) : /\ newer[n].subject = pipe_ref_map[m].subject
                                       /\ newer[n].index = pipe_ref_map[m].index

LEMMA IncrementedFacts ==
  ASSUME MapsTypeOK, NEW s \in SubjectIds, NEW i \in Nat \ {0}
  PROVE  /\ Incremented(s, i) \in Seq(RefMapRow)
         /\ KeysWithin(Incremented(s, i), {<<s, i>>})
         /\ \A S, j : RefCount(Incremented(s, i), S, j)
                        = RefCount(pipe_ref_map, S, j) + IF s \in S /\ i = j THEN 1 ELSE 0
<1> DEFINE maps == pipe_ref_map
           N == Len(maps)
           m == MapIndex(s, i)
           newer == Incremented(s, i)
<1>1. maps \in Seq(RefMapRow)
  BY DEF MapsTypeOK
<1>2. /\ m \in 0..N /\ N \in Nat
      /\ m # 0 => maps[m].subject = s /\ maps[m].index = i
  BY <1>1, MapIndexFacts
<1>3. CASE m = 0
  <2> DEFINE row == [subject |-> s, index |-> i, ref_count |-> 1]
  <2>1. row \in RefMapRow
    BY DEF RefMapRow
  <2>2. newer = Append(maps, row)
    BY <1>3 DEF Incremented
  <2>3. row.subject = s /\ row.index = i /\ row.ref_count = 1
    OBVIOUS
  <2> HIDE DEF row, newer, maps, m
  <2>4. /\ newer \in Seq(RefMapRow) /\ Len(newer) = N + 1
        /\ \A n \in 1..N : newer[n] = maps[n]
        /\ newer[N + 1] = row
    BY <1>1, <2>1, <2>2, AppendFacts
  <2>5. KeysWithin(newer, {<<s, i>>})
    <3> SUFFICES ASSUME NEW n \in 1..Len(newer), n \notin 1..N
                 PROVE  <<newer[n].subject, newer[n].index>> = <<s, i>>
      BY <2>4 DEF KeysWithin, maps
    <3>1. n = N + 1
      BY <1>2, <2>4
    <3>2. QED
      BY <2>3, <2>4, <3>1
  <2>6. \A S, j : RefCount(newer, S, j) = RefCount(maps, S, j) + Part(row, S, j)
    BY <1>1, <2>1, <2>2, RefCountAppend
  <2>7. \A S, j : Part(row, S, j) = IF s \in S /\ i = j THEN 1 ELSE 0
    BY <2>3 DEF Part
  <2>8. QED
    BY <2>4, <2>5, <2>6, <2>7 DEF newer, maps
<1>4. CASE m # 0
  <2>1. m \in 1..N
    BY <1>2, <1>4
  <2>2. maps[m] \in RefMapRow
    BY <1>1, <2>1, ElementOfSeq
  <2> DEFINE row == [maps[m] EXCEPT !.ref_count = @ + 1]
  <2>3. /\ row \in RefMapRow /\ row.subject = s /\ row.index = i
        /\ row.ref_count = maps[m].ref_count + 1 /\ maps[m].ref_count \in Nat
    BY <1>2, <1>4, <2>2 DEF RefMapRow
  <2>4. newer = [maps EXCEPT ![m] = row]
    BY <1>4 DEF Incremented
  <2> HIDE DEF row, newer, maps, m
  <2>5. /\ newer \in Seq(RefMapRow) /\ Len(newer) = N
        /\ \A n \in 1..N : newer[n] = IF n = m THEN row ELSE maps[n]
    BY <1>1, <2>1, <2>3, <2>4, ExceptSeq
  <2>6. KeysWithin(newer, {<<s, i>>})
    BY <2>3, <2>5 DEF KeysWithin, maps
  <2>7. ASSUME NEW S, NEW j
        PROVE  RefCount(newer, S, j) = RefCount(maps, S, j) + IF s \in S /\ i = j THEN 1 ELSE 0
    <3>1. RefCount(newer, S, j)
            = RefCount(maps, S, j) + Part(newer[m], S, j) - Part(maps[m], S, j)
      BY <1>1, <2>1, <2>5, RefCountChange
    <3>2. newer[m] = row
      BY <2>1, <2>5
    <3>3. /\ Part(row, S, j) = IF s \in S /\ i = j THEN maps[m].ref_count + 1 ELSE 0
          /\ Part(maps[m], S, j) = IF s \in S /\ i = j THEN maps[m].ref_count ELSE 0
      BY <1>2, <1>4, <2>3 DEF Part
    <3>4. RefCount(maps, S, j) \in Nat
      BY <1>1, RefCountType
    <3>5. QED
      BY <2>3, <3>1, <3>2, <3>3, <3>4
  <2>8. QED
    BY <2>5, <2>6, <2>7 DEF newer, maps
<1>5. QED
  BY <1>3, <1>4

LEMMA DecrementedFacts ==
  ASSUME MapsTypeOK, NEW s, NEW i
  PROVE  /\ Decremented(s, i) \in Seq(RefMapRow)
         /\ KeysWithin(Decremented(s, i), {})
         /\ \A S, j : RefCount(Decremented(s, i), S, j)
                        = RefCount(pipe_ref_map, S, j)
                            - IF s \in S /\ i = j /\ MapIndex(s, i) # 0 THEN 1 ELSE 0
<1> DEFINE maps == pipe_ref_map
           N == Len(maps)
           m == MapIndex(s, i)
           newer == Decremented(s, i)
<1>1. maps \in Seq(RefMapRow)
  BY DEF MapsTypeOK
<1>2. /\ m \in 0..N /\ N \in Nat
      /\ m # 0 => maps[m].subject = s /\ maps[m].index = i
  BY <1>1, MapIndexFacts
<1>3. \A S, j : RefCount(maps, S, j) \in Nat
  BY <1>1, RefCountType
<1>4. CASE m = 0
  <2>1. newer = maps
    BY <1>4 DEF Decremented
  <2>2. \A S, j : RefCount(maps, S, j) - 0 = RefCount(maps, S, j)
    BY <1>3
  <2>3. QED
    BY <1>1, <1>4, <2>1, <2>2 DEF KeysWithin
<1>5. CASE m # 0 /\ maps[m].ref_count > 1
  <2>1. m \in 1..N
    BY <1>2, <1>5
  <2>2. maps[m] \in RefMapRow
    BY <1>1, <2>1, ElementOfSeq
  <2> DEFINE row == [maps[m] EXCEPT !.ref_count = @ - 1]
  <2>3. /\ row \in RefMapRow /\ row.subject = s /\ row.index = i
        /\ row.ref_count = maps[m].ref_count - 1 /\ maps[m].ref_count \in Nat
    BY <1>2, <1>5, <2>2 DEF RefMapRow
  <2>4. newer = [maps EXCEPT ![m] = row]
    BY <1>5 DEF Decremented
  <2> HIDE DEF row, newer, maps
  <2>5. /\ newer \in Seq(RefMapRow) /\ Len(newer) = N
        /\ \A n \in 1..N : newer[n] = IF n = m THEN row ELSE maps[n]
    <3> HIDE DEF m
    <3>1. QED
      BY <1>1, <2>1, <2>3, <2>4, ExceptSeq
  <2>6. KeysWithin(newer, {})
    <3> HIDE DEF m
    <3>1. QED
      BY <1>2, <1>5, <2>1, <2>3, <2>5 DEF KeysWithin, maps
  <2>7. ASSUME NEW S, NEW j
        PROVE  RefCount(newer, S, j) = RefCount(maps, S, j) - IF s \in S /\ i = j THEN 1 ELSE 0
    <3> HIDE DEF m
    <3>1. RefCount(newer, S, j)
            = RefCount(maps, S, j) + Part(newer[m], S, j) - Part(maps[m], S, j)
      BY <1>1, <2>1, <2>5, RefCountChange
    <3>2. newer[m] = row
      BY <2>1, <2>5
    <3>3. /\ Part(row, S, j) = IF s \in S /\ i = j THEN maps[m].ref_count - 1 ELSE 0
          /\ Part(maps[m], S, j) = IF s \in S /\ i = j THEN maps[m].ref_count ELSE 0
      BY <1>2, <1>5, <2>3 DEF Part
    <3>4. QED
      BY <1>3, <2>3, <3>1, <3>2, <3>3
  <2>8. QED
    BY <1>5, <2>5, <2>6, <2>7 DEF newer, maps
<1>6. CASE m # 0 /\ ~(maps[m].ref_count > 1)
  <2>1. m \in 1..N
    BY <1>2, <1>6
  <2>2. maps[m] \in RefMapRow
    BY <1>1, <2>1, ElementOfSeq
  <2>3. maps[m].ref_count = 1
    BY <1>6, <2>2 DEF RefMapRow
  <2>4. newer = RemoveAt(maps, m)
    BY <1>6 DEF Decremented
  <2> HIDE DEF newer, maps
  <2>5. /\ newer \in Seq(RefMapRow) /\ Len(newer) = N - 1
        /\ \A n \in 1..(N - 1) : newer[n] = maps[IF n < m THEN n ELSE n + 1]
    <3> HIDE DEF m
    <3>1. QED
      BY <1>1, <2>1, <2>4, RemoveAtFacts
  <2>6. KeysWithin(newer, {})
    <3> HIDE DEF m
    <3> SUFFICES ASSUME NEW n \in 1..Len(newer)
                 PROVE  \E k \in 1..N : newer[n] = maps[k]
      BY DEF KeysWithin, maps
    <3>1. n \in 1..(N - 1)
      BY <2>5
    <3>2. (IF n < m THEN n ELSE n + 1) \in 1..N
      BY <1>2, <3>1
    <3>3. QED
      BY <2>5, <3>1, <3>2
  <2>7. ASSUME NEW S, NEW j
        PROVE  RefCount(newer, S, j) = RefCount(maps, S, j) - IF s \in S /\ i = j THEN 1 ELSE 0
    <3> HIDE DEF m
    <3>1. RefCount(newer, S, j) = RefCount(maps, S, j) - Part(maps[m], S, j)
      BY <1>1, <2>1, <2>4, RefCountRemove
    <3>2. Part(maps[m], S, j) = IF s \in S /\ i = j THEN 1 ELSE 0
      BY <1>2, <1>6, <2>3 DEF Part
    <3>3. QED
      BY <3>1, <3>2
  <2>8. QED
    BY <1>6, <2>5, <2>6, <2>7 DEF newer, maps
<1>7. QED
  BY <1>4, <1>5, <1>6

-----------------------------------------------------------------------------
(* Copying the mappings of a subject *)

\* The n-th mapping of maps is copied to newer, or it is not one of s.
CopyOne(maps, s, t, newer, n) ==
  IF maps[n].subject = s THEN Append(newer, [maps[n] EXCEPT !.subject = t]) ELSE newer

\* f has the mappings after each copy, as CopiedMaps has them.
Copies(maps, s, t, N, f) ==
  f = [n \in 0..N |-> IF n = 0 THEN maps ELSE CopyOne(maps, s, t, f[n - 1], n)]

LEMMA CopiesExist ==
  ASSUME NEW maps, NEW s, NEW t, NEW N \in Nat
  PROVE  \E f : Copies(maps, s, t, N, f)
<1> DEFINE G == {n \in Nat : \E f : Copies(maps, s, t, n, f)}
<1>1. 0 \in G
  <2> DEFINE f == [n \in 0..0 |-> maps]
  <2>1. f = [n \in 0..0 |-> IF n = 0 THEN maps ELSE CopyOne(maps, s, t, f[n - 1], n)]
    OBVIOUS
  <2> HIDE DEF f
  <2>2. QED
    BY <2>1 DEF Copies
<1>2. ASSUME NEW n \in Nat, n \in G
      PROVE  n + 1 \in G
  <2>1. PICK f : f = [m \in 0..n |->
                        IF m = 0 THEN maps ELSE CopyOne(maps, s, t, f[m - 1], m)]
    BY <1>2 DEF Copies
  <2> DEFINE g == [m \in 0..(n + 1) |->
                     IF m = n + 1 THEN CopyOne(maps, s, t, f[n], m) ELSE f[m]]
  <2>2. ASSUME NEW m \in 0..(n + 1)
        PROVE  g[m] = IF m = 0 THEN maps ELSE CopyOne(maps, s, t, g[m - 1], m)
    <3>1. CASE m = n + 1
      <4>1. g[m] = CopyOne(maps, s, t, f[n], m) /\ m # 0
        BY <3>1
      <4>2. g[m - 1] = f[n]
        BY <3>1
      <4>3. QED
        BY <4>1, <4>2
    <3>2. CASE m # n + 1
      <4>1. m \in 0..n /\ g[m] = f[m] /\ (m # 0 => m - 1 \in 0..n)
        BY <3>2
      <4>2. m # 0 => g[m - 1] = f[m - 1]
        BY <3>2, <4>1
      <4>3. f[m] = IF m = 0 THEN maps ELSE CopyOne(maps, s, t, f[m - 1], m)
        BY <2>1, <4>1
      <4>4. QED
        BY <4>1, <4>2, <4>3
    <3>3. QED
      BY <3>1, <3>2
  <2>3. g = [m \in 0..(n + 1) |->
               IF m = 0 THEN maps ELSE CopyOne(maps, s, t, g[m - 1], m)]
    <3>1. DOMAIN g = 0..(n + 1) /\ g = [m \in 0..(n + 1) |-> g[m]]
      OBVIOUS
    <3> HIDE DEF g
    <3>2. QED
      BY <2>2, <3>1
  <2> HIDE DEF g
  <2>4. QED
    BY <2>3 DEF Copies
<1> HIDE DEF G
<1>3. N \in G
  BY <1>1, <1>2, EveryNumber
<1>4. QED
  BY <1>3 DEF G

\* The keys that a copy may add, and the references of one subject.
CopiedKeys(s, t) == {<<t, pipe_ref_map[m].index>> :
                       m \in {n \in 1..Len(pipe_ref_map) : pipe_ref_map[n].subject = s}}

OwnCount(s, i) == RefCount(pipe_ref_map, {s}, i)

LEMMA CopiedMapsFacts ==
  ASSUME MapsTypeOK, NEW s, NEW t \in SubjectIds, NEW X, NEW j
  PROVE  /\ CopiedMaps(s, t) \in Seq(RefMapRow)
         /\ KeysWithin(CopiedMaps(s, t), CopiedKeys(s, t))
         /\ RefCount(CopiedMaps(s, t), X, j)
              = RefCount(pipe_ref_map, X, j)
                  + IF t \in X THEN OwnCount(s, j) ELSE 0
<1> DEFINE maps == pipe_ref_map
           N == Len(maps)
           K == {<<t, maps[m].index>> : m \in {n \in 1..N : maps[n].subject = s}}
           c == CHOOSE f : Copies(maps, s, t, N, f)
           Count(S, i) == RefCounts(maps, S, i)
           Copied(n) == /\ c[n] \in Seq(RefMapRow)
                        /\ KeysWithin(c[n], K)
                        /\ \A S, i : RefCount(c[n], S, i)
                                       = RefCount(maps, S, i)
                                           + IF t \in S THEN Count({s}, i)[n] ELSE 0
<1>1. maps \in Seq(RefMapRow) /\ N \in Nat /\ \A n \in 1..N : maps[n] \in RefMapRow
  BY LenProperties, ElementOfSeq DEF MapsTypeOK
<1>2. CopiedMaps(s, t) = c[N]
  BY DEF CopiedMaps, Copies, CopyOne
<1>3. Copies(maps, s, t, N, c)
  <2>1. \E f : Copies(maps, s, t, N, f)
    BY <1>1, CopiesExist
  <2>2. QED
    BY <2>1
<1>4. /\ \A S, i : RefCount(maps, S, i) = Count(S, i)[N]
      /\ \A S, i : SumOf(Count(S, i), Parts(maps, S, i), N)
      /\ \A S, i : RefCount(maps, S, i) \in Nat
      /\ \A i : \A n \in 0..N : Count({s}, i)[n] \in Nat
  BY <1>1, RefCountIsSum, RefCountType, SumType
<1>5. \A i : /\ Count({s}, i)[0] = 0
             /\ \A n \in 1..N : Count({s}, i)[n] = Count({s}, i)[n - 1] + Part(maps[n], {s}, i)
  <2>1. \A i : \A n \in 1..N : Parts(maps, {s}, i)[n] = Part(maps[n], {s}, i)
    BY DEF Parts
  <2> HIDE DEF maps, N, Count
  <2>2. QED
    BY <1>4, <2>1 DEF SumOf
<1> HIDE DEF c, Count
<1>6. c[0] = maps /\ \A n \in 1..N : c[n] = CopyOne(maps, s, t, c[n - 1], n)
  <2> HIDE DEF maps
  <2>1. QED
    BY <1>1, <1>3 DEF Copies
<1> DEFINE G == {n \in Nat : n <= N => Copied(n)}
<1> HIDE DEF Copied
<1>7. 0 \in G
  <2>1. KeysWithin(maps, K)
    BY DEF KeysWithin
  <2>2. \A S, i : RefCount(maps, S, i) = RefCount(maps, S, i) + 0
    BY <1>4
  <2> HIDE DEF maps, N, K
  <2>3. Copied(0)
    BY <1>1, <1>5, <1>6, <2>1, <2>2 DEF Copied
  <2>4. QED
    BY <2>3
<1>8. ASSUME NEW n \in Nat, n \in G
      PROVE  n + 1 \in G
  <2>1. SUFFICES ASSUME n + 1 <= N
                 PROVE  Copied(n + 1)
    OBVIOUS
  <2>2. Copied(n)
    BY <1>1, <1>8, <2>1
  <2>3. /\ c[n] \in Seq(RefMapRow)
        /\ KeysWithin(c[n], K)
        /\ \A S, i : RefCount(c[n], S, i)
                       = RefCount(maps, S, i) + IF t \in S THEN Count({s}, i)[n] ELSE 0
    BY <2>2 DEF Copied
  <2>4. n + 1 \in 1..N /\ (n + 1) - 1 = n /\ n \in 0..N
    BY <1>1, <2>1
  <2>5. c[n + 1] = CopyOne(maps, s, t, c[n], n + 1)
    BY <1>6, <2>4
  <2>6. \A i : Count({s}, i)[n + 1] = Count({s}, i)[n] + Part(maps[n + 1], {s}, i)
    BY <1>5, <2>4
  <2>7. maps[n + 1] \in RefMapRow
    BY <1>1, <2>4
  <2>8. CASE maps[n + 1].subject = s
    <3> DEFINE row == [maps[n + 1] EXCEPT !.subject = t]
    <3>1. /\ row \in RefMapRow /\ row.subject = t
          /\ row.index = maps[n + 1].index /\ row.ref_count = maps[n + 1].ref_count
          /\ row.ref_count \in Nat
      BY <2>7 DEF RefMapRow
    <3>2. c[n + 1] = Append(c[n], row)
      BY <2>5, <2>8 DEF CopyOne
    <3>3. <<row.subject, row.index>> \in K
      BY <2>4, <2>8, <3>1
    <3> HIDE DEF row, maps, N, K
    <3>4. /\ c[n + 1] \in Seq(RefMapRow) /\ Len(c[n]) \in Nat /\ Len(c[n + 1]) = Len(c[n]) + 1
          /\ \A m \in 1..Len(c[n]) : c[n + 1][m] = c[n][m]
          /\ c[n + 1][Len(c[n]) + 1] = row
      BY <2>3, <3>1, <3>2, AppendFacts
    <3>5. KeysWithin(c[n + 1], K)
      <4> SUFFICES ASSUME NEW m \in 1..Len(c[n + 1]), m \notin 1..Len(c[n])
                   PROVE  <<c[n + 1][m].subject, c[n + 1][m].index>> \in K
        BY <2>3, <3>4, SMTT(30) DEF KeysWithin
      <4>1. m = Len(c[n]) + 1
        BY <3>4
      <4>2. QED
        BY <3>3, <3>4, <4>1
    <3>6. ASSUME NEW S, NEW i
          PROVE  RefCount(c[n + 1], S, i)
                   = RefCount(maps, S, i) + IF t \in S THEN Count({s}, i)[n + 1] ELSE 0
      <4>1. RefCount(c[n + 1], S, i) = RefCount(c[n], S, i) + Part(row, S, i)
        BY <2>3, <3>1, <3>2, RefCountAppend
      <4>2. Part(row, S, i) = IF t \in S THEN Part(maps[n + 1], {s}, i) ELSE 0
        BY <2>8, <3>1 DEF Part
      <4>3. RefCount(c[n], S, i) = RefCount(maps, S, i) + IF t \in S THEN Count({s}, i)[n] ELSE 0
        BY <2>3
      <4>4. Part(maps[n + 1], {s}, i) \in Nat
        BY <3>1 DEF Part
      <4>5. RefCount(maps, S, i) \in Nat /\ Count({s}, i)[n] \in Nat
        BY <1>4, <2>4
      <4>6. Count({s}, i)[n + 1] = Count({s}, i)[n] + Part(maps[n + 1], {s}, i)
        BY <2>6
      <4> HIDE <2>3
      <4>7. QED
        BY <4>1, <4>2, <4>3, <4>4, <4>5, <4>6
    <3>7. QED
      BY <3>4, <3>5, <3>6 DEF Copied
  <2>9. CASE maps[n + 1].subject # s
    <3>1. c[n + 1] = c[n]
      BY <2>5, <2>9 DEF CopyOne
    <3>2. ASSUME NEW i
          PROVE  Count({s}, i)[n + 1] = Count({s}, i)[n]
      <4>1. Part(maps[n + 1], {s}, i) = 0
        BY <2>9 DEF Part
      <4>2. Count({s}, i)[n] \in Nat
        BY <1>4, <2>4
      <4>3. Count({s}, i)[n + 1] = Count({s}, i)[n] + Part(maps[n + 1], {s}, i)
        BY <2>6
      <4>4. QED
        BY <4>1, <4>2, <4>3
    <3> HIDE DEF maps, N, K
    <3>3. QED
      BY <2>3, <3>1, <3>2 DEF Copied
  <2>10. QED
    BY <2>8, <2>9
<1>9. Copied(N)
  <2> HIDE DEF G
  <2>1. N \in G
    BY <1>1, <1>7, <1>8, EveryNumber
  <2>2. QED
    BY <1>1, <2>1 DEF G
<1>10. \A S, i : RefCount(maps, {s}, i) = Count({s}, i)[N]
  BY <1>4
<1> HIDE DEF G
<1>11. K = CopiedKeys(s, t)
  BY DEF CopiedKeys
<1> HIDE DEF K
<1>12. RefCount(c[N], X, j) = RefCount(maps, X, j) + IF t \in X THEN Count({s}, j)[N] ELSE 0
  BY <1>9 DEF Copied
<1>13. c[N] \in Seq(RefMapRow) /\ KeysWithin(c[N], K)
  BY <1>9 DEF Copied
<1>14. OwnCount(s, j) = Count({s}, j)[N]
  BY <1>10 DEF OwnCount
<1>15. QED
  BY <1>2, <1>11, <1>12, <1>13, <1>14

(***************************************************************************)
(* The tables: a channel has one row, in the table of its kind.  A pipe    *)
(* gets its row from who made it, and nobody has it open before it is made.*)
(***************************************************************************)
InTable(table, x) == \E i \in DOMAIN table : table[i].channel = x

OneRowEach(table) ==
  \A i, j \in DOMAIN table : table[i].channel = table[j].channel => i = j

Making(p) == pc[p] = "opened" /\ kind[on[p][1]] = "pipe"

TableInv ==
  /\ OneRowEach(all_pipe_objects) /\ OneRowEach(all_socket_connections)
  /\ \A x : InTable(all_pipe_objects, x) => kind[x] \in {"pipe", "fifo"}
  /\ \A x \in backlog : kind[x] = "socket"
  /\ \A p \in Pids : pc[p] = "opened" => kind[on[p][1]] # "unmade"
  /\ \A p \in Pids : Making(p) =>
       /\ ~InTable(all_pipe_objects, on[p][1])
       /\ \A q \in Pids : Making(q) /\ on[q][1] = on[p][1] => q = p

\* Rows of both tables and of processes are labels.
IsLabel(l) == l.readers \subseteq Users /\ l.writers \subseteq Users

LEMMA RaiseChannelRow ==
  ASSUME NEW row \in ChannelRow, NEW l, IsLabel(l)
  PROVE  /\ Raise(row, l) \in ChannelRow /\ IsLabel(row)
         /\ Raise(row, l).channel = row.channel
         /\ Raise(row, l).ref_count = row.ref_count
         /\ Raise(row, l).readers = row.readers \cap l.readers
         /\ Raise(row, l).writers = row.writers \cup l.writers
         /\ FlowsTo(row, Raise(row, l))
  BY DEF Raise, ChannelRow, UserSet, FlowsTo, IsLabel

LEMMA RaiseConnectionRow ==
  ASSUME NEW row \in ConnectionRow, NEW l, IsLabel(l)
  PROVE  /\ Raise(row, l) \in ConnectionRow /\ IsLabel(row)
         /\ Raise(row, l).channel = row.channel
         /\ Raise(row, l).num_peers = row.num_peers
         /\ Raise(row, l).peer_ids = row.peer_ids
         /\ Raise(row, l).readers = row.readers \cap l.readers
         /\ Raise(row, l).writers = row.writers \cup l.writers
         /\ FlowsTo(row, Raise(row, l))
  BY DEF Raise, ConnectionRow, UserSet, FlowsTo, IsLabel

(***************************************************************************)
(* What a step does to a table: one row is changed, added or removed, or   *)
(* none.  Each row is an old one whose label did not fall, or the only row *)
(* of its channel.                                                         *)
(***************************************************************************)
TableStep(table, newer) ==
  /\ OneRowEach(newer)
  /\ \A j \in DOMAIN newer :
       \/ ~InTable(table, newer[j].channel)
       \/ \E i \in DOMAIN table : /\ newer[j].channel = table[i].channel
                                  /\ FlowsTo(table[i], newer[j])

LEMMA SameTable ==
  ASSUME NEW table, OneRowEach(table)
  PROVE  TableStep(table, table)
  BY DEF TableStep, FlowsTo

LEMMA KeptTable ==
  ASSUME NEW R, NEW table \in Seq(R), NEW newer \in Seq(R), OneRowEach(table),
         Len(newer) = Len(table),
         \A i \in 1..Len(table) : /\ newer[i].channel = table[i].channel
                                  /\ FlowsTo(table[i], newer[i])
  PROVE  TableStep(table, newer)
<1>1. DOMAIN table = 1..Len(table) /\ DOMAIN newer = 1..Len(table)
  BY LenProperties
<1>2. QED
  BY <1>1 DEF TableStep, OneRowEach

LEMMA RemovedRow ==
  ASSUME NEW R, NEW table \in Seq(R), OneRowEach(table), NEW k \in 1..Len(table)
  PROVE  /\ TableStep(table, RemoveAt(table, k))
         /\ ~InTable(RemoveAt(table, k), table[k].channel)
         /\ \A j \in DOMAIN RemoveAt(table, k) :
              \E i \in DOMAIN table : i # k /\ RemoveAt(table, k)[j] = table[i]
<1> DEFINE newer == RemoveAt(table, k)
           from(j) == IF j < k THEN j ELSE j + 1
<1>1. /\ newer \in Seq(R) /\ Len(newer) = Len(table) - 1 /\ Len(table) \in Nat
      /\ \A j \in 1..(Len(table) - 1) : newer[j] = table[from(j)]
  BY RemoveAtFacts
<1> HIDE DEF newer
<1>2. \A j \in 1..(Len(table) - 1) : from(j) \in 1..Len(table) /\ from(j) # k
  BY <1>1
<1>3. \A i, j \in 1..(Len(table) - 1) : from(i) = from(j) => i = j
  BY <1>1
<1> HIDE DEF from
<1>4. DOMAIN table = 1..Len(table) /\ DOMAIN newer = 1..(Len(table) - 1)
  BY <1>1, LenProperties
<1>5. \A j \in DOMAIN newer : /\ from(j) \in DOMAIN table /\ from(j) # k
                              /\ newer[j] = table[from(j)]
  BY <1>1, <1>2, <1>4
<1>6. OneRowEach(newer)
  BY <1>3, <1>4, <1>5 DEF OneRowEach
<1>7. ~InTable(newer, table[k].channel)
  BY <1>4, <1>5 DEF OneRowEach, InTable
<1>8. \A j \in DOMAIN newer : newer[j].channel = table[from(j)].channel
                              /\ FlowsTo(table[from(j)], newer[j])
  BY <1>5 DEF FlowsTo
<1>9. TableStep(table, newer)
  BY <1>5, <1>6, <1>8 DEF TableStep
<1>10. QED
  BY <1>5, <1>7, <1>9 DEF newer

LEMMA AddedRow ==
  ASSUME NEW R, NEW table \in Seq(R), OneRowEach(table), NEW row \in R,
         ~InTable(table, row.channel)
  PROVE  /\ TableStep(table, Append(table, row))
         /\ DOMAIN Append(table, row) = DOMAIN table \cup {Len(table) + 1}
         /\ \A i \in DOMAIN table : Append(table, row)[i] = table[i] /\ i # Len(table) + 1
         /\ Append(table, row)[Len(table) + 1] = row
<1> DEFINE newer == Append(table, row)
<1>1. /\ newer \in Seq(R) /\ Len(newer) = Len(table) + 1 /\ Len(table) \in Nat
      /\ \A i \in 1..Len(table) : newer[i] = table[i]
      /\ newer[Len(table) + 1] = row
  BY AppendFacts
<1> HIDE DEF newer
<1>2. DOMAIN table = 1..Len(table) /\ DOMAIN newer = 1..(Len(table) + 1)
  BY <1>1, LenProperties
<1>3. /\ DOMAIN newer = DOMAIN table \cup {Len(table) + 1}
      /\ Len(table) + 1 \notin DOMAIN table
  <2>1. /\ 1..(Len(table) + 1) = 1..Len(table) \cup {Len(table) + 1}
        /\ Len(table) + 1 \notin 1..Len(table)
    BY <1>1
  <2>2. QED
    BY <1>2, <2>1
<1>4. \A i \in DOMAIN table : newer[i] = table[i]
  BY <1>1, <1>2
<1>5. OneRowEach(newer)
  BY <1>1, <1>3, <1>4 DEF OneRowEach, InTable
<1>6. TableStep(table, newer)
  BY <1>1, <1>3, <1>4, <1>5 DEF TableStep, FlowsTo
<1>7. QED
  BY <1>1, <1>3, <1>4, <1>6 DEF newer

\* With one row of each channel the position of a row is the position of its channel.
LEMMA IndexOfRow ==
  ASSUME NEW R, NEW table \in Seq(R), NEW x
  PROVE  /\ IndexOf(table, x) # 0 <=> InTable(table, x)
         /\ IndexOf(table, x) # 0 => /\ IndexOf(table, x) \in DOMAIN table
                                     /\ table[IndexOf(table, x)].channel = x
         /\ 0 \notin DOMAIN table
<1>1. /\ IndexOf(table, x) \in 0..Len(table) /\ Len(table) \in Nat
      /\ IndexOf(table, x) = 0 => \A i \in 1..Len(table) : table[i].channel # x
      /\ IndexOf(table, x) # 0 => table[IndexOf(table, x)].channel = x
  BY IndexOfFacts
<1>2. IndexOf(table, x) # 0 => IndexOf(table, x) \in 1..Len(table)
  BY <1>1
<1>3. DOMAIN table = 1..Len(table)
  BY LenProperties
<1>4. 0 \notin 1..Len(table)
  OBVIOUS
<1>5. QED
  BY <1>1, <1>2, <1>3, <1>4 DEF InTable

LEMMA TableStepRises ==
  ASSUME NEW R, NEW table \in Seq(R), NEW newer \in Seq(R), OneRowEach(table),
         TableStep(table, newer)
  PROVE  RowsRise(table, newer)
<1> SUFFICES ASSUME NEW x \in Channels, IndexOf(table, x) # 0, IndexOf(newer, x) # 0
             PROVE  FlowsTo(table[IndexOf(table, x)], newer[IndexOf(newer, x)])
  BY DEF RowsRise
<1>1. /\ IndexOf(table, x) \in DOMAIN table /\ table[IndexOf(table, x)].channel = x
      /\ InTable(table, x)
  BY IndexOfRow
<1>2. IndexOf(newer, x) \in DOMAIN newer /\ newer[IndexOf(newer, x)].channel = x
  BY IndexOfRow
<1>3. PICK i \in DOMAIN table : /\ x = table[i].channel
                                /\ FlowsTo(table[i], newer[IndexOf(newer, x)])
  BY <1>1, <1>2 DEF TableStep
<1>4. i = IndexOf(table, x)
  BY <1>1, <1>3 DEF OneRowEach
<1>5. QED
  BY <1>3, <1>4

-----------------------------------------------------------------------------
(* Types *)

\* A connection has at least one address, and the tables have their types.
PeersKnown == \A i \in DOMAIN all_socket_connections :
                all_socket_connections[i].peer_ids # <<>>

TablesTyped == REInv /\ CTTypeOK /\ PeersKnown

DbTypes == REStep /\ CTTypeOK' /\ PeersKnown'

LEMMA SubjectLabel ==
  ASSUME REInv, NEW s \in DOMAIN subjects
  PROVE  /\ subjects[s] \in SubjectRow /\ IsLabel(subjects[s]) /\ s \in SubjectIds
         /\ s[1] \in subjects[s].readers /\ subjects[s].owner = s[1]
  BY DEF REInv, RETypeOK, OwnerKeepsAccess, SubjectRow, IsLabel, UserSet

LEMMA ReIdle == ASSUME REInv, UNCHANGED revars PROVE REStep
<1>1. UNCHANGED <<subjects, objects>> /\ server' \in {"up", "stopped"}
  BY DEF revars, REInv, RETypeOK
<1>2. QED
  BY <1>1, REUnchanged

LEMMA StopStep == ASSUME REInv, StopServer PROVE REStep
<1>1. UNCHANGED <<subjects, objects>> /\ server' \in {"up", "stopped"}
  BY DEF StopServer
<1>2. QED
  BY <1>1, REUnchanged

LEMMA TablesIdle ==
  ASSUME TablesTyped, UNCHANGED ctvars
  PROVE  CTTypeOK' /\ PeersKnown'
  BY DEF TablesTyped, CTTypeOK, PeersKnown, ctvars

\* A row is replaced by one of the same channel: it is raised, or counted otherwise.
Replaced(table, i, row) == [table EXCEPT ![i] = row]

LEMMA ReplacedRow ==
  ASSUME NEW R, NEW table \in Seq(R), NEW i \in 1..Len(table), NEW row \in R,
         row.channel = table[i].channel, FlowsTo(table[i], row),
         NEW newer, newer = Replaced(table, i, row)
  PROVE  /\ newer \in Seq(R) /\ Len(newer) = Len(table)
         /\ \A j \in 1..Len(table) : newer[j] = IF j = i THEN row ELSE table[j]
         /\ OneRowEach(table) => TableStep(table, newer)
<1>1. /\ newer \in Seq(R) /\ Len(newer) = Len(table)
      /\ \A j \in 1..Len(table) : newer[j] = IF j = i THEN row ELSE table[j]
  BY ExceptSeq DEF Replaced
<1>2. \A j \in 1..Len(table) : /\ newer[j].channel = table[j].channel
                               /\ FlowsTo(table[j], newer[j])
  BY <1>1 DEF FlowsTo
<1>3. OneRowEach(table) => TableStep(table, newer)
  BY <1>1, <1>2, KeptTable
<1>4. QED
  BY <1>1, <1>3

LEMMA CreateFacts ==
  ASSUME TablesTyped, NEW s, NEW x \in Channels, create_pipe_check(s, x, "allowed")
  PROVE  /\ UNCHANGED <<revars, all_socket_connections>> /\ s \in DOMAIN subjects
         /\ server = "up"
         /\ \E row \in ChannelRow :
              /\ all_pipe_objects' = Append(all_pipe_objects, row)
              /\ row.channel = x /\ row.ref_count = 2
              /\ row.readers = subjects[s].readers
         /\ \E m \in RefMapRow :
              /\ pipe_ref_map' = Append(pipe_ref_map, m)
              /\ m.subject = s /\ m.index = Len(all_pipe_objects) + 1 /\ m.ref_count = 2
<1> DEFINE row == [channel |-> x, ref_count |-> 2, readers |-> subjects[s].readers,
                   writers |-> subjects[s].writers]
           m == [subject |-> s, index |-> Len(all_pipe_objects) + 1, ref_count |-> 2]
<1>1. /\ s \in DOMAIN subjects /\ server = "up"
      /\ all_pipe_objects' = Append(all_pipe_objects, row)
      /\ pipe_ref_map' = Append(pipe_ref_map, m)
      /\ UNCHANGED <<revars, all_socket_connections>>
  BY DEF create_pipe_check
<1>2. s \in SubjectIds /\ IsLabel(subjects[s])
  BY <1>1, SubjectLabel DEF TablesTyped
<1>3. row \in ChannelRow
  BY <1>2 DEF ChannelRow, IsLabel, UserSet
<1>4. Len(all_pipe_objects) + 1 \in Nat \ {0}
  BY LenProperties DEF TablesTyped, CTTypeOK
<1>5. m \in RefMapRow
  BY <1>2, <1>4 DEF RefMapRow
<1>6. /\ row.channel = x /\ row.ref_count = 2 /\ row.readers = subjects[s].readers
      /\ m.subject = s /\ m.index = Len(all_pipe_objects) + 1 /\ m.ref_count = 2
  OBVIOUS
<1> HIDE DEF row, m
<1>7. QED
  BY <1>1, <1>3, <1>5, <1>6

LEMMA OpenFifoFacts ==
  ASSUME TablesTyped, NEW s \in SubjectIds, NEW x \in Channels, open_fifo_check(s, x),
         NEW i, i = IndexOf(all_pipe_objects, x)
  PROVE  /\ UNCHANGED <<revars, all_socket_connections>> /\ server = "up"
         /\ i = 0 => /\ \E row \in ChannelRow :
                          /\ all_pipe_objects' = Append(all_pipe_objects, row)
                          /\ row.channel = x /\ row.ref_count = 1
                          /\ row.readers = Users
                     /\ \E m \in RefMapRow :
                          /\ pipe_ref_map' = Append(pipe_ref_map, m)
                          /\ m.subject = s /\ m.index = Len(all_pipe_objects) + 1
                          /\ m.ref_count = 1
         /\ i # 0 => /\ i \in 1..Len(all_pipe_objects)
                     /\ \E row \in ChannelRow :
                          /\ all_pipe_objects' = Replaced(all_pipe_objects, i, row)
                          /\ row.channel = all_pipe_objects[i].channel
                          /\ row.ref_count = all_pipe_objects[i].ref_count + 1
                          /\ row.readers = all_pipe_objects[i].readers
                          /\ FlowsTo(all_pipe_objects[i], row)
                     /\ pipe_ref_map' = Incremented(s, i)
<1>1. /\ server = "up" /\ UNCHANGED <<revars, all_socket_connections>>
  BY DEF open_fifo_check
<1>2. /\ all_pipe_objects \in Seq(ChannelRow) /\ Len(all_pipe_objects) \in Nat
      /\ i \in 0..Len(all_pipe_objects)
  BY IndexOfFacts DEF TablesTyped, CTTypeOK
<1>3. CASE i = 0
  <2> DEFINE row == [channel |-> x, ref_count |-> 1, readers |-> Users, writers |-> {}]
             m == [subject |-> s, index |-> Len(all_pipe_objects) + 1, ref_count |-> 1]
  <2>1. /\ all_pipe_objects' = Append(all_pipe_objects, row)
        /\ pipe_ref_map' = Append(pipe_ref_map, m)
    BY <1>3 DEF open_fifo_check
  <2>2. row \in ChannelRow
    BY DEF ChannelRow, UserSet
  <2>3. m \in RefMapRow
    BY <1>2 DEF RefMapRow
  <2>4. /\ row.channel = x /\ row.ref_count = 1 /\ row.readers = Users
        /\ m.subject = s /\ m.index = Len(all_pipe_objects) + 1 /\ m.ref_count = 1
    OBVIOUS
  <2> HIDE DEF row, m
  <2>5. QED
    BY <1>1, <1>3, <2>1, <2>2, <2>3, <2>4
<1>4. CASE i # 0
  <2> DEFINE row == [all_pipe_objects[i] EXCEPT !.ref_count = @ + 1]
  <2>1. /\ all_pipe_objects' = Replaced(all_pipe_objects, i, row)
        /\ pipe_ref_map' = Incremented(s, i)
    BY <1>4 DEF open_fifo_check, Replaced
  <2>2. i \in 1..Len(all_pipe_objects)
    BY <1>2, <1>4
  <2>3. all_pipe_objects[i] \in ChannelRow
    BY <1>2, <2>2, ElementOfSeq
  <2>4. /\ row \in ChannelRow
        /\ row.channel = all_pipe_objects[i].channel
        /\ row.ref_count = all_pipe_objects[i].ref_count + 1
        /\ row.readers = all_pipe_objects[i].readers
        /\ FlowsTo(all_pipe_objects[i], row)
    BY <2>3 DEF ChannelRow, FlowsTo
  <2> HIDE DEF row
  <2>5. QED
    BY <1>1, <1>4, <2>1, <2>2, <2>4
<1>5. QED
  BY <1>3, <1>4

LEMMA PipeReadFacts ==
  ASSUME TablesTyped, NEW s \in SubjectIds, NEW x, NEW ret, pipe_read_check(s, x, ret)
  PROVE  REStep /\ UNCHANGED ctvars
<1>1. CASE UNCHANGED revars
  BY <1>1, ReIdle DEF TablesTyped, pipe_read_check
<1>2. CASE StopServer
  BY <1>2, StopStep DEF TablesTyped, pipe_read_check
<1>3. ASSUME NEW row \in Fetched(all_pipe_objects, IndexOf(all_pipe_objects, x)),
             s \in DOMAIN subjects, subjects[s].owner \in row.readers,
             subjects' = [subjects EXCEPT ![s] = Raise(@, row)],
             UNCHANGED <<objects, server>>
      PROVE  REStep
  <2>1. row.readers \subseteq Users /\ row.writers \subseteq Users
    <3>1. CASE IndexOf(all_pipe_objects, x) \in DOMAIN all_pipe_objects
      <4>1. row = all_pipe_objects[IndexOf(all_pipe_objects, x)]
        BY <1>3, <3>1 DEF Fetched
      <4>2. row \in ChannelRow
        BY <3>1, <4>1, LenProperties, ElementOfSeq DEF TablesTyped, CTTypeOK
      <4>3. QED
        BY <4>2 DEF ChannelRow, UserSet
    <3>2. CASE IndexOf(all_pipe_objects, x) \notin DOMAIN all_pipe_objects
      BY <1>3, <3>2 DEF Fetched, Label, UserSet
    <3>3. QED
      BY <3>1, <3>2
  <2>2. s[1] \in row.readers
    BY <1>3, SubjectLabel DEF TablesTyped
  <2>3. QED
    BY <1>3, <2>1, <2>2, RaiseStep DEF TablesTyped
<1>4. QED
  BY <1>1, <1>2, <1>3 DEF pipe_read_check

LEMMA PipeWriteFacts ==
  ASSUME TablesTyped, NEW s, NEW x, NEW ret, pipe_write_check(s, x, ret)
  PROVE  /\ REStep /\ UNCHANGED <<pipe_ref_map, all_socket_connections, subjects>>
         /\ \/ UNCHANGED all_pipe_objects
            \/ \E i \in 1..Len(all_pipe_objects) :
                 /\ i = IndexOf(all_pipe_objects, x) /\ s \in DOMAIN subjects
                 /\ IsLabel(subjects[s])
                 /\ all_pipe_objects' =
                      Replaced(all_pipe_objects, i, Raise(all_pipe_objects[i], subjects[s]))
<1> DEFINE i == IndexOf(all_pipe_objects, x)
<1>1. CASE StopServer /\ UNCHANGED all_pipe_objects
  BY <1>1, StopStep DEF TablesTyped, pipe_write_check, StopServer
<1>2. CASE /\ s \in DOMAIN subjects /\ UNCHANGED revars
           /\ all_pipe_objects' = IF i = 0 THEN all_pipe_objects
                                  ELSE RaisedRow(all_pipe_objects, i, subjects[s])
  <2>1. REStep /\ IsLabel(subjects[s]) /\ UNCHANGED subjects
    BY <1>2, ReIdle, SubjectLabel DEF TablesTyped, revars
  <2>2. i \in 0..Len(all_pipe_objects) /\ Len(all_pipe_objects) \in Nat
    BY IndexOfFacts DEF TablesTyped, CTTypeOK
  <2>3. CASE i = 0
    BY <1>2, <2>1, <2>3 DEF pipe_write_check
  <2>4. CASE i # 0
    <3>1. i \in 1..Len(all_pipe_objects)
      BY <2>2, <2>4
    <3>2. all_pipe_objects'
            = Replaced(all_pipe_objects, i, Raise(all_pipe_objects[i], subjects[s]))
      BY <1>2, <2>4 DEF RaisedRow, Replaced
    <3> HIDE DEF i
    <3>3. i = IndexOf(all_pipe_objects, x)
      BY DEF i
    <3>4. QED
      BY <1>2, <2>1, <3>1, <3>2, <3>3 DEF pipe_write_check
  <2>5. QED
    BY <2>3, <2>4
<1>3. QED
  BY <1>1, <1>2 DEF pipe_write_check

LEMMA PipeCloseFacts ==
  ASSUME TablesTyped, NEW s, NEW x, pipe_close_check(s, x),
         NEW i, i = IndexOf(all_pipe_objects, x)
  PROVE  /\ UNCHANGED <<revars, all_socket_connections>> /\ server = "up"
         /\ pipe_ref_map' = Decremented(s, i)
         /\ i = 0 => UNCHANGED all_pipe_objects
         /\ i # 0 => i \in 1..Len(all_pipe_objects)
         /\ i # 0 /\ all_pipe_objects[i].ref_count > 1 =>
              \E row \in ChannelRow :
                /\ all_pipe_objects' = Replaced(all_pipe_objects, i, row)
                /\ row.channel = all_pipe_objects[i].channel
                /\ row.ref_count = all_pipe_objects[i].ref_count - 1
                /\ row.readers = all_pipe_objects[i].readers
                /\ FlowsTo(all_pipe_objects[i], row)
         /\ i # 0 /\ ~(all_pipe_objects[i].ref_count > 1) =>
              /\ all_pipe_objects' = RemoveAt(all_pipe_objects, i)
              /\ all_pipe_objects[i].ref_count = 1
<1>1. /\ server = "up" /\ UNCHANGED <<revars, all_socket_connections>>
      /\ pipe_ref_map' = Decremented(s, i)
      /\ all_pipe_objects' = IF i = 0 THEN all_pipe_objects ELSE WithoutOne(i)
  BY DEF pipe_close_check
<1>2. /\ all_pipe_objects \in Seq(ChannelRow) /\ Len(all_pipe_objects) \in Nat
      /\ i \in 0..Len(all_pipe_objects)
  BY IndexOfFacts DEF TablesTyped, CTTypeOK
<1>3. ASSUME i # 0
      PROVE  i \in 1..Len(all_pipe_objects) /\ all_pipe_objects[i] \in ChannelRow
  <2>1. i \in 1..Len(all_pipe_objects)
    BY <1>2, <1>3
  <2>2. QED
    BY <1>2, <2>1, ElementOfSeq
<1>4. ASSUME i # 0, all_pipe_objects[i].ref_count > 1
      PROVE  \E row \in ChannelRow :
                /\ all_pipe_objects' = Replaced(all_pipe_objects, i, row)
                /\ row.channel = all_pipe_objects[i].channel
                /\ row.ref_count = all_pipe_objects[i].ref_count - 1
                /\ row.readers = all_pipe_objects[i].readers
                /\ FlowsTo(all_pipe_objects[i], row)
  <2> DEFINE row == [all_pipe_objects[i] EXCEPT !.ref_count = @ - 1]
  <2>1. all_pipe_objects' = Replaced(all_pipe_objects, i, row)
    BY <1>1, <1>4 DEF WithoutOne, Replaced
  <2>2. /\ row \in ChannelRow
        /\ row.channel = all_pipe_objects[i].channel
        /\ row.ref_count = all_pipe_objects[i].ref_count - 1
        /\ row.readers = all_pipe_objects[i].readers
        /\ FlowsTo(all_pipe_objects[i], row)
    BY <1>3, <1>4 DEF ChannelRow, FlowsTo
  <2> HIDE DEF row
  <2>3. QED
    BY <2>1, <2>2
<1>5. ASSUME i # 0, ~(all_pipe_objects[i].ref_count > 1)
      PROVE  /\ all_pipe_objects' = RemoveAt(all_pipe_objects, i)
             /\ all_pipe_objects[i].ref_count = 1
  <2>1. all_pipe_objects' = RemoveAt(all_pipe_objects, i)
    BY <1>1, <1>5 DEF WithoutOne
  <2>2. all_pipe_objects[i].ref_count \in Nat \ {0}
    BY <1>3, <1>5 DEF ChannelRow
  <2>3. QED
    BY <1>5, <2>1, <2>2
<1>6. QED
  BY <1>1, <1>3, <1>4, <1>5

-----------------------------------------------------------------------------
(* Sockets and forks *)

LEMMA ConnectionFacts ==
  ASSUME TablesTyped, NEW s, NEW x \in Channels, connection_check(s, x, "allowed"),
         NEW i, i = IndexOf(all_socket_connections, x)
  PROVE  /\ UNCHANGED <<revars, all_pipe_objects, pipe_ref_map>> /\ server = "up"
         /\ s \in DOMAIN subjects
         /\ \E row \in ConnectionRow :
              /\ row.channel = x /\ row.peer_ids # <<>>
              /\ row.readers \subseteq subjects[s].readers
              /\ i = 0 => all_socket_connections' = Append(all_socket_connections, row)
              /\ i # 0 => /\ i \in 1..Len(all_socket_connections)
                          /\ FlowsTo(all_socket_connections[i], row)
                          /\ all_socket_connections'
                               = Replaced(all_socket_connections, i, row)
<1>1. /\ server = "up" /\ UNCHANGED <<revars, all_pipe_objects, pipe_ref_map>>
      /\ s \in DOMAIN subjects
      /\ all_socket_connections' = WithConnection(s, x)
  BY DEF connection_check
<1>2. IsLabel(subjects[s]) /\ s \in SubjectIds
  BY <1>1, SubjectLabel DEF TablesTyped
<1>3. /\ all_socket_connections \in Seq(ConnectionRow) /\ Len(all_socket_connections) \in Nat
      /\ i \in 0..Len(all_socket_connections)
      /\ i # 0 => all_socket_connections[i].channel = x
  BY IndexOfFacts DEF TablesTyped, CTTypeOK
<1>4. CASE i = 0
  <2> DEFINE row == [channel |-> x, num_peers |-> 1, peer_ids |-> <<s>>,
                     readers |-> subjects[s].readers, writers |-> subjects[s].writers]
  <2>1. all_socket_connections' = Append(all_socket_connections, row)
    BY <1>1, <1>4 DEF WithConnection
  <2>2. <<s>> \in Seq(SubjectIds) /\ <<s>> # <<>>
    BY <1>2
  <2>3. row \in ConnectionRow
    BY <1>2, <2>2 DEF ConnectionRow, IsLabel, UserSet
  <2>4. row.channel = x /\ row.peer_ids # <<>> /\ row.readers = subjects[s].readers
    BY <2>2
  <2> HIDE DEF row
  <2>5. QED
    BY <1>1, <1>4, <2>1, <2>3, <2>4
<1>5. CASE i # 0
  <2>1. i \in 1..Len(all_socket_connections)
    BY <1>3, <1>5
  <2>2. all_socket_connections[i] \in ConnectionRow
    BY <1>3, <2>1, ElementOfSeq
  <2>3. all_socket_connections[i].peer_ids # <<>>
    <3>1. i \in DOMAIN all_socket_connections
      BY <1>3, <2>1, LenProperties
    <3>2. QED
      BY <3>1 DEF TablesTyped, PeersKnown
  <2> DEFINE raised == Raise(all_socket_connections[i], subjects[s])
             row == [raised EXCEPT !.num_peers = @ + 1, !.peer_ids = <<@[1], @[1]>>]
  <2>4. /\ raised \in ConnectionRow /\ raised.channel = x
        /\ raised.peer_ids = all_socket_connections[i].peer_ids
        /\ raised.readers \subseteq subjects[s].readers
        /\ FlowsTo(all_socket_connections[i], raised)
    BY <1>2, <1>3, <1>5, <2>2, RaiseConnectionRow, ZenonT(40)
  <2>5. all_socket_connections' = Replaced(all_socket_connections, i, row)
    BY <1>1, <1>5 DEF WithConnection, Replaced
  <2> HIDE DEF raised
  <2>6. raised.peer_ids[1] \in SubjectIds
    <3>1. raised.peer_ids \in Seq(SubjectIds)
      BY <2>4 DEF ConnectionRow
    <3>2. Len(raised.peer_ids) \in Nat \ {0}
      BY <2>3, <2>4, <3>1, EmptySeq
    <3>3. 1 \in 1..Len(raised.peer_ids)
      BY <3>2
    <3>4. QED
      BY <3>1, <3>3, ElementOfSeq
  <2> DEFINE peers == <<raised.peer_ids[1], raised.peer_ids[1]>>
  <2>7. peers \in Seq(SubjectIds) /\ peers # <<>>
    BY <2>6
  <2> DEFINE n == raised.num_peers + 1
  <2>8. row = [raised EXCEPT !.num_peers = n, !.peer_ids = peers] /\ n \in Nat \ {0}
    BY <2>4 DEF row, ConnectionRow
  <2> HIDE DEF row, peers, n
  <2>9. /\ row \in ConnectionRow /\ row.channel = x /\ row.peer_ids = peers
        /\ row.readers = raised.readers /\ row.writers = raised.writers
    BY <2>4, <2>7, <2>8 DEF ConnectionRow
  <2>10. FlowsTo(all_socket_connections[i], row)
    BY <2>4, <2>9 DEF FlowsTo
  <2>11. QED
    BY <1>1, <1>5, <2>1, <2>4, <2>5, <2>7, <2>9, <2>10
<1>6. QED
  BY <1>4, <1>5

LEMMA SendFacts ==
  ASSUME TablesTyped, NEW s, NEW x, NEW ret, send_check(s, x, ret)
  PROVE  /\ UNCHANGED <<revars, all_pipe_objects, pipe_ref_map>> /\ server = "up"
         /\ \/ UNCHANGED all_socket_connections
            \/ \E i \in 1..Len(all_socket_connections) :
                 /\ i = IndexOf(all_socket_connections, x) /\ s \in DOMAIN subjects
                 /\ IsLabel(subjects[s])
                 /\ all_socket_connections' =
                      Replaced(all_socket_connections, i,
                               Raise(all_socket_connections[i], subjects[s]))
         /\ ret = "allowed" /\ s \in DOMAIN subjects /\ ~UNCHANGED all_socket_connections =>
              IndexOf(all_socket_connections, x) # 0
<1> DEFINE i == IndexOf(all_socket_connections, x)
<1>1. UNCHANGED <<revars, all_pipe_objects, pipe_ref_map>> /\ server = "up"
  BY DEF send_check
<1>2. CASE UNCHANGED all_socket_connections
  BY <1>1, <1>2
<1>3. CASE /\ s \in DOMAIN subjects /\ i # 0
           /\ all_socket_connections' = RaisedRow(all_socket_connections, i, subjects[s])
  <2>1. i \in 0..Len(all_socket_connections) /\ Len(all_socket_connections) \in Nat
    BY IndexOfFacts DEF TablesTyped, CTTypeOK
  <2>2. i \in 1..Len(all_socket_connections)
    BY <1>3, <2>1
  <2>3. IsLabel(subjects[s])
    BY <1>3, SubjectLabel DEF TablesTyped
  <2>4. all_socket_connections'
          = Replaced(all_socket_connections, i, Raise(all_socket_connections[i], subjects[s]))
    BY <1>3 DEF RaisedRow, Replaced
  <2>5. i = IndexOf(all_socket_connections, x)
    OBVIOUS
  <2> HIDE DEF i
  <2>6. QED
    BY <1>1, <1>3, <2>2, <2>3, <2>4, <2>5
<1>4. QED
  BY <1>2, <1>3 DEF send_check

LEMMA RecvFacts ==
  ASSUME TablesTyped, NEW s \in SubjectIds, NEW x, NEW ret, recv_check(s, x, ret)
  PROVE  REStep /\ UNCHANGED ctvars /\ server = "up"
<1> DEFINE i == IndexOf(all_socket_connections, x)
           row == all_socket_connections[i]
<1>1. UNCHANGED ctvars /\ server = "up"
  BY DEF recv_check
<1>2. CASE UNCHANGED revars
  BY <1>1, <1>2, ReIdle DEF TablesTyped
<1>3. CASE /\ s \in DOMAIN subjects /\ i # 0 /\ subjects[s].owner \in row.readers
           /\ subjects' = [subjects EXCEPT ![s] = Raise(@, row)]
           /\ UNCHANGED <<objects, server>>
  <2>1. i \in 0..Len(all_socket_connections) /\ Len(all_socket_connections) \in Nat
    BY IndexOfFacts DEF TablesTyped, CTTypeOK
  <2>2. i \in 1..Len(all_socket_connections)
    BY <1>3, <2>1
  <2>3. row \in ConnectionRow
    BY <2>2, ElementOfSeq DEF TablesTyped, CTTypeOK
  <2>4. row.readers \subseteq Users /\ row.writers \subseteq Users
    BY <2>3 DEF ConnectionRow, UserSet
  <2>5. s[1] \in row.readers
    BY <1>3, SubjectLabel DEF TablesTyped
  <2> HIDE DEF row, i
  <2>6. REStep
    BY <1>3, <2>4, <2>5, RaiseStep DEF TablesTyped
  <2>7. QED
    BY <1>1, <2>6
<1>4. QED
  BY <1>2, <1>3 DEF recv_check

LEMMA SocketCloseFacts ==
  ASSUME TablesTyped, NEW s, NEW x, socket_close_check(s, x)
  PROVE  /\ UNCHANGED <<revars, all_pipe_objects, pipe_ref_map>> /\ server = "up"
         /\ \/ UNCHANGED all_socket_connections
            \/ \E i \in 1..Len(all_socket_connections) :
                 /\ i = IndexOf(all_socket_connections, x)
                 /\ \/ all_socket_connections' = RemoveAt(all_socket_connections, i)
                    \/ \E row \in ConnectionRow :
                         /\ all_socket_connections' = Replaced(all_socket_connections, i, row)
                         /\ row.channel = all_socket_connections[i].channel
                         /\ row.peer_ids = all_socket_connections[i].peer_ids
                         /\ row.readers = all_socket_connections[i].readers
                         /\ FlowsTo(all_socket_connections[i], row)
<1> DEFINE i == IndexOf(all_socket_connections, x)
<1>1. UNCHANGED <<revars, all_pipe_objects, pipe_ref_map>> /\ server = "up"
  BY DEF socket_close_check
<1>2. i \in 0..Len(all_socket_connections) /\ Len(all_socket_connections) \in Nat
  BY IndexOfFacts DEF TablesTyped, CTTypeOK
<1>3. CASE UNCHANGED all_socket_connections
  BY <1>1, <1>3
<1>4. CASE i # 0 /\ all_socket_connections' = RemoveAt(all_socket_connections, i)
  <2>1. i \in 1..Len(all_socket_connections)
    BY <1>2, <1>4
  <2>2. i = IndexOf(all_socket_connections, x)
    OBVIOUS
  <2> HIDE DEF i
  <2>3. QED
    BY <1>1, <1>4, <2>1, <2>2
<1>5. CASE /\ i # 0 /\ all_socket_connections[i].num_peers > 1
           /\ all_socket_connections' = [all_socket_connections EXCEPT ![i].num_peers = @ - 1]
  <2> DEFINE row == [all_socket_connections[i] EXCEPT !.num_peers = @ - 1]
  <2>1. i \in 1..Len(all_socket_connections) /\ i = IndexOf(all_socket_connections, x)
    BY <1>2, <1>5
  <2>2. all_socket_connections' = Replaced(all_socket_connections, i, row)
    BY <1>5 DEF Replaced
  <2>3. all_socket_connections[i] \in ConnectionRow
    BY <2>1, ElementOfSeq DEF TablesTyped, CTTypeOK
  <2> HIDE DEF i
  <2>4. /\ row \in ConnectionRow
        /\ row.channel = all_socket_connections[i].channel
        /\ row.peer_ids = all_socket_connections[i].peer_ids
        /\ row.readers = all_socket_connections[i].readers
        /\ FlowsTo(all_socket_connections[i], row)
    BY <1>5, <2>3 DEF ConnectionRow, FlowsTo
  <2> HIDE DEF row
  <2>5. QED
    BY <1>1, <2>1, <2>2, <2>4
<1>6. QED
  BY <1>3, <1>4, <1>5 DEF socket_close_check

LEMMA ForkFacts ==
  ASSUME TablesTyped, NEW u \in Users, NEW child \in Pids, NEW parent,
         fork_check_and_copy(u, child, parent)
  PROVE  /\ REStep /\ UNCHANGED all_socket_connections
         /\ \/ StopServer /\ UNCHANGED ctvars
            \/ /\ fork_check(u, child, parent)
               /\ IF <<u, parent>> \in DOMAIN subjects
                    THEN /\ all_pipe_objects' = CountedCopies(<<u, parent>>)
                         /\ pipe_ref_map' = CopiedMaps(<<u, parent>>, <<u, child>>)
                    ELSE UNCHANGED <<all_pipe_objects, pipe_ref_map>>
<1>1. CASE StopServer /\ UNCHANGED ctvars
  BY <1>1, StopStep DEF TablesTyped, ctvars
<1>2. CASE /\ fork_check(u, child, parent) /\ UNCHANGED all_socket_connections
           /\ IF <<u, parent>> \in DOMAIN subjects
                THEN /\ all_pipe_objects' = CountedCopies(<<u, parent>>)
                     /\ pipe_ref_map' = CopiedMaps(<<u, parent>>, <<u, child>>)
                ELSE UNCHANGED <<all_pipe_objects, pipe_ref_map>>
  BY <1>2, ForkStep DEF TablesTyped
<1>3. QED
  BY <1>1, <1>2 DEF fork_check_and_copy

\* The rows of the pipes, each counted as often again as the parent has it open.
LEMMA CopiesFacts ==
  ASSUME CTTypeOK, NEW s
  PROVE  /\ CountedCopies(s) \in Seq(ChannelRow)
         /\ Len(CountedCopies(s)) = Len(all_pipe_objects)
         /\ \A i \in 1..Len(all_pipe_objects) :
              /\ CountedCopies(s)[i].channel = all_pipe_objects[i].channel
              /\ CountedCopies(s)[i].readers = all_pipe_objects[i].readers
              /\ CountedCopies(s)[i].ref_count
                   = all_pipe_objects[i].ref_count + RefCount(pipe_ref_map, {s}, i)
              /\ FlowsTo(all_pipe_objects[i], CountedCopies(s)[i])
<1> DEFINE N == Len(all_pipe_objects)
           row(i) == [all_pipe_objects[i] EXCEPT !.ref_count = @ + RefCount(pipe_ref_map, {s}, i)]
<1>1. N \in Nat /\ DOMAIN all_pipe_objects = 1..N
  BY LenProperties DEF CTTypeOK
<1>2. \A i \in 1..N : all_pipe_objects[i] \in ChannelRow
  BY ElementOfSeq DEF CTTypeOK
<1>3. \A i \in 1..N : RefCount(pipe_ref_map, {s}, i) \in Nat
  BY RefCountType DEF CTTypeOK
<1>4. \A i \in 1..N : /\ row(i) \in ChannelRow
                      /\ row(i).channel = all_pipe_objects[i].channel
                      /\ row(i).readers = all_pipe_objects[i].readers
                      /\ row(i).ref_count
                           = all_pipe_objects[i].ref_count + RefCount(pipe_ref_map, {s}, i)
                      /\ FlowsTo(all_pipe_objects[i], row(i))
  BY <1>2, <1>3 DEF ChannelRow, FlowsTo
<1>5. CountedCopies(s) = [i \in 1..N |-> row(i)]
  BY <1>1 DEF CountedCopies
<1> HIDE DEF row, N
<1>6. CountedCopies(s) \in [1..N -> ChannelRow]
  BY <1>4, <1>5
<1>7. CountedCopies(s) \in Seq(ChannelRow)
  BY <1>1, <1>6, SeqDef
<1>8. Len(CountedCopies(s)) = N
  <2>1. Len(CountedCopies(s)) \in Nat /\ 1..Len(CountedCopies(s)) = 1..N
    BY <1>6, <1>7, LenProperties
  <2>2. QED
    BY <1>1, <2>1
<1>9. \A i \in 1..N : CountedCopies(s)[i] = row(i)
  BY <1>5
<1>10. QED
  BY <1>4, <1>7, <1>8, <1>9 DEF N

-----------------------------------------------------------------------------
(* What the checks do to the tables *)

\* One row of each channel, in each of the tables.
OneRows == OneRowEach(all_pipe_objects) /\ OneRowEach(all_socket_connections)

\* X has the channels that may be new in the table of pipes.
TablesStep(X) ==
  /\ TableStep(all_pipe_objects, all_pipe_objects')
  /\ TableStep(all_socket_connections, all_socket_connections')
  /\ \A y : InTable(all_pipe_objects', y) => InTable(all_pipe_objects, y) \/ y \in X

LEMMA SameTables ==
  ASSUME UNCHANGED <<all_pipe_objects, all_socket_connections>>, OneRows
  PROVE  TablesStep({})
<1>1. /\ TableStep(all_pipe_objects, all_pipe_objects)
      /\ TableStep(all_socket_connections, all_socket_connections)
  BY SameTable DEF OneRows
<1>2. QED
  BY <1>1 DEF TablesStep

\* A table whose rows stay has the channels that it had.
LEMMA ChannelsStay ==
  ASSUME NEW R, NEW table \in Seq(R), NEW newer \in Seq(R), Len(newer) = Len(table),
         \A i \in 1..Len(table) : newer[i].channel = table[i].channel
  PROVE  \A y : InTable(newer, y) <=> InTable(table, y)
<1>1. DOMAIN table = 1..Len(table) /\ DOMAIN newer = 1..Len(table)
  BY LenProperties
<1>2. QED
  BY <1>1 DEF InTable

LEMMA CreateStep ==
  ASSUME TablesTyped, NEW s, NEW x \in Channels, create_pipe_check(s, x, "allowed")
  PROVE  /\ DbTypes
         /\ OneRows /\ ~InTable(all_pipe_objects, x) => TablesStep({x})
<1>1. /\ UNCHANGED <<revars, all_socket_connections>>
      /\ \E row \in ChannelRow : /\ all_pipe_objects' = Append(all_pipe_objects, row)
                                 /\ row.channel = x
      /\ \E m \in RefMapRow : pipe_ref_map' = Append(pipe_ref_map, m)
  BY CreateFacts
<1>2. PICK row \in ChannelRow : /\ all_pipe_objects' = Append(all_pipe_objects, row)
                                /\ row.channel = x
  BY <1>1
<1>3. PICK m \in RefMapRow : pipe_ref_map' = Append(pipe_ref_map, m)
  BY <1>1
<1>4. REStep
  BY <1>1, ReIdle DEF TablesTyped
<1>5. /\ all_pipe_objects \in Seq(ChannelRow) /\ pipe_ref_map \in Seq(RefMapRow)
      /\ all_socket_connections \in Seq(ConnectionRow)
  BY DEF TablesTyped, CTTypeOK
<1>6. all_pipe_objects' \in Seq(ChannelRow) /\ pipe_ref_map' \in Seq(RefMapRow)
  BY <1>2, <1>3, <1>5, AppendFacts
<1>7. CTTypeOK' /\ PeersKnown'
  BY <1>1, <1>5, <1>6 DEF CTTypeOK, PeersKnown, TablesTyped
<1>8. ASSUME OneRows, ~InTable(all_pipe_objects, x)
      PROVE  TablesStep({x})
  <2>1. /\ TableStep(all_pipe_objects, all_pipe_objects')
        /\ DOMAIN all_pipe_objects' = DOMAIN all_pipe_objects \cup {Len(all_pipe_objects) + 1}
        /\ \A i \in DOMAIN all_pipe_objects : all_pipe_objects'[i] = all_pipe_objects[i]
        /\ all_pipe_objects'[Len(all_pipe_objects) + 1] = row
    BY <1>2, <1>5, <1>8, AddedRow DEF OneRows
  <2>2. TableStep(all_socket_connections, all_socket_connections')
    BY <1>1, <1>8, SameTable DEF OneRows
  <2>3. \A y : InTable(all_pipe_objects', y) => InTable(all_pipe_objects, y) \/ y \in {x}
    BY <1>2, <2>1 DEF InTable
  <2>4. QED
    BY <2>1, <2>2, <2>3 DEF TablesStep
<1>9. QED
  BY <1>4, <1>7, <1>8 DEF DbTypes

LEMMA OpenFifoStep ==
  ASSUME TablesTyped, NEW s \in SubjectIds, NEW x \in Channels, open_fifo_check(s, x)
  PROVE  DbTypes /\ (OneRows => TablesStep({x}))
<1> DEFINE i == IndexOf(all_pipe_objects, x)
<1>1. UNCHANGED <<revars, all_socket_connections>>
  BY OpenFifoFacts
<1>2. REStep
  BY <1>1, ReIdle DEF TablesTyped
<1>3. /\ all_pipe_objects \in Seq(ChannelRow) /\ pipe_ref_map \in Seq(RefMapRow)
      /\ all_socket_connections \in Seq(ConnectionRow)
  BY DEF TablesTyped, CTTypeOK
<1>4. OneRows => TableStep(all_socket_connections, all_socket_connections')
  BY <1>1, SameTable DEF OneRows
<1>5. /\ all_pipe_objects' \in Seq(ChannelRow) /\ pipe_ref_map' \in Seq(RefMapRow)
      /\ OneRows => TableStep(all_pipe_objects, all_pipe_objects')
      /\ \A y : InTable(all_pipe_objects', y) => InTable(all_pipe_objects, y) \/ y \in {x}
  <2>1. CASE i = 0
    <3>1. PICK row \in ChannelRow : /\ all_pipe_objects' = Append(all_pipe_objects, row)
                                    /\ row.channel = x
      BY <2>1, OpenFifoFacts
    <3>2. PICK m \in RefMapRow : pipe_ref_map' = Append(pipe_ref_map, m)
      BY <2>1, OpenFifoFacts
    <3>3. all_pipe_objects' \in Seq(ChannelRow) /\ pipe_ref_map' \in Seq(RefMapRow)
      BY <1>3, <3>1, <3>2, AppendFacts
    <3>4. ~InTable(all_pipe_objects, x)
      BY <1>3, <2>1, IndexOfRow
    <3>5. OneRows => TableStep(all_pipe_objects, all_pipe_objects')
      BY <1>3, <3>1, <3>4, AddedRow DEF OneRows
    <3>6. \A y : InTable(all_pipe_objects', y) => InTable(all_pipe_objects, y) \/ y \in {x}
      <4>1. /\ Len(all_pipe_objects) \in Nat
            /\ Len(all_pipe_objects') = Len(all_pipe_objects) + 1
            /\ \A j \in 1..Len(all_pipe_objects) : all_pipe_objects'[j] = all_pipe_objects[j]
            /\ all_pipe_objects'[Len(all_pipe_objects) + 1] = row
        BY <1>3, <3>1, AppendFacts
      <4>2. \A j \in 1..(Len(all_pipe_objects) + 1) :
              j \in 1..Len(all_pipe_objects) \/ j = Len(all_pipe_objects) + 1
        BY <4>1
      <4>3. /\ DOMAIN all_pipe_objects = 1..Len(all_pipe_objects)
            /\ DOMAIN all_pipe_objects' = 1..(Len(all_pipe_objects) + 1)
        BY <1>3, <3>3, <4>1, LenProperties
      <4>4. QED
        BY <3>1, <4>1, <4>2, <4>3 DEF InTable
    <3>7. QED
      BY <3>3, <3>5, <3>6
  <2>2. CASE i # 0
    <3>1. i \in 1..Len(all_pipe_objects) /\ pipe_ref_map' = Incremented(s, i)
      BY <2>2, OpenFifoFacts
    <3>2. PICK row \in ChannelRow :
            /\ all_pipe_objects' = Replaced(all_pipe_objects, i, row)
            /\ row.channel = all_pipe_objects[i].channel
            /\ FlowsTo(all_pipe_objects[i], row)
      BY <2>2, OpenFifoFacts
    <3> HIDE DEF i
    <3>3. /\ all_pipe_objects' \in Seq(ChannelRow)
          /\ Len(all_pipe_objects') = Len(all_pipe_objects)
          /\ \A j \in 1..Len(all_pipe_objects) :
               all_pipe_objects'[j] = IF j = i THEN row ELSE all_pipe_objects[j]
          /\ OneRowEach(all_pipe_objects) => TableStep(all_pipe_objects, all_pipe_objects')
      BY <1>3, <3>1, <3>2, ReplacedRow
    <3>4. i \in Nat \ {0}
      BY <1>3, <3>1, LenProperties
    <3>5. pipe_ref_map' \in Seq(RefMapRow)
      BY <1>3, <3>1, <3>4, IncrementedFacts DEF MapsTypeOK
    <3>6. \A y : InTable(all_pipe_objects', y) <=> InTable(all_pipe_objects, y)
      <4>1. \A j \in 1..Len(all_pipe_objects) :
              all_pipe_objects'[j].channel = all_pipe_objects[j].channel
        BY <3>2, <3>3
      <4>2. QED
        BY <1>3, <3>3, <4>1, ChannelsStay
    <3>7. QED
      BY <3>3, <3>5, <3>6 DEF OneRows
  <2>3. QED
    BY <2>1, <2>2
<1>6. CTTypeOK' /\ PeersKnown'
  BY <1>1, <1>3, <1>5 DEF CTTypeOK, PeersKnown, TablesTyped
<1>7. QED
  BY <1>2, <1>4, <1>5, <1>6 DEF DbTypes, TablesStep

LEMMA PipeReadStep ==
  ASSUME TablesTyped, NEW s \in SubjectIds, NEW x, NEW ret, pipe_read_check(s, x, ret)
  PROVE  DbTypes /\ (OneRows => TablesStep({}))
<1>1. REStep /\ UNCHANGED ctvars
  BY PipeReadFacts
<1>2. QED
  BY <1>1, TablesIdle, SameTables DEF DbTypes, ctvars

LEMMA PipeWriteStep ==
  ASSUME TablesTyped, NEW s, NEW x, NEW ret, pipe_write_check(s, x, ret)
  PROVE  DbTypes /\ (OneRows => TablesStep({}))
<1>1. REStep /\ UNCHANGED <<pipe_ref_map, all_socket_connections>>
  BY PipeWriteFacts
<1>2. CASE UNCHANGED all_pipe_objects
  BY <1>1, <1>2, TablesIdle, SameTables DEF DbTypes, ctvars
<1>3. CASE \E i \in 1..Len(all_pipe_objects) :
             /\ IsLabel(subjects[s])
             /\ all_pipe_objects' =
                  Replaced(all_pipe_objects, i, Raise(all_pipe_objects[i], subjects[s]))
  <2>1. PICK i \in 1..Len(all_pipe_objects) :
             /\ IsLabel(subjects[s])
             /\ all_pipe_objects' =
                  Replaced(all_pipe_objects, i, Raise(all_pipe_objects[i], subjects[s]))
    BY <1>3
  <2>2. all_pipe_objects \in Seq(ChannelRow)
    BY DEF TablesTyped, CTTypeOK
  <2>3. all_pipe_objects[i] \in ChannelRow
    BY <2>2, ElementOfSeq
  <2> DEFINE row == Raise(all_pipe_objects[i], subjects[s])
  <2>4. /\ row \in ChannelRow /\ row.channel = all_pipe_objects[i].channel
        /\ FlowsTo(all_pipe_objects[i], row)
    BY <2>1, <2>3, RaiseChannelRow
  <2>5. all_pipe_objects' = Replaced(all_pipe_objects, i, row)
    BY <2>1
  <2> HIDE DEF row
  <2>6. /\ all_pipe_objects' \in Seq(ChannelRow)
        /\ Len(all_pipe_objects') = Len(all_pipe_objects)
        /\ \A j \in 1..Len(all_pipe_objects) :
             all_pipe_objects'[j] = IF j = i THEN row ELSE all_pipe_objects[j]
        /\ OneRowEach(all_pipe_objects) => TableStep(all_pipe_objects, all_pipe_objects')
    BY <2>2, <2>4, <2>5, ReplacedRow
  <2>7. \A j \in 1..Len(all_pipe_objects) :
          all_pipe_objects'[j].channel = all_pipe_objects[j].channel
    BY <2>4, <2>6
  <2>8. \A y : InTable(all_pipe_objects', y) <=> InTable(all_pipe_objects, y)
    BY <2>2, <2>6, <2>7, ChannelsStay
  <2>9. CTTypeOK' /\ PeersKnown'
    BY <1>1, <2>6 DEF CTTypeOK, PeersKnown, TablesTyped
  <2>10. OneRows => TableStep(all_socket_connections, all_socket_connections')
    BY <1>1, SameTable DEF OneRows
  <2>11. QED
    BY <1>1, <2>6, <2>8, <2>9, <2>10 DEF DbTypes, TablesStep, OneRows
<1>4. QED
  BY <1>2, <1>3, PipeWriteFacts

LEMMA PipeCloseStep ==
  ASSUME TablesTyped, NEW s, NEW x, pipe_close_check(s, x)
  PROVE  DbTypes /\ (OneRows => TablesStep({}))
<1> DEFINE i == IndexOf(all_pipe_objects, x)
<1>1. UNCHANGED <<revars, all_socket_connections>> /\ pipe_ref_map' = Decremented(s, i)
  BY PipeCloseFacts
<1>2. REStep
  BY <1>1, ReIdle DEF TablesTyped
<1>3. /\ all_pipe_objects \in Seq(ChannelRow) /\ pipe_ref_map \in Seq(RefMapRow)
      /\ all_socket_connections \in Seq(ConnectionRow)
  BY DEF TablesTyped, CTTypeOK
<1>4. pipe_ref_map' \in Seq(RefMapRow)
  BY <1>1, <1>3, DecrementedFacts DEF MapsTypeOK
<1>5. OneRows => TableStep(all_socket_connections, all_socket_connections')
  BY <1>1, SameTable DEF OneRows
<1>6. /\ all_pipe_objects' \in Seq(ChannelRow)
      /\ OneRows => /\ TableStep(all_pipe_objects, all_pipe_objects')
                    /\ \A y : InTable(all_pipe_objects', y) => InTable(all_pipe_objects, y)
  <2>1. CASE i = 0
    <3>1. UNCHANGED all_pipe_objects
      BY <2>1, PipeCloseFacts
    <3>2. QED
      BY <1>3, <3>1, SameTable DEF OneRows
  <2>2. CASE i # 0 /\ all_pipe_objects[i].ref_count > 1
    <3>1. i \in 1..Len(all_pipe_objects)
      BY <2>2, PipeCloseFacts
    <3>2. PICK row \in ChannelRow :
            /\ all_pipe_objects' = Replaced(all_pipe_objects, i, row)
            /\ row.channel = all_pipe_objects[i].channel
            /\ FlowsTo(all_pipe_objects[i], row)
      BY <2>2, PipeCloseFacts
    <3> HIDE DEF i
    <3>3. /\ all_pipe_objects' \in Seq(ChannelRow)
          /\ Len(all_pipe_objects') = Len(all_pipe_objects)
          /\ \A j \in 1..Len(all_pipe_objects) :
               all_pipe_objects'[j] = IF j = i THEN row ELSE all_pipe_objects[j]
          /\ OneRowEach(all_pipe_objects) => TableStep(all_pipe_objects, all_pipe_objects')
      BY <1>3, <3>1, <3>2, ReplacedRow
    <3>4. \A j \in 1..Len(all_pipe_objects) :
            all_pipe_objects'[j].channel = all_pipe_objects[j].channel
      BY <3>2, <3>3
    <3>5. \A y : InTable(all_pipe_objects', y) <=> InTable(all_pipe_objects, y)
      BY <1>3, <3>3, <3>4, ChannelsStay
    <3>6. QED
      BY <3>3, <3>5 DEF OneRows
  <2>3. CASE i # 0 /\ ~(all_pipe_objects[i].ref_count > 1)
    <3>1. i \in 1..Len(all_pipe_objects) /\ all_pipe_objects' = RemoveAt(all_pipe_objects, i)
      BY <2>3, PipeCloseFacts
    <3> HIDE DEF i
    <3>2. all_pipe_objects' \in Seq(ChannelRow)
      BY <1>3, <3>1, RemoveAtFacts
    <3>3. ASSUME OneRows
          PROVE  /\ TableStep(all_pipe_objects, all_pipe_objects')
                 /\ \A j \in DOMAIN all_pipe_objects' :
                      \E k \in DOMAIN all_pipe_objects : all_pipe_objects'[j] = all_pipe_objects[k]
      BY <1>3, <3>1, <3>3, RemovedRow DEF OneRows
    <3>4. QED
      BY <3>2, <3>3 DEF InTable
  <2>4. QED
    BY <2>1, <2>2, <2>3
<1>7. CTTypeOK' /\ PeersKnown'
  BY <1>1, <1>3, <1>4, <1>6 DEF CTTypeOK, PeersKnown, TablesTyped
<1>8. QED
  BY <1>2, <1>5, <1>6, <1>7 DEF DbTypes, TablesStep

LEMMA ConnectionStep ==
  ASSUME TablesTyped, NEW s, NEW x \in Channels, connection_check(s, x, "allowed")
  PROVE  DbTypes /\ (OneRows => TablesStep({}))
<1> DEFINE i == IndexOf(all_socket_connections, x)
<1>1. /\ UNCHANGED <<revars, all_pipe_objects, pipe_ref_map>>
      /\ \E row \in ConnectionRow :
           /\ row.channel = x /\ row.peer_ids # <<>>
           /\ i = 0 => all_socket_connections' = Append(all_socket_connections, row)
           /\ i # 0 => /\ i \in 1..Len(all_socket_connections)
                       /\ FlowsTo(all_socket_connections[i], row)
                       /\ all_socket_connections' = Replaced(all_socket_connections, i, row)
  BY ConnectionFacts
<1>2. PICK row \in ConnectionRow :
           /\ row.channel = x /\ row.peer_ids # <<>>
           /\ i = 0 => all_socket_connections' = Append(all_socket_connections, row)
           /\ i # 0 => /\ i \in 1..Len(all_socket_connections)
                       /\ FlowsTo(all_socket_connections[i], row)
                       /\ all_socket_connections' = Replaced(all_socket_connections, i, row)
  BY <1>1
<1>3. REStep
  BY <1>1, ReIdle DEF TablesTyped
<1>4. /\ all_pipe_objects \in Seq(ChannelRow) /\ pipe_ref_map \in Seq(RefMapRow)
      /\ all_socket_connections \in Seq(ConnectionRow)
      /\ DOMAIN all_socket_connections = 1..Len(all_socket_connections)
      /\ \A j \in 1..Len(all_socket_connections) : all_socket_connections[j].peer_ids # <<>>
  BY LenProperties DEF TablesTyped, CTTypeOK, PeersKnown
<1>5. /\ IndexOf(all_socket_connections, x) # 0 => all_socket_connections[i].channel = x
      /\ IndexOf(all_socket_connections, x) # 0 <=> InTable(all_socket_connections, x)
  BY <1>4, IndexOfRow
<1> HIDE DEF i
<1>6. /\ all_socket_connections' \in Seq(ConnectionRow)
      /\ PeersKnown'
      /\ OneRows => TableStep(all_socket_connections, all_socket_connections')
  <2>1. CASE i = 0
    <3>1. all_socket_connections' = Append(all_socket_connections, row)
      BY <1>2, <2>1
    <3>2. /\ all_socket_connections' \in Seq(ConnectionRow)
          /\ Len(all_socket_connections') = Len(all_socket_connections) + 1
          /\ Len(all_socket_connections) \in Nat
          /\ \A j \in 1..Len(all_socket_connections) :
               all_socket_connections'[j] = all_socket_connections[j]
          /\ all_socket_connections'[Len(all_socket_connections) + 1] = row
      BY <1>4, <3>1, AppendFacts
    <3>3. DOMAIN all_socket_connections' = 1..(Len(all_socket_connections) + 1)
      BY <3>2, LenProperties
    <3>4. \A j \in 1..(Len(all_socket_connections) + 1) :
            j \in 1..Len(all_socket_connections) \/ j = Len(all_socket_connections) + 1
      BY <3>2
    <3>5. PeersKnown'
      BY <1>2, <1>4, <3>2, <3>3, <3>4 DEF PeersKnown
    <3>6. OneRows => TableStep(all_socket_connections, all_socket_connections')
      BY <1>2, <1>4, <1>5, <2>1, <3>1, AddedRow DEF OneRows, i
    <3>7. QED
      BY <3>2, <3>5, <3>6
  <2>2. CASE i # 0
    <3>1. /\ i \in 1..Len(all_socket_connections)
          /\ FlowsTo(all_socket_connections[i], row)
          /\ all_socket_connections' = Replaced(all_socket_connections, i, row)
          /\ row.channel = all_socket_connections[i].channel
      BY <1>2, <1>5, <2>2 DEF i
    <3>2. /\ all_socket_connections' \in Seq(ConnectionRow)
          /\ Len(all_socket_connections') = Len(all_socket_connections)
          /\ \A j \in 1..Len(all_socket_connections) :
               all_socket_connections'[j] = IF j = i THEN row ELSE all_socket_connections[j]
          /\ OneRowEach(all_socket_connections)
               => TableStep(all_socket_connections, all_socket_connections')
      BY <1>4, <3>1, ReplacedRow
    <3>3. DOMAIN all_socket_connections' = 1..Len(all_socket_connections)
      BY <3>2, LenProperties
    <3>4. PeersKnown'
      BY <1>2, <1>4, <3>2, <3>3 DEF PeersKnown
    <3>5. QED
      BY <3>2, <3>4 DEF OneRows
  <2>3. QED
    BY <2>1, <2>2
<1>7. CTTypeOK'
  BY <1>1, <1>4, <1>6 DEF CTTypeOK
<1>8. OneRows => TableStep(all_pipe_objects, all_pipe_objects')
  BY <1>1, SameTable DEF OneRows
<1>9. QED
  BY <1>1, <1>3, <1>6, <1>7, <1>8 DEF DbTypes, TablesStep

LEMMA SendStep ==
  ASSUME TablesTyped, NEW s, NEW x, NEW ret, send_check(s, x, ret)
  PROVE  DbTypes /\ (OneRows => TablesStep({}))
<1>1. UNCHANGED <<revars, all_pipe_objects, pipe_ref_map>>
  BY SendFacts
<1>2. REStep
  BY <1>1, ReIdle DEF TablesTyped
<1>3. CASE UNCHANGED all_socket_connections
  BY <1>1, <1>2, <1>3, TablesIdle, SameTables DEF DbTypes, ctvars
<1>4. CASE \E i \in 1..Len(all_socket_connections) :
             /\ IsLabel(subjects[s])
             /\ all_socket_connections' =
                  Replaced(all_socket_connections, i, Raise(all_socket_connections[i], subjects[s]))
  <2>1. PICK i \in 1..Len(all_socket_connections) :
             /\ IsLabel(subjects[s])
             /\ all_socket_connections' =
                  Replaced(all_socket_connections, i, Raise(all_socket_connections[i], subjects[s]))
    BY <1>4
  <2>2. /\ all_socket_connections \in Seq(ConnectionRow)
        /\ DOMAIN all_socket_connections = 1..Len(all_socket_connections)
        /\ \A j \in 1..Len(all_socket_connections) : all_socket_connections[j].peer_ids # <<>>
    BY LenProperties DEF TablesTyped, CTTypeOK, PeersKnown
  <2>3. all_socket_connections[i] \in ConnectionRow
    BY <2>2, ElementOfSeq
  <2> DEFINE row == Raise(all_socket_connections[i], subjects[s])
  <2>4. /\ row \in ConnectionRow /\ row.channel = all_socket_connections[i].channel
        /\ row.peer_ids = all_socket_connections[i].peer_ids
        /\ FlowsTo(all_socket_connections[i], row)
    BY <2>1, <2>3, RaiseConnectionRow
  <2>5. all_socket_connections' = Replaced(all_socket_connections, i, row)
    BY <2>1
  <2> HIDE DEF row
  <2>6. /\ all_socket_connections' \in Seq(ConnectionRow)
        /\ Len(all_socket_connections') = Len(all_socket_connections)
        /\ \A j \in 1..Len(all_socket_connections) :
             all_socket_connections'[j] = IF j = i THEN row ELSE all_socket_connections[j]
        /\ OneRowEach(all_socket_connections)
             => TableStep(all_socket_connections, all_socket_connections')
    BY <2>2, <2>4, <2>5, ReplacedRow
  <2>7. DOMAIN all_socket_connections' = 1..Len(all_socket_connections)
    BY <2>6, LenProperties
  <2>8. CTTypeOK' /\ PeersKnown'
    <3>1. CTTypeOK'
      BY <1>1, <2>6 DEF CTTypeOK, TablesTyped
    <3>2. PeersKnown'
      BY <2>2, <2>4, <2>6, <2>7 DEF PeersKnown
    <3>3. QED
      BY <3>1, <3>2
  <2>9. OneRows => TableStep(all_pipe_objects, all_pipe_objects')
    BY <1>1, SameTable DEF OneRows
  <2>10. QED
    BY <1>1, <1>2, <2>6, <2>8, <2>9 DEF DbTypes, TablesStep, OneRows
<1>5. QED
  BY <1>3, <1>4, SendFacts

LEMMA RecvStep ==
  ASSUME TablesTyped, NEW s \in SubjectIds, NEW x, NEW ret, recv_check(s, x, ret)
  PROVE  DbTypes /\ (OneRows => TablesStep({}))
<1>1. REStep /\ UNCHANGED ctvars
  BY RecvFacts
<1>2. QED
  BY <1>1, TablesIdle, SameTables DEF DbTypes, ctvars

LEMMA SocketCloseStep ==
  ASSUME TablesTyped, NEW s, NEW x, socket_close_check(s, x)
  PROVE  DbTypes /\ (OneRows => TablesStep({}))
<1>1. UNCHANGED <<revars, all_pipe_objects, pipe_ref_map>>
  BY SocketCloseFacts
<1>2. REStep
  BY <1>1, ReIdle DEF TablesTyped
<1>3. /\ all_socket_connections \in Seq(ConnectionRow) /\ Len(all_socket_connections) \in Nat
      /\ DOMAIN all_socket_connections = 1..Len(all_socket_connections)
      /\ \A j \in DOMAIN all_socket_connections : all_socket_connections[j].peer_ids # <<>>
  BY LenProperties DEF TablesTyped, CTTypeOK, PeersKnown
<1>4. OneRows => TableStep(all_pipe_objects, all_pipe_objects')
  BY <1>1, SameTable DEF OneRows
<1>5. /\ all_socket_connections' \in Seq(ConnectionRow)
      /\ PeersKnown'
      /\ OneRows => TableStep(all_socket_connections, all_socket_connections')
  <2>1. CASE UNCHANGED all_socket_connections
    BY <1>3, <2>1, SameTable DEF OneRows, PeersKnown
  <2>2. ASSUME NEW i \in 1..Len(all_socket_connections),
               all_socket_connections' = RemoveAt(all_socket_connections, i)
        PROVE  /\ all_socket_connections' \in Seq(ConnectionRow)
               /\ PeersKnown'
               /\ OneRows => TableStep(all_socket_connections, all_socket_connections')
    <3>1. /\ all_socket_connections' \in Seq(ConnectionRow)
          /\ Len(all_socket_connections') = Len(all_socket_connections) - 1
          /\ \A j \in 1..(Len(all_socket_connections) - 1) :
               all_socket_connections'[j] = all_socket_connections[IF j < i THEN j ELSE j + 1]
      BY <1>3, <2>2, RemoveAtFacts
    <3>2. \A j \in 1..(Len(all_socket_connections) - 1) :
            (IF j < i THEN j ELSE j + 1) \in 1..Len(all_socket_connections)
      OBVIOUS
    <3>3. DOMAIN all_socket_connections' = 1..(Len(all_socket_connections) - 1)
      BY <3>1, LenProperties
    <3>4. PeersKnown'
      BY <1>3, <3>1, <3>2, <3>3 DEF PeersKnown
    <3>5. OneRows => TableStep(all_socket_connections, all_socket_connections')
      BY <1>3, <2>2, RemovedRow DEF OneRows
    <3>6. QED
      BY <3>1, <3>4, <3>5
  <2>3. ASSUME NEW i \in 1..Len(all_socket_connections), NEW row \in ConnectionRow,
               all_socket_connections' = Replaced(all_socket_connections, i, row),
               row.channel = all_socket_connections[i].channel,
               row.peer_ids = all_socket_connections[i].peer_ids,
               FlowsTo(all_socket_connections[i], row)
        PROVE  /\ all_socket_connections' \in Seq(ConnectionRow)
               /\ PeersKnown'
               /\ OneRows => TableStep(all_socket_connections, all_socket_connections')
    <3>1. /\ all_socket_connections' \in Seq(ConnectionRow)
          /\ Len(all_socket_connections') = Len(all_socket_connections)
          /\ \A j \in 1..Len(all_socket_connections) :
               all_socket_connections'[j] = IF j = i THEN row ELSE all_socket_connections[j]
          /\ OneRowEach(all_socket_connections)
               => TableStep(all_socket_connections, all_socket_connections')
      BY <1>3, <2>3, ReplacedRow
    <3>2. DOMAIN all_socket_connections' = 1..Len(all_socket_connections)
      BY <3>1, LenProperties
    <3>3. PeersKnown'
      BY <1>3, <2>3, <3>1, <3>2 DEF PeersKnown
    <3>4. QED
      BY <3>1, <3>3 DEF OneRows
  <2>4. QED
    BY <2>1, <2>2, <2>3, SocketCloseFacts
<1>6. CTTypeOK'
  BY <1>1, <1>5 DEF CTTypeOK, TablesTyped
<1>7. QED
  BY <1>1, <1>2, <1>4, <1>5, <1>6 DEF DbTypes, TablesStep

LEMMA ForkCopyStep ==
  ASSUME TablesTyped, NEW u \in Users, NEW child \in Pids, NEW parent,
         fork_check_and_copy(u, child, parent)
  PROVE  DbTypes /\ (OneRows => TablesStep({}))
<1>1. REStep /\ UNCHANGED all_socket_connections
  BY ForkFacts
<1>2. CASE UNCHANGED <<all_pipe_objects, pipe_ref_map>>
  BY <1>1, <1>2, TablesIdle, SameTables DEF DbTypes, ctvars
<1>3. ASSUME NEW s, NEW t \in SubjectIds,
             all_pipe_objects' = CountedCopies(s), pipe_ref_map' = CopiedMaps(s, t)
      PROVE  DbTypes /\ (OneRows => TablesStep({}))
  <2>1. /\ all_pipe_objects \in Seq(ChannelRow) /\ pipe_ref_map \in Seq(RefMapRow)
        /\ all_socket_connections \in Seq(ConnectionRow)
    BY DEF TablesTyped, CTTypeOK
  <2>2. /\ all_pipe_objects' \in Seq(ChannelRow)
        /\ Len(all_pipe_objects') = Len(all_pipe_objects)
        /\ \A i \in 1..Len(all_pipe_objects) :
             /\ all_pipe_objects'[i].channel = all_pipe_objects[i].channel
             /\ FlowsTo(all_pipe_objects[i], all_pipe_objects'[i])
    BY <1>3, CopiesFacts DEF TablesTyped
  <2>3. pipe_ref_map' \in Seq(RefMapRow)
    BY <1>3, <2>1, CopiedMapsFacts DEF MapsTypeOK
  <2>4. CTTypeOK' /\ PeersKnown'
    BY <1>1, <2>1, <2>2, <2>3 DEF CTTypeOK, PeersKnown, TablesTyped
  <2>5. OneRows => TableStep(all_pipe_objects, all_pipe_objects')
    BY <2>1, <2>2, KeptTable DEF OneRows
  <2>6. OneRows => TableStep(all_socket_connections, all_socket_connections')
    BY <1>1, SameTable DEF OneRows
  <2>7. \A y : InTable(all_pipe_objects', y) <=> InTable(all_pipe_objects, y)
    BY <2>1, <2>2, ChannelsStay
  <2>8. QED
    BY <1>1, <2>4, <2>5, <2>6, <2>7 DEF DbTypes, TablesStep
<1>4. <<u, child>> \in SubjectIds
  BY DEF SubjectIds
<1>5. QED
  BY <1>2, <1>3, <1>4, ForkFacts DEF ctvars

-----------------------------------------------------------------------------
(* The types of the processes *)

\* What a process may be in the middle of, and what it then has.
Calls == {"free", "idle", "opened", "read", "write", "closing", "forkwait", "forked"}

ProcTyped ==
  /\ kind \in [Channels -> ChannelKinds \cup {"unmade"}]
  /\ pc \in [Pids -> Calls]
  /\ uid \in [Pids -> Users \cup {NoUser}]
  /\ know \in [Pids -> SUBSET Files] /\ buf \in [Pids -> SUBSET Files]
  /\ fds \in [Pids -> SUBSET (Channels \X Ends)]
  /\ data \in [Channels -> [Ends -> SUBSET Files]]
  /\ backlog \subseteq Channels

\* What on tells: the channel of a call, or the parent of a child that was forked.
OnTyped ==
  /\ on \in [Pids -> (Channels \cup Pids \cup {InitProc}) \X SUBSET Ends]
  /\ \A p \in Pids :
       /\ pc[p] # "free" => uid[p] \in Users
       /\ pc[p] \in {"opened", "read", "write", "closing"} => on[p][1] \in Channels
       /\ pc[p] = "forked" => on[p][1] \in Pids

\* One child at a time has no row yet, and its parent waits for it.
ForkInv ==
  \A c \in Pids : pc[c] = "forked" =>
    /\ on[c][1] \in Pids /\ pc[on[c][1]] = "forkwait"
    /\ \A q \in Pids : pc[q] = "forked" => q = c

\* The types of all variables, inductively.
TypeInv == TablesTyped /\ ProcTyped /\ OnTyped /\ ForkInv

LEMMA SidType ==
  ASSUME OnTyped, NEW p \in Pids, pc[p] # "free"
  PROVE  Sid(p) \in SubjectIds /\ uid[p] \in Users
  BY DEF OnTyped, Sid, SubjectIds

\* What Opened does to the types.
LEMMA OpenedTypes ==
  ASSUME ProcTyped, OnTyped, NEW p \in Pids, pc[p] = "idle", NEW x \in Channels,
         NEW ends \in SUBSET Ends, Opened(p, x, ends),
         kind' \in [Channels -> ChannelKinds \cup {"unmade"}], backlog' \subseteq Channels
  PROVE  ProcTyped' /\ OnTyped'
<1>1. /\ fds' = [fds EXCEPT ![p] = @ \cup ({x} \X ends)]
      /\ pc' = [pc EXCEPT ![p] = "opened"]
      /\ on' = [on EXCEPT ![p] = <<x, ends>>]
      /\ UNCHANGED <<uid, know, buf, data>>
  BY DEF Opened
<1>2. fds' \in [Pids -> SUBSET (Channels \X Ends)]
  <2>1. {x} \X ends \subseteq Channels \X Ends
    OBVIOUS
  <2>2. QED
    BY <1>1, <2>1 DEF ProcTyped
<1>3. pc' \in [Pids -> Calls]
  BY <1>1 DEF ProcTyped, Calls
<1>4. ProcTyped'
  BY <1>1, <1>2, <1>3 DEF ProcTyped
<1>5. OnTyped'
  <2>1. on' \in [Pids -> (Channels \cup Pids \cup {InitProc}) \X SUBSET Ends]
    BY <1>1 DEF OnTyped
  <2>2. ASSUME NEW q \in Pids
        PROVE  /\ pc'[q] # "free" => uid'[q] \in Users
               /\ pc'[q] \in {"opened", "read", "write", "closing"} => on'[q][1] \in Channels
               /\ pc'[q] = "forked" => on'[q][1] \in Pids
    <3>1. CASE q = p
      BY <1>1, <3>1 DEF OnTyped, ProcTyped
    <3>2. CASE q # p
      BY <1>1, <3>2 DEF OnTyped, ProcTyped
    <3>3. QED
      BY <3>1, <3>2
  <2>3. QED
    BY <2>1, <2>2 DEF OnTyped
<1>6. QED
  BY <1>4, <1>5

\* What Return does to the types.
LEMMA ReturnTypes ==
  ASSUME ProcTyped, OnTyped, NEW p \in Pids, pc[p] # "free", Return(p)
  PROVE  /\ pc' \in [Pids -> Calls] /\ buf' \in [Pids -> SUBSET Files]
         /\ UNCHANGED uid => OnTyped'
<1>1. /\ pc' = [pc EXCEPT ![p] = "idle"] /\ on' = [on EXCEPT ![p] = Nowhere]
      /\ buf' = [buf EXCEPT ![p] = {}]
  BY DEF Return
<1>2. pc' \in [Pids -> Calls]
  BY <1>1 DEF ProcTyped, Calls
<1>3. buf' \in [Pids -> SUBSET Files]
  BY <1>1 DEF ProcTyped
<1>4. ASSUME UNCHANGED uid
      PROVE  OnTyped'
  <2>1. on' \in [Pids -> (Channels \cup Pids \cup {InitProc}) \X SUBSET Ends]
    BY <1>1 DEF OnTyped, Nowhere
  <2>2. ASSUME NEW q \in Pids
        PROVE  /\ pc'[q] # "free" => uid'[q] \in Users
               /\ pc'[q] \in {"opened", "read", "write", "closing"} => on'[q][1] \in Channels
               /\ pc'[q] = "forked" => on'[q][1] \in Pids
    <3>1. CASE q = p
      BY <1>1, <1>4, <3>1 DEF OnTyped, ProcTyped
    <3>2. CASE q # p
      BY <1>1, <1>4, <3>2 DEF OnTyped, ProcTyped
    <3>3. QED
      BY <3>1, <3>2
  <2>3. QED
    BY <2>1, <2>2 DEF OnTyped
<1>5. QED
  BY <1>2, <1>3, <1>4

\* Calls that name a channel and an end of it.
LEMMA CallTypes ==
  ASSUME ProcTyped, OnTyped, NEW p \in Pids, pc[p] = "idle", NEW x \in Channels, NEW e \in Ends,
         NEW call \in {"read", "write", "closing"},
         pc' = [pc EXCEPT ![p] = call], on' = [on EXCEPT ![p] = <<x, {e}>>], UNCHANGED uid
  PROVE  pc' \in [Pids -> Calls] /\ OnTyped'
<1>1. pc' \in [Pids -> Calls]
  BY DEF ProcTyped, Calls
<1>2. on' \in [Pids -> (Channels \cup Pids \cup {InitProc}) \X SUBSET Ends]
  BY DEF OnTyped
<1>3. ASSUME NEW q \in Pids
      PROVE  /\ pc'[q] # "free" => uid'[q] \in Users
             /\ pc'[q] \in {"opened", "read", "write", "closing"} => on'[q][1] \in Channels
             /\ pc'[q] = "forked" => on'[q][1] \in Pids
  <2>1. CASE q = p
    BY <2>1 DEF OnTyped, ProcTyped
  <2>2. CASE q # p
    BY <2>2 DEF OnTyped, ProcTyped
  <2>3. QED
    BY <2>1, <2>2
<1>4. QED
  BY <1>1, <1>2, <1>3 DEF OnTyped

LEMMA RemainingType ==
  ASSUME ProcTyped, NEW left
  PROVE  /\ Remaining(left) \in [Channels -> [Ends -> SUBSET Files]]
         /\ \A x \in Channels :
              \/ Remaining(left)[x] = data[x]
              \/ Remaining(left)[x] = [e \in Ends |-> {}]
<1>1. [e \in Ends |-> {}] \in [Ends -> SUBSET Files]
  OBVIOUS
<1> DEFINE empty == [e \in Ends |-> {}]
           kept(x) == (\E p \in Pids, e \in Ends : <<x, e>> \in left[p]) \/ x \in backlog
<1>2. Remaining(left) = [x \in Channels |-> IF kept(x) THEN data[x] ELSE empty]
  BY DEF Remaining
<1> HIDE DEF empty, kept
<1>3. QED
  BY <1>1, <1>2 DEF ProcTyped, empty

LEMMA WriteDataType ==
  ASSUME ProcTyped, NEW info \in SUBSET Files, NEW x \in Channels, NEW e,
         data' = [data EXCEPT ![x][e] = @ \cup info]
  PROVE  /\ data' \in [Channels -> [Ends -> SUBSET Files]]
         /\ \A y \in Channels, end \in Ends :
              data'[y][end] = IF y = x /\ end = e THEN data[x][e] \cup info ELSE data[y][end]
<1>1. data \in [Channels -> [Ends -> SUBSET Files]] /\ info \subseteq Files
  BY DEF ProcTyped
<1> DEFINE new == [data[x] EXCEPT ![e] = data[x][e] \cup info]
<1>2. new \in [Ends -> SUBSET Files]
      /\ \A end \in Ends : new[end] = IF end = e THEN data[x][e] \cup info ELSE data[x][end]
  <2>1. data[x] \in [Ends -> SUBSET Files]
    BY <1>1
  <2>2. QED
    BY <1>1, <2>1
<1>3. data' = [data EXCEPT ![x] = new]
  OBVIOUS
<1> HIDE DEF new
<1>4. QED
  BY <1>1, <1>2, <1>3

-----------------------------------------------------------------------------
(* The types of each step *)

LEMMA PipeTypes ==
  ASSUME ProcTyped, OnTyped, NEW p \in Pids, NEW x \in Channels, Pipe(p, x)
  PROVE  ProcTyped' /\ OnTyped'
<1>1. kind' \in [Channels -> ChannelKinds \cup {"unmade"}]
  BY DEF Pipe, ProcTyped, ChannelKinds
<1>2. {"r", "w"} \in SUBSET Ends /\ backlog' \subseteq Channels
  BY DEF Pipe, ProcTyped, Ends
<1>3. QED
  BY <1>1, <1>2, OpenedTypes DEF Pipe, At

LEMMA OpenFifoTypes ==
  ASSUME ProcTyped, OnTyped, NEW p \in Pids, NEW x \in Channels, NEW e \in {"r", "w"},
         OpenFifo(p, x, e)
  PROVE  ProcTyped' /\ OnTyped'
<1>1. /\ kind' \in [Channels -> ChannelKinds \cup {"unmade"}] /\ backlog' \subseteq Channels
      /\ {e} \in SUBSET Ends
  BY DEF OpenFifo, ProcTyped, Ends
<1>2. QED
  BY <1>1, OpenedTypes DEF OpenFifo, At

LEMMA ConnectTypes ==
  ASSUME ProcTyped, OnTyped, NEW p \in Pids, NEW x \in Channels, Connect(p, x)
  PROVE  ProcTyped' /\ OnTyped'
<1>1. /\ kind' \in [Channels -> ChannelKinds \cup {"unmade"}] /\ backlog' \subseteq Channels
      /\ {"c"} \in SUBSET Ends /\ {} \in SUBSET Ends
  BY DEF Connect, ProcTyped, Ends
<1>2. QED
  BY <1>1, OpenedTypes DEF Connect, At

LEMMA AcceptTypes ==
  ASSUME ProcTyped, OnTyped, NEW p \in Pids, NEW x \in Channels, Accept(p, x)
  PROVE  ProcTyped' /\ OnTyped'
<1>1. /\ kind' \in [Channels -> ChannelKinds \cup {"unmade"}] /\ backlog' \subseteq Channels
      /\ {"s"} \in SUBSET Ends
  BY DEF Accept, ProcTyped, Ends
<1>2. QED
  BY <1>1, OpenedTypes DEF Accept, At

LEMMA OpenCheckTypes ==
  ASSUME ProcTyped, OnTyped, NEW p \in Pids, OpenCheck(p)
  PROVE  ProcTyped' /\ OnTyped'
<1>1. pc[p] # "free" /\ Return(p) /\ UNCHANGED <<kind, uid, know, fds, data, backlog>>
  BY DEF OpenCheck, At
<1>2. pc' \in [Pids -> Calls] /\ buf' \in [Pids -> SUBSET Files] /\ OnTyped'
  BY <1>1, ReturnTypes
<1>3. QED
  BY <1>1, <1>2 DEF ProcTyped

LEMMA ReadTypes ==
  ASSUME ProcTyped, OnTyped, NEW p \in Pids, NEW x \in Channels, NEW e \in Ends, Read(p, x, e)
  PROVE  ProcTyped' /\ OnTyped'
<1>1. /\ pc[p] = "idle" /\ buf' = [buf EXCEPT ![p] = data[x][e]]
      /\ pc' = [pc EXCEPT ![p] = "read"] /\ on' = [on EXCEPT ![p] = <<x, {e}>>]
      /\ UNCHANGED <<kind, uid, know, fds, data, backlog>>
  BY DEF Read, At
<1>2. pc' \in [Pids -> Calls] /\ OnTyped'
  BY <1>1, CallTypes
<1>3. data[x][e] \subseteq Files
  BY DEF ProcTyped
<1>4. buf' \in [Pids -> SUBSET Files]
  BY <1>1, <1>3 DEF ProcTyped
<1>5. QED
  BY <1>1, <1>2, <1>4 DEF ProcTyped

LEMMA ReadCheckTypes ==
  ASSUME ProcTyped, OnTyped, NEW p \in Pids, ReadCheck(p)
  PROVE  ProcTyped' /\ OnTyped'
<1>1. /\ pc[p] # "free" /\ Return(p) /\ UNCHANGED <<kind, uid, fds, data, backlog>>
      /\ know' = [know EXCEPT ![p] = @ \cup buf[p]] \/ UNCHANGED know
  BY DEF ReadCheck, At
<1>2. pc' \in [Pids -> Calls] /\ buf' \in [Pids -> SUBSET Files] /\ OnTyped'
  BY <1>1, ReturnTypes
<1>3. know' \in [Pids -> SUBSET Files]
  BY <1>1 DEF ProcTyped
<1>4. QED
  BY <1>1, <1>2, <1>3 DEF ProcTyped

LEMMA WriteTypes ==
  ASSUME ProcTyped, OnTyped, NEW p \in Pids, NEW x \in Channels, NEW e \in Ends, Write(p, x, e)
  PROVE  ProcTyped' /\ OnTyped'
<1>1. pc[p] = "idle" /\ UNCHANGED <<kind, uid, know, fds, data, backlog>>
  BY DEF Write, At
<1>2. CASE UNCHANGED <<pc, on, buf>>
  BY <1>1, <1>2 DEF ProcTyped, OnTyped
<1>3. CASE /\ pc' = [pc EXCEPT ![p] = "write"] /\ on' = [on EXCEPT ![p] = <<x, {e}>>]
           /\ buf' = [buf EXCEPT ![p] = know[p]]
  <2>1. pc' \in [Pids -> Calls] /\ OnTyped'
    BY <1>1, <1>3, CallTypes
  <2>2. buf' \in [Pids -> SUBSET Files]
    BY <1>3 DEF ProcTyped
  <2>3. QED
    BY <1>1, <2>1, <2>2 DEF ProcTyped
<1>4. QED
  BY <1>2, <1>3 DEF Write

LEMMA WriteDataTypes ==
  ASSUME ProcTyped, OnTyped, NEW p \in Pids, WriteData(p)
  PROVE  ProcTyped' /\ OnTyped'
<1> DEFINE x == on[p][1]
           e == Other(CHOOSE end \in on[p][2] : TRUE)
<1>1. /\ pc[p] = "write" /\ Return(p) /\ UNCHANGED <<kind, uid, know, fds, backlog>>
      /\ data' = [data EXCEPT ![x][e] = @ \cup buf[p]] \/ UNCHANGED data
  BY DEF WriteData, At
<1>2. x \in Channels
  BY <1>1 DEF OnTyped
<1> HIDE DEF x, e
<1>3. data' \in [Channels -> [Ends -> SUBSET Files]]
  <2>1. CASE data' = [data EXCEPT ![x][e] = @ \cup buf[p]]
    <3>1. buf[p] \in SUBSET Files
      BY DEF ProcTyped
    <3>2. QED
      BY <1>2, <2>1, <3>1, WriteDataType
  <2>2. CASE UNCHANGED data
    BY <2>2 DEF ProcTyped
  <2>3. QED
    BY <1>1, <2>1, <2>2
<1>4. pc' \in [Pids -> Calls] /\ buf' \in [Pids -> SUBSET Files] /\ OnTyped'
  BY <1>1, ReturnTypes
<1>5. QED
  BY <1>1, <1>3, <1>4 DEF ProcTyped

LEMMA CloseTypes ==
  ASSUME ProcTyped, OnTyped, NEW p \in Pids, NEW x \in Channels, NEW e \in Ends, Close(p, x, e)
  PROVE  ProcTyped' /\ OnTyped'
<1>1. /\ pc[p] = "idle"
      /\ pc' = [pc EXCEPT ![p] = "closing"] /\ on' = [on EXCEPT ![p] = <<x, {e}>>]
      /\ UNCHANGED <<kind, uid, know, buf, fds, data, backlog>>
  BY DEF Close, At
<1>2. pc' \in [Pids -> Calls] /\ OnTyped'
  BY <1>1, CallTypes
<1>3. QED
  BY <1>1, <1>2 DEF ProcTyped

LEMMA CloseFdTypes ==
  ASSUME ProcTyped, OnTyped, NEW p \in Pids, CloseFd(p)
  PROVE  ProcTyped' /\ OnTyped'
<1>1. /\ pc[p] # "free" /\ Return(p) /\ UNCHANGED <<kind, uid, know, backlog>>
      /\ fds' = [fds EXCEPT ![p] = @ \ ({on[p][1]} \X on[p][2])]
      /\ data' = Remaining(fds')
  BY DEF CloseFd, At
<1>2. pc' \in [Pids -> Calls] /\ buf' \in [Pids -> SUBSET Files] /\ OnTyped'
  BY <1>1, ReturnTypes
<1>3. fds' \in [Pids -> SUBSET (Channels \X Ends)]
  <2>1. fds[p] \ ({on[p][1]} \X on[p][2]) \subseteq Channels \X Ends
    BY DEF ProcTyped
  <2>2. QED
    BY <1>1, <2>1 DEF ProcTyped
<1>4. data' \in [Channels -> [Ends -> SUBSET Files]]
  BY <1>1, RemainingType
<1>5. QED
  BY <1>1, <1>2, <1>3, <1>4 DEF ProcTyped

LEMMA ForkTypes ==
  ASSUME ProcTyped, OnTyped, NEW p \in Pids, NEW c \in Pids, Fork(p, c)
  PROVE  ProcTyped' /\ OnTyped'
<1>1. /\ pc[p] = "idle" /\ pc[c] = "free"
      /\ pc' = [pc EXCEPT ![p] = "forkwait", ![c] = "forked"]
      /\ on' = [on EXCEPT ![c] = <<p, {}>>]
      /\ uid' = [uid EXCEPT ![c] = uid[p]]
      /\ know' = [know EXCEPT ![c] = know[p]]
      /\ fds' = [fds EXCEPT ![c] = fds[p]]
      /\ UNCHANGED <<kind, buf, data, backlog>>
  BY DEF Fork, At
<1>2. pc' \in [Pids -> Calls] /\ uid' \in [Pids -> Users \cup {NoUser}]
  BY <1>1 DEF ProcTyped, Calls
<1>3. know' \in [Pids -> SUBSET Files] /\ fds' \in [Pids -> SUBSET (Channels \X Ends)]
  BY <1>1 DEF ProcTyped
<1>4. on' \in [Pids -> (Channels \cup Pids \cup {InitProc}) \X SUBSET Ends]
  BY <1>1 DEF OnTyped
<1>5. ASSUME NEW q \in Pids
      PROVE  /\ pc'[q] # "free" => uid'[q] \in Users
             /\ pc'[q] \in {"opened", "read", "write", "closing"} => on'[q][1] \in Channels
             /\ pc'[q] = "forked" => on'[q][1] \in Pids
  <2>1. CASE q = c
    <3>1. pc'[q] = "forked" /\ uid'[q] = uid[p] /\ on'[q] = <<p, {}>>
      BY <1>1, <2>1 DEF ProcTyped, OnTyped
    <3>2. QED
      BY <1>1, <3>1 DEF OnTyped
  <2>2. CASE q = p
    <3>1. pc'[q] = "forkwait" /\ uid'[q] = uid[q] /\ pc[q] # "free"
      BY <1>1, <2>2 DEF ProcTyped, OnTyped
    <3>2. QED
      BY <3>1 DEF OnTyped
  <2>3. CASE q # p /\ q # c
    BY <1>1, <2>3 DEF OnTyped, ProcTyped
  <2>4. QED
    BY <2>1, <2>2, <2>3
<1>6. QED
  BY <1>1, <1>2, <1>3, <1>4, <1>5 DEF ProcTyped, OnTyped

LEMMA ForkCheckTypes ==
  ASSUME ProcTyped, OnTyped, ForkInv, NEW c \in Pids, ForkCheck(c)
  PROVE  ProcTyped' /\ OnTyped'
<1> DEFINE p == on[c][1]
<1>1. /\ pc[c] = "forked" /\ pc' = [pc EXCEPT ![c] = "idle", ![p] = "idle"]
      /\ on' = [on EXCEPT ![c] = Nowhere]
      /\ UNCHANGED <<kind, uid, know, buf, fds, data, backlog>>
  BY DEF ForkCheck, At
<1>2. p \in Pids /\ pc[p] = "forkwait"
  BY <1>1 DEF ForkInv
<1> HIDE DEF p
<1>3. pc' \in [Pids -> Calls]
  BY <1>1 DEF ProcTyped, Calls
<1>4. on' \in [Pids -> (Channels \cup Pids \cup {InitProc}) \X SUBSET Ends]
  BY <1>1 DEF OnTyped, Nowhere
<1>5. ASSUME NEW q \in Pids
      PROVE  /\ pc'[q] # "free" => uid'[q] \in Users
             /\ pc'[q] \in {"opened", "read", "write", "closing"} => on'[q][1] \in Channels
             /\ pc'[q] = "forked" => on'[q][1] \in Pids
  <2>1. CASE q = c \/ q = p
    <3>1. pc'[q] = "idle" /\ pc[q] # "free"
      BY <1>1, <1>2, <2>1 DEF ProcTyped
    <3>2. uid'[q] \in Users
      BY <1>1, <3>1 DEF OnTyped
    <3>3. QED
      BY <3>1, <3>2
  <2>2. CASE q # p /\ q # c
    <3>1. pc'[q] = pc[q] /\ on'[q] = on[q]
      BY <1>1, <2>2 DEF OnTyped, ProcTyped
    <3>2. QED
      BY <1>1, <3>1 DEF OnTyped
  <2>3. QED
    BY <2>1, <2>2
<1>6. ProcTyped'
  BY <1>1, <1>3 DEF ProcTyped
<1>7. QED
  BY <1>4, <1>5, <1>6 DEF OnTyped

LEMMA ExitTypes ==
  ASSUME ProcTyped, OnTyped, NEW p \in Pids, Exit(p)
  PROVE  ProcTyped' /\ OnTyped'
<1>1. /\ pc' = [pc EXCEPT ![p] = "free"] /\ on' = [on EXCEPT ![p] = Nowhere]
      /\ uid' = [uid EXCEPT ![p] = NoUser] /\ know' = [know EXCEPT ![p] = {}]
      /\ buf' = [buf EXCEPT ![p] = {}] /\ fds' = [fds EXCEPT ![p] = {}]
      /\ data' = Remaining(fds') /\ UNCHANGED <<kind, backlog>>
  BY DEF Exit
<1>2. pc' \in [Pids -> Calls] /\ uid' \in [Pids -> Users \cup {NoUser}]
  BY <1>1 DEF ProcTyped, Calls
<1>3. /\ know' \in [Pids -> SUBSET Files] /\ buf' \in [Pids -> SUBSET Files]
      /\ fds' \in [Pids -> SUBSET (Channels \X Ends)]
  BY <1>1 DEF ProcTyped
<1>4. data' \in [Channels -> [Ends -> SUBSET Files]]
  BY <1>1, RemainingType
<1>5. on' \in [Pids -> (Channels \cup Pids \cup {InitProc}) \X SUBSET Ends]
  BY <1>1 DEF OnTyped, Nowhere
<1>6. ASSUME NEW q \in Pids
      PROVE  /\ pc'[q] # "free" => uid'[q] \in Users
             /\ pc'[q] \in {"opened", "read", "write", "closing"} => on'[q][1] \in Channels
             /\ pc'[q] = "forked" => on'[q][1] \in Pids
  <2>1. CASE q = p
    BY <1>1, <2>1 DEF ProcTyped
  <2>2. CASE q # p
    <3>1. pc'[q] = pc[q] /\ on'[q] = on[q] /\ uid'[q] = uid[q]
      BY <1>1, <2>2 DEF OnTyped, ProcTyped
    <3>2. QED
      BY <3>1 DEF OnTyped
  <2>3. QED
    BY <2>1, <2>2
<1>7. ProcTyped'
  BY <1>1, <1>2, <1>3, <1>4 DEF ProcTyped
<1>8. QED
  BY <1>5, <1>6, <1>7 DEF OnTyped

LEMMA ReadFileTypes ==
  ASSUME ProcTyped, OnTyped, NEW p \in Pids, NEW f \in Files, ReadFile(p, f)
  PROVE  ProcTyped' /\ OnTyped'
<1>1. /\ know' = [know EXCEPT ![p] = @ \cup {f}]
      /\ UNCHANGED <<kind, pc, uid, on, buf, fds, data, backlog>>
  BY DEF ReadFile
<1>2. know' \in [Pids -> SUBSET Files]
  BY <1>1 DEF ProcTyped
<1>3. QED
  BY <1>1, <1>2 DEF ProcTyped, OnTyped

LEMMA ReadSocketTypes ==
  ASSUME ProcTyped, OnTyped, NEW p \in Pids, NEW x \in Channels, NEW e \in {"c", "s"},
         ReadSocket(p, x, e)
  PROVE  ProcTyped' /\ OnTyped'
<1>1. /\ know' = [know EXCEPT ![p] = @ \cup data[x][e]]
      /\ UNCHANGED <<kind, pc, uid, on, buf, fds, data, backlog>>
  BY DEF ReadSocket
<1>2. data[x][e] \subseteq Files
  BY DEF ProcTyped, Ends
<1>3. know' \in [Pids -> SUBSET Files]
  BY <1>1, <1>2 DEF ProcTyped
<1>4. QED
  BY <1>1, <1>3 DEF ProcTyped, OnTyped

LEMMA WriteSocketTypes ==
  ASSUME ProcTyped, OnTyped, NEW p \in Pids, NEW x \in Channels, NEW e \in {"c", "s"},
         WriteSocket(p, x, e)
  PROVE  ProcTyped' /\ OnTyped'
<1>1. /\ data' = [data EXCEPT ![x][Other(e)] = @ \cup know[p]] \/ UNCHANGED data
      /\ UNCHANGED <<kind, pc, uid, on, know, buf, fds, backlog>>
  BY DEF WriteSocket
<1>2. know[p] \in SUBSET Files
  BY DEF ProcTyped
<1>3. data' \in [Channels -> [Ends -> SUBSET Files]]
  <2>1. CASE data' = [data EXCEPT ![x][Other(e)] = @ \cup know[p]]
    BY <1>2, <2>1, WriteDataType
  <2>2. CASE UNCHANGED data
    BY <2>2 DEF ProcTyped
  <2>3. QED
    BY <1>1, <2>1, <2>2
<1>4. QED
  BY <1>1, <1>3 DEF ProcTyped, OnTyped

-----------------------------------------------------------------------------
(* One fork at a time *)

\* A step of a process that is in no fork.
LEMMA NoForkStep ==
  ASSUME ProcTyped, OnTyped, ForkInv, NEW p \in Pids, pc[p] \notin {"forked", "forkwait"},
         \A q \in Pids : q # p => pc'[q] = pc[q] /\ on'[q] = on[q],
         pc'[p] \notin {"forked", "forkwait"}
  PROVE  ForkInv'
  BY DEF ForkInv

\* What most actions do to pc and on: to those of one process, which is in no fork.
OneMoves(p) ==
  /\ pc[p] \notin {"forked", "forkwait"}
  /\ \E call \in {"free", "idle", "opened", "read", "write", "closing"} :
       pc' = [pc EXCEPT ![p] = call] \/ UNCHANGED pc
  /\ \E call : on' = [on EXCEPT ![p] = call] \/ UNCHANGED on

LEMMA OneMovesForks ==
  ASSUME ProcTyped, OnTyped, ForkInv, NEW p \in Pids, OneMoves(p)
  PROVE  ForkInv'
<1>1. pc[p] \notin {"forked", "forkwait"} /\ pc'[p] \notin {"forked", "forkwait"}
  BY DEF OneMoves, ProcTyped
<1>2. ASSUME NEW q \in Pids, q # p
      PROVE  pc'[q] = pc[q] /\ on'[q] = on[q]
  BY <1>2 DEF OneMoves, ProcTyped, OnTyped
<1>3. QED
  BY <1>1, <1>2, NoForkStep

LEMMA ForkForks ==
  ASSUME ProcTyped, OnTyped, NEW p \in Pids, NEW c \in Pids, Fork(p, c)
  PROVE  ForkInv'
<1>1. /\ pc[p] = "idle" /\ pc[c] = "free" /\ \A q \in Pids : pc[q] # "forked"
      /\ pc' = [pc EXCEPT ![p] = "forkwait", ![c] = "forked"]
      /\ on' = [on EXCEPT ![c] = <<p, {}>>]
  BY DEF Fork, At
<1>2. /\ pc'[p] = "forkwait" /\ pc'[c] = "forked" /\ on'[c] = <<p, {}>>
      /\ \A q \in Pids : q # c => pc'[q] # "forked"
  BY <1>1 DEF ProcTyped, OnTyped
<1>3. QED
  BY <1>2 DEF ForkInv

LEMMA ForkCheckForks ==
  ASSUME ProcTyped, OnTyped, ForkInv, NEW c \in Pids, ForkCheck(c)
  PROVE  ForkInv'
<1> DEFINE p == on[c][1]
<1>1. pc[c] = "forked" /\ pc' = [pc EXCEPT ![c] = "idle", ![p] = "idle"]
  BY DEF ForkCheck, At
<1>2. p \in Pids /\ \A q \in Pids : pc[q] = "forked" => q = c
  BY <1>1 DEF ForkInv
<1> HIDE DEF p
<1>3. \A q \in Pids : pc'[q] # "forked"
  BY <1>1, <1>2 DEF ProcTyped
<1>4. QED
  BY <1>3 DEF ForkInv

-----------------------------------------------------------------------------
(* What the steps do to the tables *)

LEMMA IdleDb ==
  ASSUME TablesTyped, UNCHANGED <<revars, ctvars>>
  PROVE  DbTypes /\ (OneRows => TablesStep({}))
<1>1. REStep
  BY ReIdle DEF TablesTyped
<1>2. CTTypeOK' /\ PeersKnown'
  BY TablesIdle
<1>3. UNCHANGED <<all_pipe_objects, all_socket_connections>>
  BY DEF ctvars
<1>4. OneRows => TablesStep({})
  BY <1>3, SameTables
<1>5. QED
  BY <1>1, <1>2, <1>4 DEF DbTypes

\* No row of a channel falls, whatever the step.
Rise == /\ TableStep(all_pipe_objects, all_pipe_objects')
        /\ TableStep(all_socket_connections, all_socket_connections')

\* Nobody enters a call that opens a channel.
LEMMA TablesKept ==
  ASSUME TableInv, kind' = kind, backlog' \subseteq backlog, NEW X, TablesStep(X),
         \A y \in X : kind[y] \in {"pipe", "fifo"},
         \A q \in Pids : pc'[q] = "opened" =>
           /\ pc[q] = "opened" /\ on'[q] = on[q]
           /\ kind[on[q][1]] = "pipe" => on[q][1] \notin X
  PROVE  TableInv' /\ Rise
<1>1. Rise
  BY DEF TablesStep, Rise
<1>2. OneRowEach(all_pipe_objects') /\ OneRowEach(all_socket_connections')
  BY DEF TablesStep, TableStep
<1>3. \A y : InTable(all_pipe_objects', y) => kind[y] \in {"pipe", "fifo"}
  BY DEF TableInv, TablesStep
<1>4. \A q \in Pids : pc'[q] = "opened" => kind'[on'[q][1]] # "unmade"
  BY DEF TableInv
<1>5. ASSUME NEW q \in Pids, Making(q)'
      PROVE  Making(q) /\ on'[q] = on[q] /\ on[q][1] \notin X
  BY <1>5 DEF Making
<1>6. ASSUME NEW q \in Pids, Making(q)'
      PROVE  /\ ~InTable(all_pipe_objects', on'[q][1])
             /\ \A r \in Pids : Making(r)' /\ on'[r][1] = on'[q][1] => r = q
  BY <1>5, <1>6 DEF TableInv, TablesStep
<1>7. InTable(all_pipe_objects, 1)' <=> InTable(all_pipe_objects', 1)
  BY DEF InTable
<1>8. QED
  BY <1>1, <1>2, <1>3, <1>4, <1>6 DEF TableInv, OneRowEach, InTable

\* A process enters a call that opens a fifo or a socket.
LEMMA TablesOpened ==
  ASSUME TableInv, OneRows, kind' = kind, UNCHANGED ctvars,
         NEW p \in Pids, NEW x, kind[x] \in {"fifo", "socket"},
         \A y \in backlog' : y \in backlog \/ kind[y] = "socket",
         on'[p][1] = x, \A q \in Pids : q # p => pc'[q] = pc[q] /\ on'[q] = on[q]
  PROVE  TableInv' /\ Rise
<1>1. UNCHANGED <<all_pipe_objects, all_socket_connections>>
  BY DEF ctvars
<1>2. Rise
  BY <1>1, SameTables DEF TablesStep, Rise
<1>3. \A q \in Pids : Making(q)' => Making(q) /\ q # p /\ on'[q] = on[q]
  BY DEF Making
<1>4. \A q \in Pids : pc'[q] = "opened" => kind'[on'[q][1]] # "unmade"
  BY DEF TableInv
<1>5. ASSUME NEW q \in Pids, Making(q)'
      PROVE  /\ ~InTable(all_pipe_objects', on'[q][1])
             /\ \A r \in Pids : Making(r)' /\ on'[r][1] = on'[q][1] => r = q
  BY <1>1, <1>3, <1>5 DEF TableInv
<1>6. QED
  BY <1>1, <1>2, <1>4, <1>5 DEF TableInv, OneRowEach, InTable

LEMMA TablesMade ==
  ASSUME ProcTyped, OnTyped, TableInv, NEW p \in Pids, NEW x \in Channels, Pipe(p, x)
  PROVE  TableInv' /\ Rise
<1>1. /\ kind[x] = "unmade" /\ kind' = [kind EXCEPT ![x] = "pipe"]
      /\ pc' = [pc EXCEPT ![p] = "opened"] /\ on' = [on EXCEPT ![p] = <<x, {"r", "w"}>>]
      /\ UNCHANGED <<all_pipe_objects, all_socket_connections, backlog>>
  BY DEF Pipe, Opened, ctvars
<1>2. OneRows
  BY DEF TableInv, OneRows
<1>3. Rise
  BY <1>1, <1>2, SameTables DEF TablesStep, Rise
<1>4. /\ pc'[p] = "opened" /\ on'[p] = <<x, {"r", "w"}>>
      /\ \A q \in Pids : q # p => pc'[q] = pc[q] /\ on'[q] = on[q]
  BY <1>1 DEF ProcTyped, OnTyped
<1>5. kind'[x] = "pipe" /\ \A y : y # x => kind'[y] = kind[y]
  BY <1>1 DEF ProcTyped
<1>6. ~InTable(all_pipe_objects, x) /\ \A y : InTable(all_pipe_objects, y) => y # x
  BY <1>1 DEF TableInv
<1>7. \A y \in backlog : y # x
  BY <1>1 DEF TableInv
<1>8. \A q \in Pids : q # p /\ pc[q] = "opened" => on[q][1] # x
  BY <1>1 DEF TableInv
<1>9. \A q \in Pids : pc'[q] = "opened" => kind'[on'[q][1]] # "unmade"
  BY <1>4, <1>5, <1>8 DEF TableInv
<1>10. \A q \in Pids : q # p /\ Making(q)' => Making(q) /\ on'[q] = on[q] /\ on[q][1] # x
  BY <1>4, <1>5, <1>8 DEF Making
<1>11. ASSUME NEW q \in Pids, Making(q)'
       PROVE  /\ ~InTable(all_pipe_objects', on'[q][1])
              /\ \A r \in Pids : Making(r)' /\ on'[r][1] = on'[q][1] => r = q
  BY <1>1, <1>4, <1>6, <1>10, <1>11 DEF TableInv
<1>12. \A y : InTable(all_pipe_objects', y) => kind'[y] \in {"pipe", "fifo"}
  BY <1>1, <1>5, <1>6 DEF TableInv
<1>13. \A y \in backlog' : kind'[y] = "socket"
  BY <1>1, <1>5, <1>7 DEF TableInv
<1>14. OneRowEach(all_pipe_objects') /\ OneRowEach(all_socket_connections')
  BY <1>1 DEF TableInv
<1>15. QED
  BY <1>3, <1>9, <1>11, <1>12, <1>13, <1>14 DEF TableInv, OneRowEach, InTable

-----------------------------------------------------------------------------
(* One step *)

\* What every step keeps.
StepOK == TypeInv' /\ REStep /\ (TableInv => TableInv' /\ Rise)

\* A call of one process that changes no row.
LEMMA IdleStep ==
  ASSUME TypeInv, UNCHANGED <<revars, ctvars, kind>>, backlog' \subseteq backlog,
         ProcTyped', OnTyped', ForkInv',
         \A q \in Pids : pc'[q] = "opened" => pc[q] = "opened" /\ on'[q] = on[q]
  PROVE  StepOK
<1>1. DbTypes /\ (OneRows => TablesStep({}))
  BY IdleDb DEF TypeInv
<1>2. TypeInv' /\ REStep
  BY <1>1 DEF TypeInv, TablesTyped, DbTypes, REStep
<1>3. ASSUME TableInv
      PROVE  TableInv' /\ Rise
  BY <1>1, <1>3, TablesKept DEF TableInv, OneRows
<1>4. QED
  BY <1>2, <1>3 DEF StepOK

\* A check, and the return of its call.
LEMMA CheckStep ==
  ASSUME TypeInv, NEW X, DbTypes, TableInv /\ OneRows => TablesStep(X),
         UNCHANGED <<kind, backlog>>, ProcTyped', OnTyped', ForkInv',
         \A y \in X : kind[y] \in {"pipe", "fifo"},
         TableInv => \A q \in Pids : pc'[q] = "opened" =>
           /\ pc[q] = "opened" /\ on'[q] = on[q]
           /\ kind[on[q][1]] = "pipe" => on[q][1] \notin X
  PROVE  StepOK
<1>1. TypeInv' /\ REStep
  BY DEF TypeInv, TablesTyped, DbTypes, REStep
<1>2. ASSUME TableInv
      PROVE  TableInv' /\ Rise
  <2>1. TablesStep(X)
    BY <1>2 DEF TableInv, OneRows
  <2>2. QED
    BY <1>2, <2>1, TablesKept
<1>3. QED
  BY <1>1, <1>2 DEF StepOK

\* Opened and Return move one process.
LEMMA OpenedMoves ==
  ASSUME ProcTyped, OnTyped, NEW p \in Pids, NEW x, NEW ends, Opened(p, x, ends),
         pc[p] = "idle"
  PROVE  /\ OneMoves(p) /\ UNCHANGED <<revars, ctvars>>
         /\ pc'[p] = "opened" /\ on'[p] = <<x, ends>>
         /\ \A q \in Pids : q # p => pc'[q] = pc[q] /\ on'[q] = on[q]
<1>1. /\ pc' = [pc EXCEPT ![p] = "opened"] /\ on' = [on EXCEPT ![p] = <<x, ends>>]
      /\ UNCHANGED <<revars, ctvars>>
  BY DEF Opened
<1>2. OneMoves(p)
  BY <1>1 DEF OneMoves
<1>3. QED
  BY <1>1, <1>2 DEF ProcTyped, OnTyped

LEMMA ReturnMoves ==
  ASSUME ProcTyped, OnTyped, NEW p \in Pids, Return(p), pc[p] \notin {"forked", "forkwait"}
  PROVE  /\ OneMoves(p) /\ pc'[p] = "idle"
         /\ \A q \in Pids : q # p => pc'[q] = pc[q] /\ on'[q] = on[q]
<1>1. /\ pc' = [pc EXCEPT ![p] = "idle"] /\ on' = [on EXCEPT ![p] = Nowhere]
  BY DEF Return
<1>2. OneMoves(p)
  BY <1>1 DEF OneMoves
<1>3. QED
  BY <1>1, <1>2 DEF ProcTyped, OnTyped

LEMMA PipeStep ==
  ASSUME TypeInv, NEW p \in Pids, NEW x \in Channels, Pipe(p, x)
  PROVE  StepOK
<1>1. ProcTyped' /\ OnTyped'
  BY PipeTypes DEF TypeInv
<1>2. pc[p] = "idle" /\ Opened(p, x, {"r", "w"})
  BY DEF Pipe, At
<1>3. OneMoves(p) /\ UNCHANGED <<revars, ctvars>>
  BY <1>2, OpenedMoves DEF TypeInv
<1>4. ForkInv' /\ DbTypes
  BY <1>3, OneMovesForks, IdleDb DEF TypeInv
<1>5. QED
  BY <1>1, <1>4, TablesMade DEF TypeInv, TablesTyped, DbTypes, REStep, StepOK

\* open of a fifo, connect and accept.
LEMMA OpeningStep ==
  ASSUME TypeInv, NEW p \in Pids, NEW x \in Channels, NEW ends, Opened(p, x, ends),
         pc[p] = "idle", UNCHANGED kind, ProcTyped', OnTyped',
         TableInv => kind[x] \in {"fifo", "socket"},
         \A y \in backlog' : y \in backlog \/ kind[y] = "socket"
  PROVE  StepOK
<1>1. /\ OneMoves(p) /\ UNCHANGED <<revars, ctvars>> /\ on'[p][1] = x
      /\ \A q \in Pids : q # p => pc'[q] = pc[q] /\ on'[q] = on[q]
  BY OpenedMoves DEF TypeInv
<1>2. ForkInv' /\ DbTypes
  BY <1>1, OneMovesForks, IdleDb DEF TypeInv
<1>3. TypeInv' /\ REStep
  BY <1>2 DEF TypeInv, TablesTyped, DbTypes, REStep
<1>4. UNCHANGED ctvars
  BY <1>1
<1>5. ASSUME TableInv
      PROVE  TableInv' /\ Rise
  BY <1>1, <1>4, <1>5, TablesOpened DEF TableInv, OneRows
<1>6. QED
  BY <1>3, <1>5 DEF StepOK

LEMMA OpenFifoDone ==
  ASSUME TypeInv, NEW p \in Pids, NEW x \in Channels, NEW e \in {"r", "w"}, OpenFifo(p, x, e)
  PROVE  StepOK
<1>1. ProcTyped' /\ OnTyped'
  BY OpenFifoTypes DEF TypeInv
<1>2. /\ pc[p] = "idle" /\ Opened(p, x, {e}) /\ UNCHANGED <<kind, backlog>>
      /\ kind[x] = "fifo"
  BY DEF OpenFifo, At
<1>3. QED
  BY <1>1, <1>2, OpeningStep

LEMMA ConnectDone ==
  ASSUME TypeInv, NEW p \in Pids, NEW x \in Channels, Connect(p, x)
  PROVE  StepOK
<1>1. ProcTyped' /\ OnTyped'
  BY ConnectTypes DEF TypeInv
<1>2. /\ pc[p] = "idle" /\ UNCHANGED kind /\ kind[x] = "socket"
      /\ Opened(p, x, {"c"}) \/ Opened(p, x, {})
      /\ backlog' = backlog \cup {x} \/ backlog' = backlog
  BY DEF Connect, At
<1>3. QED
  BY <1>1, <1>2, OpeningStep

LEMMA AcceptDone ==
  ASSUME TypeInv, NEW p \in Pids, NEW x \in Channels, Accept(p, x)
  PROVE  StepOK
<1>1. ProcTyped' /\ OnTyped'
  BY AcceptTypes DEF TypeInv
<1>2. /\ pc[p] = "idle" /\ UNCHANGED kind /\ x \in backlog
      /\ Opened(p, x, {"s"}) /\ backlog' = backlog \ {x}
  BY DEF Accept, At
<1>3. TableInv => kind[x] = "socket"
  BY <1>2 DEF TableInv
<1>4. QED
  BY <1>1, <1>2, <1>3, OpeningStep

LEMMA OpenCheckDone ==
  ASSUME TypeInv, NEW p \in Pids, OpenCheck(p)
  PROVE  StepOK
<1> DEFINE x == on[p][1]
<1>1. /\ pc[p] = "opened" /\ Return(p) /\ UNCHANGED <<kind, backlog>>
      /\ \/ kind[x] = "pipe" /\ create_pipe_check(Sid(p), x, "allowed")
         \/ kind[x] = "fifo" /\ open_fifo_check(Sid(p), x)
         \/ kind[x] = "socket" /\ connection_check(Sid(p), x, "allowed")
  BY DEF OpenCheck, At
<1>2. ProcTyped' /\ OnTyped'
  BY OpenCheckTypes DEF TypeInv
<1>3. /\ OneMoves(p) /\ pc'[p] = "idle"
      /\ \A q \in Pids : q # p => pc'[q] = pc[q] /\ on'[q] = on[q]
  BY <1>1, ReturnMoves DEF TypeInv
<1>4. ForkInv'
  BY <1>3, OneMovesForks DEF TypeInv
<1>5. x \in Channels /\ Sid(p) \in SubjectIds
  BY <1>1, SidType DEF TypeInv, OnTyped
<1>6. CASE kind[x] = "pipe" /\ create_pipe_check(Sid(p), x, "allowed")
  <2>1. DbTypes /\ (OneRows /\ ~InTable(all_pipe_objects, x) => TablesStep({x}))
    BY <1>5, <1>6, CreateStep DEF TypeInv
  <2>2. Making(p)
    BY <1>1, <1>6 DEF Making
  <2>3. ASSUME TableInv
        PROVE  /\ OneRows => TablesStep({x})
               /\ \A q \in Pids : pc'[q] = "opened" =>
                    /\ pc[q] = "opened" /\ on'[q] = on[q]
                    /\ kind[on[q][1]] = "pipe" => on[q][1] \notin {x}
    BY <1>3, <2>1, <2>2, <2>3 DEF TableInv, Making
  <2>4. QED
    BY <1>1, <1>2, <1>4, <1>6, <2>1, <2>3, CheckStep
<1>7. CASE kind[x] = "fifo" /\ open_fifo_check(Sid(p), x)
  <2>1. DbTypes /\ (OneRows => TablesStep({x}))
    BY <1>5, <1>7, OpenFifoStep DEF TypeInv
  <2>2. \A q \in Pids : pc'[q] = "opened" =>
          /\ pc[q] = "opened" /\ on'[q] = on[q]
          /\ kind[on[q][1]] = "pipe" => on[q][1] \notin {x}
    BY <1>3, <1>7
  <2>3. QED
    BY <1>1, <1>2, <1>4, <1>7, <2>1, <2>2, CheckStep
<1>8. CASE kind[x] = "socket" /\ connection_check(Sid(p), x, "allowed")
  <2>1. DbTypes /\ (OneRows => TablesStep({}))
    BY <1>5, <1>8, ConnectionStep DEF TypeInv
  <2>2. \A q \in Pids : pc'[q] = "opened" =>
          /\ pc[q] = "opened" /\ on'[q] = on[q]
          /\ kind[on[q][1]] = "pipe" => on[q][1] \notin {}
    BY <1>3
  <2>3. QED
    BY <1>1, <1>2, <1>4, <2>1, <2>2, CheckStep
<1>9. QED
  BY <1>1, <1>6, <1>7, <1>8

LEMMA ReadDone ==
  ASSUME TypeInv, NEW p \in Pids, NEW x \in Channels, NEW e \in Ends, Read(p, x, e)
  PROVE  StepOK
<1>1. ProcTyped' /\ OnTyped'
  BY ReadTypes DEF TypeInv
<1>2. /\ pc[p] = "idle" /\ pc' = [pc EXCEPT ![p] = "read"]
      /\ on' = [on EXCEPT ![p] = <<x, {e}>>]
      /\ UNCHANGED <<revars, ctvars, kind, backlog>>
  BY DEF Read, At
<1>3. OneMoves(p)
  BY <1>2 DEF OneMoves
<1>4. ForkInv'
  BY <1>3, OneMovesForks DEF TypeInv
<1>5. \A q \in Pids : pc'[q] = "opened" => pc[q] = "opened" /\ on'[q] = on[q]
  BY <1>2 DEF TypeInv, ProcTyped, OnTyped
<1>6. QED
  BY <1>1, <1>2, <1>4, <1>5, IdleStep

LEMMA ReadCheckDone ==
  ASSUME TypeInv, NEW p \in Pids, ReadCheck(p)
  PROVE  StepOK
<1> DEFINE x == on[p][1]
<1>1. /\ pc[p] = "read" /\ Return(p) /\ UNCHANGED <<kind, backlog>>
      /\ \E ret : read_check(p, x, ret)
  BY DEF ReadCheck, At
<1>2. PICK ret : read_check(p, x, ret)
  BY <1>1
<1>3. ProcTyped' /\ OnTyped'
  BY ReadCheckTypes DEF TypeInv
<1>4. /\ OneMoves(p) /\ pc'[p] = "idle"
      /\ \A q \in Pids : q # p => pc'[q] = pc[q] /\ on'[q] = on[q]
  BY <1>1, ReturnMoves DEF TypeInv
<1>5. ForkInv'
  BY <1>4, OneMovesForks DEF TypeInv
<1>6. Sid(p) \in SubjectIds
  BY <1>1, SidType DEF TypeInv
<1>7. DbTypes /\ (OneRows => TablesStep({}))
  BY <1>2, <1>6, RecvStep, PipeReadStep DEF TypeInv, read_check
<1>8. QED
  BY <1>1, <1>3, <1>4, <1>5, <1>7, CheckStep

LEMMA WriteDone ==
  ASSUME TypeInv, NEW p \in Pids, NEW x \in Channels, NEW e \in Ends, Write(p, x, e)
  PROVE  StepOK
<1>1. ProcTyped' /\ OnTyped'
  BY WriteTypes DEF TypeInv
<1>2. /\ pc[p] = "idle" /\ \E ret : write_check(p, x, ret)
      /\ pc' = [pc EXCEPT ![p] = "write"] \/ UNCHANGED pc
      /\ on' = [on EXCEPT ![p] = <<x, {e}>>] \/ UNCHANGED on
      /\ UNCHANGED <<kind, backlog>>
  BY DEF Write, At
<1>3. OneMoves(p)
  BY <1>2 DEF OneMoves
<1>4. ForkInv'
  BY <1>3, OneMovesForks DEF TypeInv
<1>5. \A q \in Pids : pc'[q] = "opened" => pc[q] = "opened" /\ on'[q] = on[q]
  BY <1>2 DEF TypeInv, ProcTyped, OnTyped
<1>6. PICK ret : write_check(p, x, ret)
  BY <1>2
<1>7. DbTypes /\ (OneRows => TablesStep({}))
  BY <1>6, SendStep, PipeWriteStep DEF TypeInv, write_check
<1>8. QED
  BY <1>1, <1>2, <1>4, <1>5, <1>7, CheckStep

LEMMA WriteDataDone ==
  ASSUME TypeInv, NEW p \in Pids, WriteData(p)
  PROVE  StepOK
<1>1. pc[p] = "write" /\ Return(p) /\ UNCHANGED <<revars, ctvars, kind, backlog>>
  BY DEF WriteData, At
<1>2. ProcTyped' /\ OnTyped'
  BY WriteDataTypes DEF TypeInv
<1>3. /\ OneMoves(p) /\ pc'[p] = "idle"
      /\ \A q \in Pids : q # p => pc'[q] = pc[q] /\ on'[q] = on[q]
  BY <1>1, ReturnMoves DEF TypeInv
<1>4. ForkInv'
  BY <1>3, OneMovesForks DEF TypeInv
<1>5. QED
  BY <1>1, <1>2, <1>3, <1>4, IdleStep

LEMMA CloseDone ==
  ASSUME TypeInv, NEW p \in Pids, NEW x \in Channels, NEW e \in Ends, Close(p, x, e)
  PROVE  StepOK
<1>1. ProcTyped' /\ OnTyped'
  BY CloseTypes DEF TypeInv
<1>2. /\ pc[p] = "idle" /\ pc' = [pc EXCEPT ![p] = "closing"]
      /\ on' = [on EXCEPT ![p] = <<x, {e}>>] /\ UNCHANGED <<kind, backlog>>
      /\ socket_close_check(Sid(p), x) \/ pipe_close_check(Sid(p), x)
  BY DEF Close, At
<1>3. OneMoves(p)
  BY <1>2 DEF OneMoves
<1>4. ForkInv'
  BY <1>3, OneMovesForks DEF TypeInv
<1>5. \A q \in Pids : pc'[q] = "opened" => pc[q] = "opened" /\ on'[q] = on[q]
  BY <1>2 DEF TypeInv, ProcTyped, OnTyped
<1>6. DbTypes /\ (OneRows => TablesStep({}))
  BY <1>2, SocketCloseStep, PipeCloseStep DEF TypeInv
<1>7. QED
  BY <1>1, <1>2, <1>4, <1>5, <1>6, CheckStep

LEMMA CloseFdDone ==
  ASSUME TypeInv, NEW p \in Pids, CloseFd(p)
  PROVE  StepOK
<1>1. pc[p] = "closing" /\ Return(p) /\ UNCHANGED <<revars, ctvars, kind, backlog>>
  BY DEF CloseFd, At
<1>2. ProcTyped' /\ OnTyped'
  BY CloseFdTypes DEF TypeInv
<1>3. /\ OneMoves(p) /\ pc'[p] = "idle"
      /\ \A q \in Pids : q # p => pc'[q] = pc[q] /\ on'[q] = on[q]
  BY <1>1, ReturnMoves DEF TypeInv
<1>4. ForkInv'
  BY <1>3, OneMovesForks DEF TypeInv
<1>5. QED
  BY <1>1, <1>2, <1>3, <1>4, IdleStep

LEMMA ForkDone ==
  ASSUME TypeInv, NEW p \in Pids, NEW c \in Pids, Fork(p, c)
  PROVE  StepOK
<1>1. ProcTyped' /\ OnTyped' /\ ForkInv'
  BY ForkTypes, ForkForks DEF TypeInv
<1>2. /\ pc[p] = "idle" /\ pc' = [pc EXCEPT ![p] = "forkwait", ![c] = "forked"]
      /\ on' = [on EXCEPT ![c] = <<p, {}>>] /\ UNCHANGED <<revars, ctvars, kind, backlog>>
  BY DEF Fork, At
<1>3. \A q \in Pids : pc'[q] = "opened" => pc[q] = "opened" /\ on'[q] = on[q]
  BY <1>2 DEF TypeInv, ProcTyped, OnTyped
<1>4. QED
  BY <1>1, <1>2, <1>3, IdleStep

LEMMA ForkCheckDone ==
  ASSUME TypeInv, NEW c \in Pids, ForkCheck(c)
  PROVE  StepOK
<1> DEFINE p == on[c][1]
<1>1. ProcTyped' /\ OnTyped' /\ ForkInv'
  BY ForkCheckTypes, ForkCheckForks DEF TypeInv
<1>2. /\ pc[c] = "forked" /\ pc' = [pc EXCEPT ![c] = "idle", ![p] = "idle"]
      /\ on' = [on EXCEPT ![c] = Nowhere] /\ UNCHANGED <<kind, backlog>>
      /\ fork_check_and_copy(uid[c], c, p)
  BY DEF ForkCheck, At
<1>3. uid[c] \in Users
  BY <1>2, SidType DEF TypeInv
<1> HIDE DEF p
<1>4. \A q \in Pids : pc'[q] = "opened" => pc[q] = "opened" /\ on'[q] = on[q]
  BY <1>2 DEF TypeInv, ProcTyped, OnTyped
<1>5. DbTypes /\ (OneRows => TablesStep({}))
  BY <1>2, <1>3, ForkCopyStep DEF TypeInv
<1>6. UNCHANGED <<kind, backlog>>
  BY <1>2
<1>7. QED
  BY <1>1, <1>4, <1>5, <1>6, CheckStep

LEMMA ExitDone ==
  ASSUME TypeInv, NEW p \in Pids, Exit(p)
  PROVE  StepOK
<1>1. ProcTyped' /\ OnTyped'
  BY ExitTypes DEF TypeInv
<1>2. /\ pc[p] \notin {"forked", "forkwait"} /\ pc' = [pc EXCEPT ![p] = "free"]
      /\ on' = [on EXCEPT ![p] = Nowhere] /\ UNCHANGED <<revars, ctvars, kind, backlog>>
  BY DEF Exit
<1>3. OneMoves(p)
  BY <1>2 DEF OneMoves
<1>4. ForkInv'
  BY <1>3, OneMovesForks DEF TypeInv
<1>5. \A q \in Pids : pc'[q] = "opened" => pc[q] = "opened" /\ on'[q] = on[q]
  BY <1>2 DEF TypeInv, ProcTyped, OnTyped
<1>6. QED
  BY <1>1, <1>2, <1>4, <1>5, IdleStep

LEMMA ReadFileDone ==
  ASSUME TypeInv, NEW p \in Pids, NEW f \in Files, ReadFile(p, f)
  PROVE  StepOK
<1>1. ProcTyped' /\ OnTyped'
  BY ReadFileTypes DEF TypeInv
<1>2. /\ pc[p] = "idle" /\ file_read_check(Sid(p), f, "allowed")
      /\ UNCHANGED <<ctvars, kind, pc, on, backlog>>
  BY DEF ReadFile, At
<1>3. ForkInv'
  BY <1>2 DEF TypeInv, ForkInv
<1>4. REStep
  BY <1>2, SidType, ReadStep DEF TypeInv, TablesTyped
<1>5. DbTypes
  BY <1>2, <1>4, TablesIdle DEF TypeInv, DbTypes
<1>6. UNCHANGED <<all_pipe_objects, all_socket_connections>>
  BY <1>2 DEF ctvars
<1>7. OneRows => TablesStep({})
  BY <1>6, SameTables
<1>8. QED
  BY <1>1, <1>2, <1>3, <1>5, <1>7, CheckStep

\* What a read or write of a socket leaves alone.
LEMMA SocketMove ==
  ASSUME TypeInv, NEW p \in Pids, NEW x, NEW e, ReadSocket(p, x, e) \/ WriteSocket(p, x, e)
  PROVE  /\ pc[p] = "idle" /\ \A q \in Pids : q # p => know'[q] = know[q]
         /\ UNCHANGED <<revars, ctvars, kind, pc, uid, on, buf, fds, backlog>>
<1>1. /\ pc[p] = "idle"
      /\ UNCHANGED <<revars, ctvars, kind, pc, uid, on, buf, fds, backlog>>
      /\ know' = [know EXCEPT ![p] = @ \cup data[x][e]] \/ UNCHANGED know
  BY DEF ReadSocket, WriteSocket, At
<1>2. QED
  BY <1>1 DEF TypeInv, ProcTyped

LEMMA SocketDone ==
  ASSUME TypeInv, NEW p \in Pids, NEW x \in Channels, NEW e \in {"c", "s"},
         ReadSocket(p, x, e) \/ WriteSocket(p, x, e)
  PROVE  StepOK
<1>1. ProcTyped' /\ OnTyped'
  BY ReadSocketTypes, WriteSocketTypes DEF TypeInv
<1>2. UNCHANGED <<revars, ctvars, kind, pc, on, backlog>>
  BY SocketMove
<1>3. ForkInv'
  BY <1>2 DEF TypeInv, ForkInv
<1>4. QED
  BY <1>1, <1>2, <1>3, IdleStep

LEMMA NextDone ==
  ASSUME TypeInv, [Next]_vars
  PROVE  StepOK
<1>1. CASE Next
  BY <1>1, PipeStep, OpenFifoDone, ConnectDone, AcceptDone, OpenCheckDone, ReadDone,
     ReadCheckDone, WriteDone, WriteDataDone, CloseDone, CloseFdDone, ForkDone,
     ForkCheckDone, ExitDone, ReadFileDone, SocketDone DEF Next
<1>2. CASE UNCHANGED vars
  <2>1. /\ UNCHANGED <<revars, ctvars, kind, pc, uid, on, know, buf, fds, data, backlog>>
    BY <1>2 DEF vars
  <2>2. ProcTyped' /\ OnTyped' /\ ForkInv'
    BY <2>1 DEF TypeInv, ProcTyped, OnTyped, ForkInv
  <2>3. QED
    BY <2>1, <2>2, IdleStep
<1>3. QED
  BY <1>1, <1>2

\* What has slipped by stays noted.
LEMMA SlipsGrow ==
  ASSUME [Next]_vars
  PROVE  slips' \in {slips, slips \cup {"read"}, slips \cup {"write"}}
<1>1. ASSUME NEW p \in Pids, NEW x \in Channels,
             Pipe(p, x) \/ Connect(p, x) \/ Accept(p, x) \/ \E e \in {"r", "w"} : OpenFifo(p, x, e)
      PROVE  UNCHANGED slips
  BY <1>1 DEF Pipe, Connect, Accept, OpenFifo, Opened
<1>2. ASSUME NEW p \in Pids, NEW x \in Channels, NEW e \in Ends,
             Read(p, x, e) \/ Write(p, x, e) \/ Close(p, x, e)
      PROVE  UNCHANGED slips
  BY <1>2 DEF Read, Write, Close
<1>3. ASSUME NEW p \in Pids, OpenCheck(p) \/ ReadCheck(p) \/ WriteData(p) \/ CloseFd(p)
      PROVE  UNCHANGED slips
  BY <1>3 DEF OpenCheck, ReadCheck, WriteData, CloseFd
<1>4. ASSUME NEW p \in Pids, NEW c \in Pids, Fork(p, c) \/ ForkCheck(c) \/ Exit(c)
      PROVE  UNCHANGED slips
  BY <1>4 DEF Fork, ForkCheck, Exit
<1>5. ASSUME NEW p \in Pids, NEW f \in Files, ReadFile(p, f)
      PROVE  UNCHANGED slips
  BY <1>5 DEF ReadFile
<1>6. ASSUME NEW p \in Pids, NEW x \in Channels, NEW e \in {"c", "s"},
             ReadSocket(p, x, e) \/ WriteSocket(p, x, e)
      PROVE  slips' \in {slips, slips \cup {"read"}, slips \cup {"write"}}
  BY <1>6 DEF ReadSocket, WriteSocket
<1>7. QED
  BY <1>1, <1>2, <1>3, <1>4, <1>5, <1>6 DEF Next, vars

LEMMA InitTypes == Init => TypeInv /\ TableInv
<1> SUFFICES ASSUME Init
             PROVE  TypeInv /\ TableInv
  OBVIOUS
<1>1. \A p \in Workers : p \in Pids /\ WorkerUser[p] \in Users
  BY ChannelAssumption
<1>2. REInv
  <2>1. /\ DOMAIN subjects = {<<WorkerUser[p], p>> : p \in Workers}
        /\ \A s \in DOMAIN subjects : subjects[s] = DefaultSubject(s[1])
        /\ subjects = [s \in DOMAIN subjects |-> subjects[s]]
    BY DEF Init
  <2>2. \A s \in DOMAIN subjects : s \in SubjectIds /\ s[1] \in Users
    BY <1>1, <2>1 DEF SubjectIds
  <2>3. \A s \in DOMAIN subjects : subjects[s] \in SubjectRow
    BY <2>1, <2>2, DefaultRow
  <2>4. subjects \in [DOMAIN subjects -> SubjectRow] /\ DOMAIN subjects \subseteq SubjectIds
    BY <2>1, <2>2, <2>3
  <2>5. DOMAIN objects = Files /\ \A f \in Files : objects[f] = InferredObject(f)
    BY DEF Init
  <2>6. objects \in [DOMAIN objects -> ObjectRow]
    BY InferredObjectType DEF Init
  <2>7. RETypeOK
    BY <2>4, <2>5, <2>6 DEF RETypeOK, Init
  <2>8. OwnerKeepsAccess
    <3>1. ASSUME NEW s \in DOMAIN subjects
          PROVE  subjects[s].owner = s[1] /\ s[1] \in subjects[s].readers \cap subjects[s].writers
      <4>1. subjects[s] = [owner |-> s[1], readers |-> Users, writers |-> {s[1]}]
        BY <2>1 DEF DefaultSubject
      <4>2. QED
        BY <2>2, <4>1
    <3>2. QED
      BY <3>1 DEF OwnerKeepsAccess
  <2>9. QED
    BY <2>5, <2>7, <2>8 DEF REInv, ObjectsInferred
<1>3. TablesTyped
  BY <1>2 DEF Init, TablesTyped, CTTypeOK, PeersKnown
<1>4. ProcTyped
  <2>1. kind \in [Channels -> ChannelKinds \cup {"unmade"}]
    <3>1. {IF k = "pipe" THEN "unmade" ELSE k : k \in Kinds} \subseteq ChannelKinds \cup {"unmade"}
      BY ChannelAssumption
    <3>2. QED
      BY <3>1 DEF Init
  <2>2. pc \in [Pids -> Calls]
    BY DEF Init, Calls
  <2>3. uid \in [Pids -> Users \cup {NoUser}]
    BY <1>1 DEF Init
  <2>4. know \in [Pids -> SUBSET Files] /\ buf \in [Pids -> SUBSET Files]
    BY DEF Init
  <2>5. fds \in [Pids -> SUBSET (Channels \X Ends)]
    BY DEF Init
  <2>6. data \in [Channels -> [Ends -> SUBSET Files]] /\ backlog \subseteq Channels
    BY DEF Init
  <2>7. QED
    BY <2>1, <2>2, <2>3, <2>4, <2>5, <2>6 DEF ProcTyped
<1>5. OnTyped
  <2>1. on \in [Pids -> (Channels \cup Pids \cup {InitProc}) \X SUBSET Ends]
    BY DEF Init, Nowhere
  <2>2. \A p \in Pids : pc[p] # "free" => uid[p] \in Users
    BY <1>1 DEF Init
  <2>3. \A p \in Pids : pc[p] \in {"idle", "free"}
    BY DEF Init
  <2>4. QED
    BY <2>1, <2>2, <2>3 DEF OnTyped
<1>6. ForkInv
  BY DEF Init, ForkInv
<1>7. TableInv
  BY DEF Init, TableInv, OneRowEach, InTable, Making
<1>8. QED
  BY <1>3, <1>4, <1>5, <1>6, <1>7 DEF TypeInv

(***************************************************************************)
(* The server's tables of pipes, sockets and mappings and the calls of the *)
(* processes are well formed in every state: the rows that the checks of   *)
(* open, close, read, write, fork and accept leave behind are rows again,  *)
(* with labels of users.                                                   *)
(***************************************************************************)
THEOREM ChannelTypes == Spec => []TypeOK
<1> DEFINE Slipped == slips \subseteq {"read", "write"}
<1>1. TypeInv /\ [Next]_vars => TypeInv'
  BY NextDone DEF StepOK
<1>2. Slipped /\ [Next]_vars => Slipped'
  BY SlipsGrow
<1>3. Init => Slipped
  BY DEF Init
<1>4. TypeInv /\ Slipped => TypeOK
  BY DEF TypeInv, TablesTyped, REInv, ProcTyped, Calls, TypeOK
<1>5. QED
  BY InitTypes, <1>1, <1>2, <1>3, <1>4, PTL DEF Spec

(***************************************************************************)
(* A channel has at most one row, in the table of its kind, whichever      *)
(* processes open and close it in between: the checks look for a row       *)
(* before they add one, and only the process that called pipe() adds the   *)
(* row of its pipe.                                                        *)
(***************************************************************************)
THEOREM ChannelInvariant == Spec => [](TypeInv /\ TableInv)
<1>1. TypeInv /\ TableInv /\ [Next]_vars => TypeInv' /\ TableInv'
  BY NextDone DEF StepOK
<1>2. QED
  BY InitTypes, <1>1, PTL DEF Spec

(***************************************************************************)
(* The label of a pipe, fifo or socket only rises while it has a row: no   *)
(* read, write, fork or close takes a reader back in, or drops a writer,   *)
(* even while the rows move in their tables.                               *)
(***************************************************************************)
THEOREM ChannelLabelsRise == Spec => ChannelLabelsOnlyRise
<1> DEFINE Risen == /\ RowsRise(all_pipe_objects, all_pipe_objects')
                    /\ RowsRise(all_socket_connections, all_socket_connections')
<1>1. TypeInv /\ TableInv /\ [Next]_vars => [Risen]_ctvars
  <2> SUFFICES ASSUME TypeInv, TableInv, [Next]_vars
               PROVE  Risen
    OBVIOUS
  <2>1. TypeInv' /\ Rise
    BY NextDone DEF StepOK
  <2>2. /\ all_pipe_objects \in Seq(ChannelRow) /\ all_pipe_objects' \in Seq(ChannelRow)
        /\ all_socket_connections \in Seq(ConnectionRow)
        /\ all_socket_connections' \in Seq(ConnectionRow)
    BY <2>1 DEF TypeInv, TablesTyped, CTTypeOK
  <2>3. QED
    BY <2>1, <2>2, TableStepRises DEF Rise, TableInv
<1>2. QED
  BY ChannelInvariant, <1>1, PTL DEF Spec, ChannelLabelsOnlyRise

-----------------------------------------------------------------------------
(* The calls *)

(***************************************************************************)
(* The calls: what they are about is open, and who makes them has a row;   *)
(* a child that has none yet is a copy of the parent that waits for it.    *)
(***************************************************************************)
CallInv(p) ==
  /\ pc[p] = "free" => fds[p] = {} /\ know[p] = {}
  /\ pc[p] \notin {"read", "write"} => buf[p] = {}
  /\ pc[p] \notin {"free", "forked"} => Sid(p) \in DOMAIN subjects
  /\ pc[p] = "forked" =>
       /\ \A u \in Users : <<u, p>> \notin DOMAIN subjects
       /\ uid[p] = uid[on[p][1]] /\ fds[p] = fds[on[p][1]] /\ know[p] = know[on[p][1]]
  /\ \A d \in fds[p] : kind[d[1]] # "unmade"
  /\ pc[p] \in {"opened", "read", "write", "closing"} =>
       \A e \in on[p][2] : <<on[p][1], e>> \in fds[p]
  /\ pc[p] = "opened" =>
       /\ kind[on[p][1]] = "pipe" => on[p][2] = {"r", "w"}
       /\ kind[on[p][1]] = "fifo" => \E e \in Ends : on[p][2] = {e}
       /\ IsPipe(on[p][1]) =>
            \A e \in Ends : <<on[p][1], e>> \in fds[p] => e \in on[p][2]
  /\ pc[p] \in {"read", "write", "closing"} => \E e \in Ends : on[p][2] = {e}

CallsInv == \A p \in Pids : CallInv(p)

\* What a step of p leaves alone.
Others(p) ==
  \A q \in Pids : q # p =>
    /\ pc'[q] = pc[q] /\ uid'[q] = uid[q] /\ on'[q] = on[q]
    /\ know'[q] = know[q] /\ buf'[q] = buf[q] /\ fds'[q] = fds[q]

\* What a name stands for does not change once it is made.
KindsStay == \A x : kind[x] # "unmade" => kind'[x] = kind[x]

LEMMA CallKept ==
  ASSUME TypeInv, TableInv, CallsInv, NEW q \in Pids,
         pc'[q] = pc[q], uid'[q] = uid[q], on'[q] = on[q],
         know'[q] = know[q], buf'[q] = buf[q], fds'[q] = fds[q],
         DOMAIN subjects \subseteq DOMAIN subjects', KindsStay,
         pc[q] = "forked" =>
           /\ \A u \in Users : <<u, q>> \notin DOMAIN subjects'
           /\ uid'[on[q][1]] = uid[on[q][1]] /\ fds'[on[q][1]] = fds[on[q][1]]
           /\ know'[on[q][1]] = know[on[q][1]]
  PROVE  CallInv(q)'
<1>1. CallInv(q)
  BY DEF CallsInv
<1>2. /\ pc'[q] = "free" => fds'[q] = {} /\ know'[q] = {}
      /\ pc'[q] \notin {"read", "write"} => buf'[q] = {}
      /\ pc'[q] \in {"opened", "read", "write", "closing"} =>
           \A e \in on'[q][2] : <<on'[q][1], e>> \in fds'[q]
      /\ pc'[q] \in {"read", "write", "closing"} => \E e \in Ends : on'[q][2] = {e}
  BY <1>1 DEF CallInv
<1>3. pc'[q] \notin {"free", "forked"} => Sid(q)' \in DOMAIN subjects'
  BY <1>1 DEF CallInv, Sid
<1>4. pc'[q] = "forked" =>
        /\ \A u \in Users : <<u, q>> \notin DOMAIN subjects'
        /\ uid'[q] = uid'[on'[q][1]] /\ fds'[q] = fds'[on'[q][1]]
        /\ know'[q] = know'[on'[q][1]]
  BY <1>1 DEF CallInv
<1>5. \A d \in fds'[q] : kind'[d[1]] # "unmade"
  BY <1>1 DEF CallInv, KindsStay
<1>6. pc'[q] = "opened" =>
        /\ kind'[on'[q][1]] = "pipe" => on'[q][2] = {"r", "w"}
        /\ kind'[on'[q][1]] = "fifo" => \E e \in Ends : on'[q][2] = {e}
        /\ IsPipe(on[q][1])' =>
             \A e \in Ends : <<on'[q][1], e>> \in fds'[q] => e \in on'[q][2]
  <2>1. pc'[q] = "opened" => kind'[on'[q][1]] = kind[on[q][1]]
    BY DEF TableInv, KindsStay
  <2>2. QED
    BY <1>1, <2>1 DEF CallInv, IsPipe
<1>7. QED
  BY <1>2, <1>3, <1>4, <1>5, <1>6 DEF CallInv

LEMMA OthersKept ==
  ASSUME TypeInv, TableInv, CallsInv, NEW p \in Pids, Others(p), pc[p] # "forkwait",
         DOMAIN subjects' = DOMAIN subjects, KindsStay, CallInv(p)'
  PROVE  CallsInv'
<1>1. ASSUME NEW q \in Pids, q # p
      PROVE  CallInv(q)'
  <2>1. pc[q] = "forked" =>
          /\ on[q][1] \in Pids /\ on[q][1] # p
          /\ \A u \in Users : <<u, q>> \notin DOMAIN subjects'
    BY DEF TypeInv, ForkInv, CallsInv, CallInv
  <2>2. pc[q] = "forked" =>
           /\ uid'[on[q][1]] = uid[on[q][1]] /\ fds'[on[q][1]] = fds[on[q][1]]
           /\ know'[on[q][1]] = know[on[q][1]]
    BY <2>1 DEF Others
  <2>3. /\ pc'[q] = pc[q] /\ uid'[q] = uid[q] /\ on'[q] = on[q]
        /\ know'[q] = know[q] /\ buf'[q] = buf[q] /\ fds'[q] = fds[q]
    BY <1>1 DEF Others
  <2>4. QED
    BY <2>1, <2>2, <2>3, CallKept
<1>2. QED
  BY <1>1 DEF CallsInv

-----------------------------------------------------------------------------
(* What each step does to the processes *)

\* A process opens x, returns from a call, or goes into one.
OpenedAs(p, x, ends) ==
  /\ Others(p) /\ UNCHANGED <<revars, ctvars, data>>
  /\ pc[p] = "idle" /\ pc'[p] = "opened" /\ on'[p] = <<x, ends>>
  /\ \A d : d \in fds'[p] <=> d \in fds[p] \/ \E e \in ends : d = <<x, e>>
  /\ uid'[p] = uid[p] /\ know'[p] = know[p] /\ buf'[p] = buf[p]

LEMMA OpenedMove ==
  ASSUME TypeInv, NEW p \in Pids, NEW x, NEW ends, Opened(p, x, ends), pc[p] = "idle"
  PROVE  OpenedAs(p, x, ends)
<1>1. /\ fds' = [fds EXCEPT ![p] = @ \cup ({x} \X ends)]
      /\ pc' = [pc EXCEPT ![p] = "opened"]
      /\ on' = [on EXCEPT ![p] = <<x, ends>>]
      /\ UNCHANGED <<revars, ctvars, uid, know, buf, data>>
  BY DEF Opened
<1>2. Others(p)
  BY <1>1 DEF Others, TypeInv, ProcTyped, OnTyped
<1>3. fds'[p] = fds[p] \cup ({x} \X ends)
  BY <1>1 DEF TypeInv, ProcTyped
<1>4. \A d : d \in fds'[p] <=> d \in fds[p] \/ \E e \in ends : d = <<x, e>>
  BY <1>3
<1>5. pc'[p] = "opened" /\ on'[p] = <<x, ends>>
  BY <1>1 DEF TypeInv, ProcTyped, OnTyped
<1>6. QED
  BY <1>1, <1>2, <1>4, <1>5 DEF OpenedAs

ReturnedAs(p) == /\ pc'[p] = "idle" /\ on'[p] = Nowhere /\ buf'[p] = {}
                 /\ \A q \in Pids : q # p => /\ pc'[q] = pc[q] /\ on'[q] = on[q]
                                             /\ buf'[q] = buf[q]

LEMMA ReturnMove ==
  ASSUME TypeInv, NEW p \in Pids, Return(p)
  PROVE  ReturnedAs(p)
  BY DEF Return, ReturnedAs, TypeInv, ProcTyped, OnTyped

CalledAs(p, call, x, e) ==
  /\ pc'[p] = call /\ on'[p] = <<x, {e}>>
  /\ \A q \in Pids : q # p => pc'[q] = pc[q] /\ on'[q] = on[q]

LEMMA CalledMove ==
  ASSUME TypeInv, NEW p \in Pids, NEW call, NEW x, NEW e,
         pc' = [pc EXCEPT ![p] = call], on' = [on EXCEPT ![p] = <<x, {e}>>]
  PROVE  CalledAs(p, call, x, e)
  BY DEF CalledAs, TypeInv, ProcTyped, OnTyped

LEMMA OpenCheckMove ==
  ASSUME TypeInv, NEW p \in Pids, OpenCheck(p)
  PROVE  /\ pc[p] = "opened" /\ ReturnedAs(p) /\ Others(p)
         /\ UNCHANGED <<kind, uid, know, fds, data, backlog>>
<1>1. pc[p] = "opened" /\ Return(p) /\ UNCHANGED <<kind, uid, know, fds, data, backlog>>
  BY DEF OpenCheck, At
<1>2. ReturnedAs(p)
  BY <1>1, ReturnMove
<1>3. QED
  BY <1>1, <1>2 DEF Others, ReturnedAs

LEMMA ReadMove ==
  ASSUME TypeInv, NEW p \in Pids, NEW x, NEW e, Read(p, x, e)
  PROVE  /\ pc[p] = "idle" /\ CalledAs(p, "read", x, e) /\ Others(p)
         /\ buf'[p] = data[x][e]
         /\ UNCHANGED <<revars, ctvars, kind, uid, know, fds, data, backlog>>
<1>1. /\ pc[p] = "idle" /\ pc' = [pc EXCEPT ![p] = "read"]
      /\ on' = [on EXCEPT ![p] = <<x, {e}>>]
      /\ buf' = [buf EXCEPT ![p] = data[x][e]]
      /\ UNCHANGED <<revars, ctvars, kind, uid, know, fds, data, backlog>>
  BY DEF Read, At
<1>2. CalledAs(p, "read", x, e)
  BY <1>1, CalledMove
<1>3. buf'[p] = data[x][e] /\ \A q \in Pids : q # p => buf'[q] = buf[q]
  BY <1>1 DEF TypeInv, ProcTyped
<1>4. QED
  BY <1>1, <1>2, <1>3 DEF Others, CalledAs

LEMMA ReadCheckMove ==
  ASSUME TypeInv, NEW p \in Pids, ReadCheck(p)
  PROVE  /\ pc[p] = "read" /\ ReturnedAs(p) /\ Others(p)
         /\ \/ /\ read_check(p, on[p][1], "allowed")
               /\ know'[p] = know[p] \cup buf[p]
            \/ /\ \E ret \in {"denied", "error", "stopped"} : read_check(p, on[p][1], ret)
               /\ know'[p] = know[p]
         /\ UNCHANGED <<kind, uid, fds, data, backlog>>
<1>1. pc[p] = "read" /\ Return(p) /\ UNCHANGED <<kind, uid, fds, data, backlog>>
  BY DEF ReadCheck, At
<1>2. ReturnedAs(p)
  BY <1>1, ReturnMove
<1>3. \/ /\ read_check(p, on[p][1], "allowed")
         /\ know' = [know EXCEPT ![p] = @ \cup buf[p]]
      \/ /\ \E ret \in {"denied", "error", "stopped"} : read_check(p, on[p][1], ret)
         /\ UNCHANGED know
  BY DEF ReadCheck
<1>4. \A q \in Pids : q # p => know'[q] = know[q]
  BY <1>3 DEF TypeInv, ProcTyped
<1>5. know' = [know EXCEPT ![p] = @ \cup buf[p]] => know'[p] = know[p] \cup buf[p]
  BY DEF TypeInv, ProcTyped
<1>6. QED
  BY <1>1, <1>2, <1>3, <1>4, <1>5 DEF Others, ReturnedAs

LEMMA WriteMove ==
  ASSUME TypeInv, NEW p \in Pids, NEW x, NEW e, Write(p, x, e)
  PROVE  /\ pc[p] = "idle" /\ Others(p)
         /\ \/ /\ write_check(p, x, "allowed") /\ CalledAs(p, "write", x, e)
               /\ buf'[p] = know[p]
            \/ /\ write_check(p, x, "error") \/ write_check(p, x, "stopped")
               /\ UNCHANGED <<pc, on, buf>>
         /\ UNCHANGED <<kind, uid, know, fds, data, backlog>>
<1>1. pc[p] = "idle" /\ UNCHANGED <<kind, uid, know, fds, data, backlog>>
  BY DEF Write, At
<1>2. CASE /\ write_check(p, x, "allowed")
           /\ pc' = [pc EXCEPT ![p] = "write"]
           /\ on' = [on EXCEPT ![p] = <<x, {e}>>]
           /\ buf' = [buf EXCEPT ![p] = know[p]]
  <2>1. CalledAs(p, "write", x, e)
    BY <1>2, CalledMove
  <2>2. buf'[p] = know[p] /\ \A q \in Pids : q # p => buf'[q] = buf[q]
    BY <1>2 DEF TypeInv, ProcTyped
  <2>3. QED
    BY <1>1, <1>2, <2>1, <2>2 DEF Others, CalledAs
<1>3. CASE /\ write_check(p, x, "error") \/ write_check(p, x, "stopped")
           /\ UNCHANGED <<pc, on, buf>>
  BY <1>1, <1>3 DEF Others
<1>4. QED
  BY <1>2, <1>3 DEF Write

LEMMA WriteDataMove ==
  ASSUME TypeInv, NEW p \in Pids, WriteData(p)
  PROVE  /\ pc[p] = "write" /\ ReturnedAs(p) /\ Others(p)
         /\ UNCHANGED <<revars, ctvars, kind, uid, know, fds, backlog>>
<1>1. pc[p] = "write" /\ Return(p) /\ UNCHANGED <<revars, ctvars, kind, uid, know, fds, backlog>>
  BY DEF WriteData, At
<1>2. ReturnedAs(p)
  BY <1>1, ReturnMove
<1>3. QED
  BY <1>1, <1>2 DEF Others, ReturnedAs

LEMMA CloseMove ==
  ASSUME TypeInv, NEW p \in Pids, NEW x, NEW e, Close(p, x, e)
  PROVE  /\ pc[p] = "idle" /\ CalledAs(p, "closing", x, e) /\ Others(p)
         /\ UNCHANGED <<kind, uid, know, buf, fds, data, backlog>>
<1>1. /\ pc[p] = "idle" /\ pc' = [pc EXCEPT ![p] = "closing"]
      /\ on' = [on EXCEPT ![p] = <<x, {e}>>]
      /\ UNCHANGED <<kind, uid, know, buf, fds, data, backlog>>
  BY DEF Close, At
<1>2. CalledAs(p, "closing", x, e)
  BY <1>1, CalledMove
<1>3. QED
  BY <1>1, <1>2 DEF Others, CalledAs

LEMMA CloseFdMove ==
  ASSUME TypeInv, NEW p \in Pids, CloseFd(p)
  PROVE  /\ pc[p] = "closing" /\ ReturnedAs(p) /\ Others(p)
         /\ \A d : d \in fds'[p] <=> d \in fds[p] /\ ~(\E e \in on[p][2] : d = <<on[p][1], e>>)
         /\ data' = Remaining(fds')
         /\ UNCHANGED <<revars, ctvars, kind, uid, know, backlog>>
<1>1. /\ pc[p] = "closing" /\ Return(p) /\ UNCHANGED <<revars, ctvars, kind, uid, know, backlog>>
      /\ fds' = [fds EXCEPT ![p] = @ \ ({on[p][1]} \X on[p][2])]
      /\ data' = Remaining(fds')
  BY DEF CloseFd, At
<1>2. ReturnedAs(p)
  BY <1>1, ReturnMove
<1>3. /\ fds'[p] = fds[p] \ ({on[p][1]} \X on[p][2])
      /\ \A q \in Pids : q # p => fds'[q] = fds[q]
  BY <1>1 DEF TypeInv, ProcTyped
<1>4. \A d : d \in fds'[p] <=> d \in fds[p] /\ ~(\E e \in on[p][2] : d = <<on[p][1], e>>)
  BY <1>3
<1>5. QED
  BY <1>1, <1>2, <1>3, <1>4 DEF Others, ReturnedAs

LEMMA ForkMove ==
  ASSUME TypeInv, NEW p \in Pids, NEW c \in Pids, Fork(p, c)
  PROVE  /\ p # c /\ p \in Forkers /\ pc[p] = "idle" /\ pc[c] = "free"
         /\ \A u \in Users : <<u, c>> \notin DOMAIN subjects
         /\ pc'[p] = "forkwait" /\ pc'[c] = "forked" /\ on'[c] = <<p, {}>>
         /\ on'[p] = on[p] /\ uid'[p] = uid[p] /\ know'[p] = know[p] /\ fds'[p] = fds[p]
         /\ uid'[c] = uid[p] /\ know'[c] = know[p] /\ fds'[c] = fds[p]
         /\ \A q \in Pids : q # p /\ q # c =>
              /\ pc'[q] = pc[q] /\ uid'[q] = uid[q] /\ on'[q] = on[q]
              /\ know'[q] = know[q] /\ fds'[q] = fds[q]
         /\ UNCHANGED <<revars, ctvars, kind, buf, data, backlog>>
<1>1. /\ p \in Forkers /\ pc[p] = "idle" /\ pc[c] = "free"
      /\ \A u \in Users : <<u, c>> \notin DOMAIN subjects
      /\ pc' = [pc EXCEPT ![p] = "forkwait", ![c] = "forked"]
      /\ on' = [on EXCEPT ![c] = <<p, {}>>]
      /\ uid' = [uid EXCEPT ![c] = uid[p]]
      /\ know' = [know EXCEPT ![c] = know[p]]
      /\ fds' = [fds EXCEPT ![c] = fds[p]]
      /\ UNCHANGED <<revars, ctvars, kind, buf, data, backlog>>
  BY DEF Fork, At
<1>2. p # c
  BY <1>1
<1>3. /\ pc'[p] = "forkwait" /\ pc'[c] = "forked"
      /\ \A q \in Pids : q # p /\ q # c => pc'[q] = pc[q]
  BY <1>1, <1>2 DEF TypeInv, ProcTyped
<1>4. on'[c] = <<p, {}>> /\ \A q \in Pids : q # c => on'[q] = on[q]
  BY <1>1 DEF TypeInv, OnTyped
<1>5. /\ uid'[c] = uid[p] /\ know'[c] = know[p] /\ fds'[c] = fds[p]
      /\ \A q \in Pids : q # c => /\ uid'[q] = uid[q] /\ know'[q] = know[q]
                                  /\ fds'[q] = fds[q]
  BY <1>1 DEF TypeInv, ProcTyped
<1>6. QED
  BY <1>1, <1>2, <1>3, <1>4, <1>5

LEMMA ForkCheckMove ==
  ASSUME TypeInv, NEW c \in Pids, ForkCheck(c), NEW p, p = on[c][1]
  PROVE  /\ p \in Pids /\ p # c /\ pc[p] = "forkwait" /\ pc[c] = "forked"
         /\ fork_check_and_copy(uid[c], c, p)
         /\ pc'[p] = "idle" /\ pc'[c] = "idle" /\ on'[c] = Nowhere
         /\ \A q \in Pids : q # p /\ q # c => pc'[q] = pc[q]
         /\ \A q \in Pids : q # c => on'[q] = on[q]
         /\ UNCHANGED <<kind, uid, know, buf, fds, data, backlog>>
<1>1. /\ pc[c] = "forked" /\ pc' = [pc EXCEPT ![c] = "idle", ![p] = "idle"]
      /\ on' = [on EXCEPT ![c] = Nowhere]
      /\ fork_check_and_copy(uid[c], c, p)
      /\ UNCHANGED <<kind, uid, know, buf, fds, data, backlog>>
  BY DEF ForkCheck, At
<1>2. p \in Pids /\ pc[p] = "forkwait"
  BY <1>1 DEF TypeInv, ForkInv
<1>3. p # c
  BY <1>1, <1>2
<1>4. /\ pc'[p] = "idle" /\ pc'[c] = "idle"
      /\ \A q \in Pids : q # p /\ q # c => pc'[q] = pc[q]
  BY <1>1, <1>2, <1>3 DEF TypeInv, ProcTyped
<1>5. on'[c] = Nowhere /\ \A q \in Pids : q # c => on'[q] = on[q]
  BY <1>1 DEF TypeInv, OnTyped
<1>6. QED
  BY <1>1, <1>2, <1>3, <1>4, <1>5

LEMMA ExitMove ==
  ASSUME TypeInv, NEW p \in Pids, Exit(p)
  PROVE  /\ pc[p] \notin {"free", "forked", "forkwait"} /\ Others(p)
         /\ pc'[p] = "free" /\ on'[p] = Nowhere /\ know'[p] = {} /\ buf'[p] = {}
         /\ fds'[p] = {}
         /\ data' = Remaining(fds') /\ UNCHANGED <<revars, ctvars, kind, backlog>>
<1>1. /\ pc[p] \notin {"free", "forked", "forkwait"}
      /\ pc' = [pc EXCEPT ![p] = "free"] /\ on' = [on EXCEPT ![p] = Nowhere]
      /\ uid' = [uid EXCEPT ![p] = NoUser] /\ know' = [know EXCEPT ![p] = {}]
      /\ buf' = [buf EXCEPT ![p] = {}] /\ fds' = [fds EXCEPT ![p] = {}]
      /\ data' = Remaining(fds') /\ UNCHANGED <<revars, ctvars, kind, backlog>>
  BY DEF Exit
<1>2. Others(p)
  BY <1>1 DEF Others, TypeInv, ProcTyped, OnTyped
<1>3. QED
  BY <1>1, <1>2 DEF TypeInv, ProcTyped, OnTyped

LEMMA ReadFileMove ==
  ASSUME TypeInv, NEW p \in Pids, NEW f, ReadFile(p, f)
  PROVE  /\ pc[p] = "idle" /\ Others(p) /\ know'[p] = know[p] \cup {f}
         /\ file_read_check(Sid(p), f, "allowed")
         /\ UNCHANGED <<ctvars, kind, pc, uid, on, buf, fds, data, backlog>>
<1>1. /\ pc[p] = "idle" /\ file_read_check(Sid(p), f, "allowed")
      /\ know' = [know EXCEPT ![p] = @ \cup {f}]
      /\ UNCHANGED <<ctvars, kind, pc, uid, on, buf, fds, data, backlog>>
  BY DEF ReadFile, At
<1>2. know'[p] = know[p] \cup {f} /\ \A q \in Pids : q # p => know'[q] = know[q]
  BY <1>1 DEF TypeInv, ProcTyped
<1>3. QED
  BY <1>1, <1>2 DEF Others

-----------------------------------------------------------------------------
(* No check but that of a fork adds a row of a process. *)

LEMMA CheckDomain ==
  ASSUME NEW s, NEW x, NEW ret,
         \/ create_pipe_check(s, x, ret) \/ open_fifo_check(s, x)
         \/ connection_check(s, x, ret)
         \/ pipe_read_check(s, x, ret) \/ recv_check(s, x, ret)
         \/ pipe_write_check(s, x, ret) \/ send_check(s, x, ret)
         \/ pipe_close_check(s, x) \/ socket_close_check(s, x)
         \/ file_read_check(s, x, ret)
  PROVE  DOMAIN subjects' = DOMAIN subjects
<1>1. CASE \/ create_pipe_check(s, x, ret) \/ open_fifo_check(s, x)
           \/ connection_check(s, x, ret)
  BY <1>1 DEF create_pipe_check, open_fifo_check, connection_check, StopServer, revars
<1>2. CASE pipe_read_check(s, x, ret)
  BY <1>2 DEF pipe_read_check, StopServer, revars
<1>3. CASE recv_check(s, x, ret)
  BY <1>3 DEF recv_check, revars
<1>4. CASE pipe_write_check(s, x, ret) \/ send_check(s, x, ret)
  BY <1>4 DEF pipe_write_check, send_check, StopServer, revars
<1>5. CASE pipe_close_check(s, x) \/ socket_close_check(s, x)
  BY <1>5 DEF pipe_close_check, socket_close_check, revars
<1>6. CASE file_read_check(s, x, ret)
  BY <1>6 DEF file_read_check, StopServer, revars
<1>7. QED
  BY <1>1, <1>2, <1>3, <1>4, <1>5, <1>6

LEMMA SameSid ==
  ASSUME NEW p, uid'[p] = uid[p]
  PROVE  Sid(p)' = Sid(p)
  BY DEF Sid

LEMMA IsPipeStays ==
  ASSUME NEW x, kind' = kind
  PROVE  IsPipe(x)' <=> IsPipe(x)
  BY DEF IsPipe

-----------------------------------------------------------------------------
(* CallsInv *)

\* The process opens x.
LEMMA OpenedCalls ==
  ASSUME TypeInv, TableInv, CallsInv, NEW p \in Pids, NEW x, NEW ends, OpenedAs(p, x, ends),
         KindsStay, kind'[x] # "unmade",
         kind'[x] = "pipe" => ends = {"r", "w"},
         kind'[x] = "fifo" => \E e \in Ends : ends = {e},
         kind'[x] # "socket" => \A e \in Ends : <<x, e>> \notin fds[p]
  PROVE  CallsInv'
<1>1. CallInv(p)
  BY DEF CallsInv
<1>2. /\ Others(p) /\ UNCHANGED subjects /\ pc[p] = "idle"
      /\ pc'[p] = "opened" /\ on'[p] = <<x, ends>> /\ uid'[p] = uid[p]
      /\ know'[p] = know[p] /\ buf'[p] = buf[p]
      /\ \A d : d \in fds'[p] <=> d \in fds[p] \/ \E e \in ends : d = <<x, e>>
  BY DEF OpenedAs, revars
<1>3. Sid(p)' \in DOMAIN subjects' /\ buf'[p] = {}
  BY <1>1, <1>2, SameSid DEF CallInv
<1>4. \A d \in fds'[p] : kind'[d[1]] # "unmade"
  BY <1>1, <1>2 DEF CallInv, KindsStay
<1>5. \A e \in ends : <<x, e>> \in fds'[p]
  BY <1>2
<1>6. kind'[x] # "socket" => \A e \in Ends : <<x, e>> \in fds'[p] => e \in ends
  BY <1>2
<1>7. CallInv(p)'
  BY <1>2, <1>3, <1>4, <1>5, <1>6 DEF CallInv, IsPipe
<1>8. QED
  BY <1>2, <1>7, OthersKept

\* The process returns from its call, or goes on without changing a descriptor.
LEMMA IdleCalls ==
  ASSUME TypeInv, TableInv, CallsInv, NEW p \in Pids, Others(p),
         pc[p] \notin {"free", "forked", "forkwait"}, pc'[p] = "idle", buf'[p] = {},
         uid'[p] = uid[p], fds'[p] \subseteq fds[p], DOMAIN subjects' = DOMAIN subjects,
         UNCHANGED kind
  PROVE  CallsInv'
<1>1. CallInv(p)
  BY DEF CallsInv
<1>2. Sid(p)' \in DOMAIN subjects'
  BY <1>1, SameSid DEF CallInv
<1>3. CallInv(p)'
  BY <1>1, <1>2 DEF CallInv
<1>4. QED
  BY <1>3, OthersKept DEF KindsStay

\* The process starts a call about an end that it has open.
LEMMA CalledCalls ==
  ASSUME TypeInv, TableInv, CallsInv, NEW p \in Pids, Others(p), pc[p] = "idle",
         NEW call \in {"read", "write", "closing"}, NEW x, NEW e \in Ends,
         CalledAs(p, call, x, e), <<x, e>> \in fds[p],
         call = "closing" => buf'[p] = buf[p],
         uid'[p] = uid[p], fds'[p] = fds[p], DOMAIN subjects' = DOMAIN subjects,
         UNCHANGED kind
  PROVE  CallsInv'
<1>1. CallInv(p)
  BY DEF CallsInv
<1>2. Sid(p)' \in DOMAIN subjects'
  BY <1>1, SameSid DEF CallInv
<1>3. pc'[p] = call /\ on'[p] = <<x, {e}>>
  BY DEF CalledAs
<1>4. CallInv(p)'
  BY <1>1, <1>2, <1>3 DEF CallInv
<1>5. QED
  BY <1>4, OthersKept DEF KindsStay

LEMMA PipeCalls ==
  ASSUME TypeInv, TableInv, CallsInv, NEW p \in Pids, NEW x \in Channels, Pipe(p, x)
  PROVE  CallsInv'
<1>1. /\ kind[x] = "unmade" /\ kind' = [kind EXCEPT ![x] = "pipe"]
      /\ pc[p] = "idle" /\ Opened(p, x, {"r", "w"})
  BY DEF Pipe, At
<1>2. OpenedAs(p, x, {"r", "w"})
  BY <1>1, OpenedMove
<1>3. kind'[x] = "pipe" /\ KindsStay
  BY <1>1 DEF TypeInv, ProcTyped, KindsStay
<1>4. \A e : <<x, e>> \notin fds[p]
  BY <1>1 DEF CallsInv, CallInv
<1>5. QED
  BY <1>2, <1>3, <1>4, OpenedCalls

LEMMA OpenFifoCalls ==
  ASSUME TypeInv, TableInv, CallsInv, NEW p \in Pids, NEW x \in Channels,
         NEW e \in {"r", "w"}, OpenFifo(p, x, e)
  PROVE  CallsInv'
<1>1. /\ kind[x] = "fifo" /\ UNCHANGED kind /\ pc[p] = "idle" /\ Opened(p, x, {e})
      /\ \A end \in Ends : <<x, end>> \notin fds[p]
  BY DEF OpenFifo, At
<1>2. OpenedAs(p, x, {e}) /\ KindsStay /\ e \in Ends
  BY <1>1, OpenedMove DEF KindsStay, Ends
<1>3. QED
  BY <1>1, <1>2, OpenedCalls

LEMMA ConnectCalls ==
  ASSUME TypeInv, TableInv, CallsInv, NEW p \in Pids, NEW x \in Channels, Connect(p, x)
  PROVE  CallsInv'
<1>1. /\ kind[x] = "socket" /\ UNCHANGED kind /\ pc[p] = "idle"
      /\ \E ends : Opened(p, x, ends)
  BY DEF Connect, At
<1>2. PICK ends : Opened(p, x, ends)
  BY <1>1
<1>3. OpenedAs(p, x, ends) /\ KindsStay
  BY <1>1, <1>2, OpenedMove DEF KindsStay
<1>4. QED
  BY <1>1, <1>3, OpenedCalls

LEMMA AcceptCalls ==
  ASSUME TypeInv, TableInv, CallsInv, NEW p \in Pids, NEW x \in Channels, Accept(p, x)
  PROVE  CallsInv'
<1>1. x \in backlog /\ UNCHANGED kind /\ pc[p] = "idle" /\ Opened(p, x, {"s"})
  BY DEF Accept, At
<1>2. kind[x] = "socket"
  BY <1>1 DEF TableInv
<1>3. OpenedAs(p, x, {"s"}) /\ KindsStay
  BY <1>1, OpenedMove DEF KindsStay
<1>4. QED
  BY <1>1, <1>2, <1>3, OpenedCalls

LEMMA OpenCheckCalls ==
  ASSUME TypeInv, TableInv, CallsInv, NEW p \in Pids, OpenCheck(p)
  PROVE  CallsInv'
<1>1. /\ pc[p] = "opened" /\ ReturnedAs(p) /\ Others(p)
      /\ UNCHANGED <<kind, uid, know, fds, data, backlog>>
  BY OpenCheckMove
<1>2. DOMAIN subjects' = DOMAIN subjects
  BY CheckDomain DEF OpenCheck
<1>3. QED
  BY <1>1, <1>2, IdleCalls DEF ReturnedAs

LEMMA ReadCalls ==
  ASSUME TypeInv, TableInv, CallsInv, NEW p \in Pids, NEW x \in Channels, NEW e \in Ends,
         Read(p, x, e)
  PROVE  CallsInv'
<1>1. /\ pc[p] = "idle" /\ CalledAs(p, "read", x, e) /\ Others(p)
      /\ UNCHANGED <<revars, ctvars, kind, uid, know, fds, data, backlog>>
  BY ReadMove
<1>2. <<x, e>> \in fds[p] /\ UNCHANGED subjects
  BY <1>1 DEF Read, revars
<1>3. QED
  BY <1>1, <1>2, CalledCalls

LEMMA ReadCheckCalls ==
  ASSUME TypeInv, TableInv, CallsInv, NEW p \in Pids, ReadCheck(p)
  PROVE  CallsInv'
<1>1. /\ pc[p] = "read" /\ ReturnedAs(p) /\ Others(p)
      /\ \E ret : read_check(p, on[p][1], ret)
      /\ UNCHANGED <<kind, uid, fds, data, backlog>>
  BY ReadCheckMove
<1>2. DOMAIN subjects' = DOMAIN subjects
  BY <1>1, CheckDomain DEF read_check
<1>3. QED
  BY <1>1, <1>2, IdleCalls DEF ReturnedAs

LEMMA WriteCalls ==
  ASSUME TypeInv, TableInv, CallsInv, NEW p \in Pids, NEW x \in Channels, NEW e \in Ends,
         Write(p, x, e)
  PROVE  CallsInv'
<1>1. /\ pc[p] = "idle" /\ Others(p) /\ \E ret : write_check(p, x, ret)
      /\ CalledAs(p, "write", x, e) \/ UNCHANGED <<pc, on, buf>>
      /\ UNCHANGED <<kind, uid, know, fds, data, backlog>>
  BY WriteMove
<1>2. DOMAIN subjects' = DOMAIN subjects
  BY <1>1, CheckDomain DEF write_check
<1>3. <<x, e>> \in fds[p]
  BY DEF Write
<1>4. CASE CalledAs(p, "write", x, e)
  BY <1>1, <1>2, <1>3, <1>4, CalledCalls
<1>5. CASE UNCHANGED <<pc, on, buf>>
  <2>1. buf'[p] = {}
    BY <1>1, <1>5 DEF CallsInv, CallInv
  <2>2. QED
    BY <1>1, <1>2, <1>5, <2>1, IdleCalls
<1>6. QED
  BY <1>1, <1>4, <1>5

LEMMA WriteDataCalls ==
  ASSUME TypeInv, TableInv, CallsInv, NEW p \in Pids, WriteData(p)
  PROVE  CallsInv'
<1>1. /\ pc[p] = "write" /\ ReturnedAs(p) /\ Others(p)
      /\ UNCHANGED <<revars, ctvars, kind, uid, know, fds, backlog>>
  BY WriteDataMove
<1>2. UNCHANGED subjects
  BY <1>1 DEF revars
<1>3. QED
  BY <1>1, <1>2, IdleCalls DEF ReturnedAs

LEMMA CloseCalls ==
  ASSUME TypeInv, TableInv, CallsInv, NEW p \in Pids, NEW x \in Channels, NEW e \in Ends,
         Close(p, x, e)
  PROVE  CallsInv'
<1>1. /\ pc[p] = "idle" /\ CalledAs(p, "closing", x, e) /\ Others(p)
      /\ UNCHANGED <<kind, uid, know, buf, fds, data, backlog>>
  BY CloseMove
<1>2. <<x, e>> \in fds[p] /\ DOMAIN subjects' = DOMAIN subjects
  BY CheckDomain DEF Close
<1>3. QED
  BY <1>1, <1>2, CalledCalls

LEMMA CloseFdCalls ==
  ASSUME TypeInv, TableInv, CallsInv, NEW p \in Pids, CloseFd(p)
  PROVE  CallsInv'
<1>1. /\ pc[p] = "closing" /\ ReturnedAs(p) /\ Others(p) /\ fds'[p] \subseteq fds[p]
      /\ UNCHANGED <<revars, ctvars, kind, uid, know, backlog>>
  BY CloseFdMove
<1>2. UNCHANGED subjects
  BY <1>1 DEF revars
<1>3. QED
  BY <1>1, <1>2, IdleCalls DEF ReturnedAs

LEMMA ForkCalls ==
  ASSUME TypeInv, TableInv, CallsInv, NEW p \in Pids, NEW c \in Pids, Fork(p, c)
  PROVE  CallsInv'
<1>1. /\ p # c /\ pc[p] = "idle" /\ pc[c] = "free"
      /\ \A u \in Users : <<u, c>> \notin DOMAIN subjects
      /\ pc'[p] = "forkwait" /\ pc'[c] = "forked" /\ on'[c] = <<p, {}>>
      /\ uid'[p] = uid[p] /\ know'[p] = know[p] /\ fds'[p] = fds[p]
      /\ uid'[c] = uid[p] /\ know'[c] = know[p] /\ fds'[c] = fds[p]
      /\ \A q \in Pids : q # p /\ q # c =>
           /\ pc'[q] = pc[q] /\ uid'[q] = uid[q] /\ on'[q] = on[q]
           /\ know'[q] = know[q] /\ fds'[q] = fds[q]
      /\ UNCHANGED <<revars, ctvars, kind, buf, data, backlog>>
  BY ForkMove
<1>2. UNCHANGED subjects /\ KindsStay
  BY <1>1 DEF revars, KindsStay
<1>3. CallInv(p) /\ CallInv(c)
  BY DEF CallsInv
<1>4. CallInv(p)'
  <2>1. Sid(p)' \in DOMAIN subjects'
    BY <1>1, <1>2, <1>3, SameSid DEF CallInv
  <2>2. QED
    BY <1>1, <1>3, <2>1 DEF CallInv
<1>5. CallInv(c)'
  <2>1. \A d \in fds'[c] : kind'[d[1]] # "unmade"
    BY <1>1, <1>3 DEF CallInv
  <2>2. /\ \A u \in Users : <<u, c>> \notin DOMAIN subjects'
        /\ uid'[c] = uid'[on'[c][1]] /\ fds'[c] = fds'[on'[c][1]]
        /\ know'[c] = know'[on'[c][1]] /\ buf'[c] = {}
    BY <1>1, <1>2, <1>3 DEF CallInv
  <2>3. QED
    BY <1>1, <2>1, <2>2 DEF CallInv
<1>6. ASSUME NEW q \in Pids, q # p, q # c
      PROVE  CallInv(q)'
  <2>1. pc[q] # "forked"
    BY DEF Fork
  <2>2. /\ pc'[q] = pc[q] /\ uid'[q] = uid[q] /\ on'[q] = on[q]
        /\ know'[q] = know[q] /\ buf'[q] = buf[q] /\ fds'[q] = fds[q]
    BY <1>1, <1>6
  <2>3. QED
    BY <1>2, <2>1, <2>2, CallKept
<1>7. QED
  BY <1>4, <1>5, <1>6 DEF CallsInv

LEMMA ForkedRow ==
  ASSUME NEW u, NEW c, NEW p, fork_check_and_copy(u, c, p), server' = "up"
  PROVE  /\ DOMAIN subjects' = DOMAIN subjects \cup {<<u, c>>}
         /\ \A s \in DOMAIN subjects : subjects'[s] = subjects[s]
         /\ <<u, c>> \notin DOMAIN subjects /\ <<u, p>> \in DOMAIN subjects =>
              subjects'[<<u, c>>] = subjects[<<u, p>>]
         /\ <<u, p>> \in DOMAIN subjects =>
              /\ all_pipe_objects' = CountedCopies(<<u, p>>)
              /\ pipe_ref_map' = CopiedMaps(<<u, p>>, <<u, c>>)
         /\ UNCHANGED all_socket_connections
<1>1. fork_check(u, c, p)
  BY DEF fork_check_and_copy, StopServer
<1>2. /\ <<u, p>> \in DOMAIN subjects =>
           /\ all_pipe_objects' = CountedCopies(<<u, p>>)
           /\ pipe_ref_map' = CopiedMaps(<<u, p>>, <<u, c>>)
      /\ UNCHANGED all_socket_connections
  BY DEF fork_check_and_copy, StopServer
<1>3. QED
  BY <1>1, <1>2 DEF fork_check, AddRow

LEMMA ForkCheckCalls ==
  ASSUME TypeInv, TableInv, CallsInv, NEW c \in Pids, ForkCheck(c), server' = "up"
  PROVE  CallsInv'
<1>1. PICK p : p = on[c][1]
  OBVIOUS
<1>2. /\ p \in Pids /\ p # c /\ pc[p] = "forkwait" /\ pc[c] = "forked"
      /\ fork_check_and_copy(uid[c], c, p)
      /\ pc'[p] = "idle" /\ pc'[c] = "idle" /\ on'[c] = Nowhere
      /\ \A q \in Pids : q # p /\ q # c => pc'[q] = pc[q]
      /\ \A q \in Pids : q # c => on'[q] = on[q]
      /\ UNCHANGED <<kind, uid, know, buf, fds, data, backlog>>
  BY <1>1, ForkCheckMove
<1>3. DOMAIN subjects' = DOMAIN subjects \cup {<<uid[c], c>>}
  BY <1>2, ForkedRow
<1>4. CallInv(p) /\ CallInv(c)
  BY <1>2 DEF CallsInv
<1>5. CallInv(p)'
  <2>1. Sid(p)' \in DOMAIN subjects'
    BY <1>2, <1>3, <1>4, SameSid DEF CallInv
  <2>2. QED
    BY <1>2, <1>4, <2>1 DEF CallInv
<1>6. CallInv(c)'
  <2>1. Sid(c)' \in DOMAIN subjects'
    BY <1>2, <1>3 DEF Sid
  <2>2. QED
    BY <1>2, <1>4, <2>1 DEF CallInv
<1>7. ASSUME NEW q \in Pids, q # p, q # c
      PROVE  CallInv(q)'
  <2>1. pc[q] # "forked"
    BY <1>2, <1>7 DEF TypeInv, ForkInv
  <2>2. DOMAIN subjects \subseteq DOMAIN subjects' /\ KindsStay
    BY <1>2, <1>3 DEF KindsStay
  <2>3. /\ pc'[q] = pc[q] /\ uid'[q] = uid[q] /\ on'[q] = on[q]
        /\ know'[q] = know[q] /\ buf'[q] = buf[q] /\ fds'[q] = fds[q]
    BY <1>2, <1>7
  <2>4. QED
    BY <2>1, <2>2, <2>3, CallKept
<1>8. QED
  BY <1>5, <1>6, <1>7 DEF CallsInv

LEMMA ExitCalls ==
  ASSUME TypeInv, TableInv, CallsInv, NEW p \in Pids, Exit(p)
  PROVE  CallsInv'
<1>1. /\ pc[p] \notin {"free", "forked", "forkwait"} /\ Others(p)
      /\ pc'[p] = "free" /\ know'[p] = {} /\ buf'[p] = {} /\ fds'[p] = {}
      /\ UNCHANGED <<revars, ctvars, kind, backlog>>
  BY ExitMove
<1>2. UNCHANGED subjects /\ KindsStay
  BY <1>1 DEF revars, KindsStay
<1>3. CallInv(p)'
  BY <1>1 DEF CallInv
<1>4. QED
  BY <1>1, <1>2, <1>3, OthersKept

LEMMA ReadFileCalls ==
  ASSUME TypeInv, TableInv, CallsInv, NEW p \in Pids, NEW f \in Files, ReadFile(p, f)
  PROVE  CallsInv'
<1>1. /\ pc[p] = "idle" /\ Others(p) /\ file_read_check(Sid(p), f, "allowed")
      /\ UNCHANGED <<ctvars, kind, pc, uid, on, buf, fds, data, backlog>>
  BY ReadFileMove
<1>2. DOMAIN subjects' = DOMAIN subjects
  BY <1>1, CheckDomain
<1>3. buf'[p] = {}
  BY <1>1 DEF CallsInv, CallInv
<1>4. QED
  BY <1>1, <1>2, <1>3, IdleCalls

LEMMA SocketCalls ==
  ASSUME TypeInv, TableInv, CallsInv, NEW p \in Pids, NEW x \in Channels, NEW e \in {"c", "s"},
         ReadSocket(p, x, e) \/ WriteSocket(p, x, e)
  PROVE  CallsInv'
<1>1. /\ pc[p] = "idle" /\ Others(p)
      /\ UNCHANGED <<subjects, kind, pc, uid, buf, fds>>
  BY SocketMove DEF Others, revars
<1>2. buf'[p] = {}
  BY <1>1 DEF CallsInv, CallInv
<1>3. QED
  BY <1>1, <1>2, IdleCalls

LEMMA NextCalls ==
  ASSUME TypeInv, TableInv, CallsInv, Next, server' = "up"
  PROVE  CallsInv'
  BY PipeCalls, OpenFifoCalls, ConnectCalls, AcceptCalls, OpenCheckCalls, ReadCalls,
     ReadCheckCalls, WriteCalls, WriteDataCalls, CloseCalls, CloseFdCalls, ForkCalls,
     ForkCheckCalls, ExitCalls, ReadFileCalls, SocketCalls DEF Next

-----------------------------------------------------------------------------
(* The ends that are counted *)

(***************************************************************************)
(* An end is counted from its check after the kernel's open to its check   *)
(* before the kernel's close; a child's from its fork_check.               *)
(***************************************************************************)
Counted(p, x) ==
  {e \in Ends : /\ <<x, e>> \in fds[p] /\ pc[p] # "forked"
                /\ ~(pc[p] \in {"opened", "closing"} /\ on[p][1] = x /\ e \in on[p][2])}

\* No process counts an end more or less, or only p the ends of x.
CountedStays ==
  \A q \in Pids, y \in Channels : IsPipe(y) => Counted(q, y)' = Counted(q, y)

CountedChange(p, x, ends) ==
  /\ Counted(p, x)' = ends
  /\ \A q \in Pids, y \in Channels :
       IsPipe(y) /\ ~(q = p /\ y = x) => Counted(q, y)' = Counted(q, y)

LEMMA CountedKept ==
  ASSUME NEW q, NEW y, pc'[q] = pc[q], on'[q] = on[q], fds'[q] = fds[q]
  PROVE  Counted(q, y)' = Counted(q, y)
  BY DEF Counted

LEMMA OthersCounted ==
  ASSUME NEW p \in Pids, Others(p)
  PROVE  \A q \in Pids : \A y : q # p => Counted(q, y)' = Counted(q, y)
  BY CountedKept DEF Others

LEMMA OpenedCounted ==
  ASSUME TypeInv, TableInv, CallsInv, NEW p \in Pids, NEW x, NEW ends, OpenedAs(p, x, ends),
         IsPipe(x) => /\ \A e \in Ends : <<x, e>> \notin fds[p]
                      /\ \A e \in Ends : <<x, e>> \in fds'[p] => e \in ends
  PROVE  CountedStays
<1>1. /\ Others(p) /\ pc[p] = "idle" /\ pc'[p] = "opened" /\ on'[p] = <<x, ends>>
      /\ \A d : d \in fds'[p] <=> d \in fds[p] \/ \E e \in ends : d = <<x, e>>
  BY DEF OpenedAs
<1>2. ASSUME NEW y \in Channels, IsPipe(y)
      PROVE  Counted(p, y)' = Counted(p, y)
  <2>1. CASE y = x
    <3>1. Counted(p, y) = {}
      BY <1>2, <2>1 DEF Counted
    <3>2. Counted(p, y)' = {}
      BY <1>1, <1>2, <2>1 DEF Counted
    <3>3. QED
      BY <3>1, <3>2
  <2>2. CASE y # x
    <3>1. \A e : <<y, e>> \in fds'[p] <=> <<y, e>> \in fds[p]
      BY <1>1, <2>2
    <3>2. QED
      BY <1>1, <2>2, <3>1 DEF Counted
  <2>3. QED
    BY <2>1, <2>2
<1>3. QED
  BY <1>1, <1>2, OthersCounted DEF CountedStays

\* A step of p that neither opens nor closes.
LEMMA IdleCounted ==
  ASSUME NEW p \in Pids, Others(p), fds'[p] = fds[p],
         pc[p] \in {"idle", "read", "write"}, pc'[p] \in {"idle", "read", "write"}
  PROVE  CountedStays
<1>1. \A y : Counted(p, y)' = Counted(p, y)
  BY DEF Counted
<1>2. QED
  BY <1>1, OthersCounted DEF CountedStays

LEMMA PipeCounted ==
  ASSUME TypeInv, TableInv, CallsInv, NEW p \in Pids, NEW x \in Channels, Pipe(p, x)
  PROVE  CountedStays
<1>1. /\ kind[x] = "unmade" /\ pc[p] = "idle" /\ Opened(p, x, {"r", "w"})
  BY DEF Pipe, At
<1>2. OpenedAs(p, x, {"r", "w"})
  BY <1>1, OpenedMove
<1>3. \A e : <<x, e>> \notin fds[p]
  BY <1>1 DEF CallsInv, CallInv
<1>4. \A e \in Ends : <<x, e>> \in fds'[p] => e \in {"r", "w"}
  BY <1>2, <1>3 DEF OpenedAs
<1>5. QED
  BY <1>2, <1>3, <1>4, OpenedCounted

LEMMA OpenFifoCounted ==
  ASSUME TypeInv, TableInv, CallsInv, NEW p \in Pids, NEW x \in Channels,
         NEW e \in {"r", "w"}, OpenFifo(p, x, e)
  PROVE  CountedStays
<1>1. /\ pc[p] = "idle" /\ Opened(p, x, {e}) /\ \A end \in Ends : <<x, end>> \notin fds[p]
  BY DEF OpenFifo, At
<1>2. OpenedAs(p, x, {e})
  BY <1>1, OpenedMove
<1>3. \A end \in Ends : <<x, end>> \in fds'[p] => end \in {e}
  BY <1>1, <1>2 DEF OpenedAs
<1>4. QED
  BY <1>1, <1>2, <1>3, OpenedCounted

LEMMA SocketCounted ==
  ASSUME TypeInv, TableInv, CallsInv, NEW p \in Pids, NEW x \in Channels,
         Connect(p, x) \/ Accept(p, x)
  PROVE  CountedStays
<1>1. kind[x] = "socket" /\ pc[p] = "idle" /\ \E ends : Opened(p, x, ends)
  BY DEF Connect, Accept, At, TableInv
<1>2. PICK ends : Opened(p, x, ends)
  BY <1>1
<1>3. OpenedAs(p, x, ends)
  BY <1>1, <1>2, OpenedMove
<1>4. QED
  BY <1>1, <1>3, OpenedCounted DEF IsPipe

LEMMA OpenCheckCounted ==
  ASSUME TypeInv, TableInv, CallsInv, NEW p \in Pids, OpenCheck(p),
         NEW x, x = on[p][1]
  PROVE  /\ IsPipe(x) => CountedChange(p, x, on[p][2]) /\ Counted(p, x) = {}
         /\ ~IsPipe(x) => CountedStays
<1>1. /\ pc[p] = "opened" /\ Others(p) /\ pc'[p] = "idle"
      /\ UNCHANGED fds
  BY OpenCheckMove DEF ReturnedAs
<1>2. \A y : y # x => Counted(p, y)' = Counted(p, y)
  BY <1>1 DEF Counted
<1>3. ASSUME IsPipe(x)
      PROVE  Counted(p, x) = {} /\ Counted(p, x)' = on[p][2]
  <2>1. /\ \A e \in on[p][2] : <<x, e>> \in fds[p]
        /\ \A e \in Ends : <<x, e>> \in fds[p] => e \in on[p][2]
    BY <1>1, <1>3 DEF CallsInv, CallInv
  <2>2. on[p][2] \subseteq Ends
    BY DEF TypeInv, OnTyped
  <2>3. Counted(p, x) = {}
    BY <1>1, <2>1 DEF Counted
  <2>4. Counted(p, x)' = on[p][2]
    BY <1>1, <2>1, <2>2 DEF Counted
  <2>5. QED
    BY <2>3, <2>4
<1>4. QED
  BY <1>1, <1>2, <1>3, OthersCounted DEF CountedStays, CountedChange

LEMMA ReadWriteCounted ==
  ASSUME TypeInv, NEW p \in Pids,
         \/ \E x \in Channels, e \in Ends : Read(p, x, e) \/ Write(p, x, e)
         \/ ReadCheck(p) \/ WriteData(p) \/ \E f \in Files : ReadFile(p, f)
  PROVE  CountedStays
<1>1. ASSUME NEW x \in Channels, NEW e \in Ends, Read(p, x, e)
      PROVE  CountedStays
  BY <1>1, ReadMove, IdleCounted DEF CalledAs
<1>2. ASSUME NEW x \in Channels, NEW e \in Ends, Write(p, x, e)
      PROVE  CountedStays
  <2>1. /\ pc[p] = "idle" /\ Others(p) /\ UNCHANGED fds
        /\ CalledAs(p, "write", x, e) \/ UNCHANGED pc
    BY <1>2, WriteMove
  <2>2. QED
    BY <2>1, IdleCounted DEF CalledAs
<1>3. CASE ReadCheck(p)
  BY <1>3, ReadCheckMove, IdleCounted DEF ReturnedAs
<1>4. CASE WriteData(p)
  BY <1>4, WriteDataMove, IdleCounted DEF ReturnedAs
<1>5. ASSUME NEW f \in Files, ReadFile(p, f)
      PROVE  CountedStays
  BY <1>5, ReadFileMove, IdleCounted
<1>6. QED
  BY <1>1, <1>2, <1>3, <1>4, <1>5

LEMMA UncheckedCounted ==
  ASSUME TypeInv, NEW p \in Pids, NEW x, NEW e, ReadSocket(p, x, e) \/ WriteSocket(p, x, e)
  PROVE  CountedStays
<1>1. pc[p] = "idle" /\ Others(p) /\ UNCHANGED <<pc, fds>>
  BY SocketMove DEF Others
<1>2. QED
  BY <1>1, IdleCounted

LEMMA CloseCounted ==
  ASSUME TypeInv, NEW p \in Pids, NEW x \in Channels, NEW e \in Ends, Close(p, x, e)
  PROVE  CountedChange(p, x, Counted(p, x) \ {e}) /\ e \in Counted(p, x)
<1>1. /\ pc[p] = "idle" /\ Others(p) /\ pc'[p] = "closing" /\ on'[p] = <<x, {e}>>
      /\ UNCHANGED fds
  BY CloseMove DEF CalledAs
<1>2. <<x, e>> \in fds[p]
  BY DEF Close
<1>3. \A y : y # x => Counted(p, y)' = Counted(p, y)
  BY <1>1 DEF Counted
<1>4. Counted(p, x)' = Counted(p, x) \ {e}
  BY <1>1 DEF Counted
<1>5. e \in Counted(p, x)
  BY <1>1, <1>2 DEF Counted
<1>6. QED
  BY <1>1, <1>3, <1>4, <1>5, OthersCounted DEF CountedChange

LEMMA CloseFdCounted ==
  ASSUME TypeInv, NEW p \in Pids, CloseFd(p)
  PROVE  CountedStays
<1>1. /\ pc[p] = "closing" /\ Others(p) /\ pc'[p] = "idle"
      /\ \A d : d \in fds'[p] <=> d \in fds[p] /\ ~(\E e \in on[p][2] : d = <<on[p][1], e>>)
  BY CloseFdMove DEF ReturnedAs
<1>2. \A y, e : <<y, e>> \in fds'[p] <=>
                  <<y, e>> \in fds[p] /\ ~(on[p][1] = y /\ e \in on[p][2])
  BY <1>1
<1>3. \A y : Counted(p, y)' = Counted(p, y)
  BY <1>1, <1>2 DEF Counted
<1>4. QED
  BY <1>1, <1>3, OthersCounted DEF CountedStays

LEMMA ForkCounted ==
  ASSUME TypeInv, CallsInv, NEW p \in Pids, NEW c \in Pids, Fork(p, c)
  PROVE  CountedStays
<1>1. /\ p # c /\ pc[p] = "idle" /\ pc[c] = "free"
      /\ pc'[p] = "forkwait" /\ pc'[c] = "forked"
      /\ fds'[p] = fds[p]
      /\ \A q \in Pids : q # p /\ q # c =>
           /\ pc'[q] = pc[q] /\ on'[q] = on[q] /\ fds'[q] = fds[q]
  BY ForkMove
<1>2. fds[c] = {}
  BY <1>1 DEF CallsInv, CallInv
<1>3. \A y : Counted(c, y) = {} /\ Counted(c, y)' = {}
  BY <1>1, <1>2 DEF Counted
<1>4. \A y : Counted(p, y)' = Counted(p, y)
  BY <1>1 DEF Counted
<1>5. \A q \in Pids : \A y : q # p /\ q # c => Counted(q, y)' = Counted(q, y)
  BY <1>1, CountedKept
<1>6. QED
  BY <1>3, <1>4, <1>5 DEF CountedStays

LEMMA ForkCheckCounted ==
  ASSUME TypeInv, CallsInv, NEW c \in Pids, ForkCheck(c), NEW p, p = on[c][1]
  PROVE  /\ p \in Pids /\ p # c
         /\ \A y : Counted(c, y) = {} /\ Counted(c, y)' = Counted(p, y)
         /\ \A q \in Pids : \A y : q # c => Counted(q, y)' = Counted(q, y)
<1>1. /\ p \in Pids /\ p # c /\ pc[p] = "forkwait" /\ pc[c] = "forked"
      /\ pc'[p] = "idle" /\ pc'[c] = "idle"
      /\ \A q \in Pids : q # p /\ q # c => pc'[q] = pc[q]
      /\ \A q \in Pids : q # c => on'[q] = on[q]
      /\ UNCHANGED fds
  BY ForkCheckMove
<1>2. fds[c] = fds[p]
  BY <1>1 DEF CallsInv, CallInv
<1>3. \A y : Counted(c, y) = {} /\ Counted(c, y)' = Counted(p, y)
  BY <1>1, <1>2 DEF Counted
<1>4. \A y : Counted(p, y)' = Counted(p, y)
  BY <1>1 DEF Counted
<1>5. \A q \in Pids : \A y : q # p /\ q # c => Counted(q, y)' = Counted(q, y)
  BY <1>1, CountedKept
<1>6. QED
  BY <1>1, <1>3, <1>4, <1>5

LEMMA ExitCounted ==
  ASSUME TypeInv, NEW p \in Pids, Exit(p)
  PROVE  /\ \A y : Counted(p, y)' = {}
         /\ \A q \in Pids : \A y : q # p => Counted(q, y)' = Counted(q, y)
<1>1. Others(p) /\ fds'[p] = {}
  BY ExitMove
<1>2. QED
  BY <1>1, OthersCounted DEF Counted

-----------------------------------------------------------------------------
(* Sums without a part, and small sets *)

LEMMA RefCountNone ==
  ASSUME NEW maps \in Seq(RefMapRow), NEW S, NEW i,
         \A n \in 1..Len(maps) : ~(maps[n].subject \in S /\ maps[n].index = i)
  PROVE  RefCount(maps, S, i) = 0
<1> DEFINE N == Len(maps)
           f == RefCounts(maps, S, i)
           u == Parts(maps, S, i)
           g == [n \in 0..N |-> 0]
           v == [n \in 1..N |-> 0]
<1>1. SumOf(f, u, N) /\ RefCount(maps, S, i) = f[N] /\ N \in Nat
  BY RefCountIsSum
<1>2. \A n \in 1..N : u[n] = 0 /\ v[n] = 0
  BY DEF Parts, Part
<1>3. SumOf(g, v, N) /\ g[N] = 0
  BY <1>1 DEF SumOf
<1>4. \A n \in 1..N : u[n] <= v[n]
  BY <1>2
<1> HIDE DEF N, f, u, g, v
<1>5. f[N] <= g[N]
  BY <1>1, <1>3, <1>4, SumLess
<1>6. f[N] \in Nat
  BY <1>1, SumType
<1>7. QED
  BY <1>1, <1>3, <1>5, <1>6

LEMMA EndsFinite ==
  ASSUME NEW S, S \subseteq Ends
  PROVE  /\ IsFiniteSet(S) /\ Cardinality(S) \in Nat
         /\ Cardinality(S) = 0 <=> S = {}
<1>1. IsFiniteSet({"r"}) /\ IsFiniteSet({"r", "w"}) /\ IsFiniteSet({"r", "w", "c"})
      /\ IsFiniteSet({"r", "w", "c", "s"})
  <2>1. IsFiniteSet({})
    BY FS_EmptySet
  <2>2. IsFiniteSet({} \cup {"r"})
    BY <2>1, FS_AddElement
  <2>3. IsFiniteSet(({} \cup {"r"}) \cup {"w"})
    BY <2>2, FS_AddElement
  <2>4. IsFiniteSet((({} \cup {"r"}) \cup {"w"}) \cup {"c"})
    BY <2>3, FS_AddElement
  <2>5. IsFiniteSet(((({} \cup {"r"}) \cup {"w"}) \cup {"c"}) \cup {"s"})
    BY <2>4, FS_AddElement
  <2>6. /\ {} \cup {"r"} = {"r"} /\ ({} \cup {"r"}) \cup {"w"} = {"r", "w"}
        /\ (({} \cup {"r"}) \cup {"w"}) \cup {"c"} = {"r", "w", "c"}
        /\ ((({} \cup {"r"}) \cup {"w"}) \cup {"c"}) \cup {"s"} = {"r", "w", "c", "s"}
    OBVIOUS
  <2>7. QED
    BY <2>2, <2>3, <2>4, <2>5, <2>6
<1>2. IsFiniteSet(S)
  BY <1>1, FS_Subset DEF Ends
<1>3. QED
  BY <1>2, FS_CardinalityType, FS_EmptySet

LEMMA TwoEnds == Cardinality({"r", "w"}) = 2 /\ \A e : Cardinality({e}) = 1
<1>1. \A e : IsFiniteSet({e}) /\ Cardinality({e}) = 1
  BY FS_Singleton
<1>2. Cardinality({"r"} \cup {"w"}) = 2
  <2>1. "w" \notin {"r"}
    OBVIOUS
  <2>2. IsFiniteSet({"r"}) /\ Cardinality({"r"}) = 1
    BY FS_Singleton
  <2>3. Cardinality({"r"} \cup {"w"}) = Cardinality({"r"}) + 1
    BY <2>1, <2>2, FS_AddElement
  <2>4. QED
    BY <2>2, <2>3
<1>3. {"r", "w"} = {"r"} \cup {"w"}
  OBVIOUS
<1>4. QED
  BY <1>1, <1>2, <1>3

-----------------------------------------------------------------------------
(* A single pipe *)

\* Every pipe with an end that is counted has a row.
Known == \A p \in Pids, x \in Channels :
           IsPipe(x) /\ Counted(p, x) # {} => InTable(all_pipe_objects, x)

(***************************************************************************)
(* Of a single pipe the mappings tell the ends of each process.            *)
(***************************************************************************)
Mapped == \A n \in 1..Len(pipe_ref_map) :
            /\ pipe_ref_map[n].index = 1 /\ Len(all_pipe_objects) # 0
            /\ pipe_ref_map[n].subject \in DOMAIN subjects

Agreed == \A i \in 1..Len(all_pipe_objects) :
            all_pipe_objects[i].ref_count = RefCount(pipe_ref_map, SubjectIds, i)

Matched(p) == pc[p] \notin {"free", "forked"} =>
  \A i \in 1..Len(all_pipe_objects) :
    RefCount(pipe_ref_map, {Sid(p)}, i) = Cardinality(Counted(p, all_pipe_objects[i].channel))

MapInv == Known /\ Mapped /\ Agreed /\ \A p \in Pids : Matched(p)

LEMMA PipeRows ==
  ASSUME TypeInv, TableInv
  PROVE  /\ Len(all_pipe_objects) \in Nat
         /\ \A i \in 1..Len(all_pipe_objects) :
              /\ all_pipe_objects[i] \in ChannelRow
              /\ all_pipe_objects[i].channel \in Channels
              /\ all_pipe_objects[i].ref_count \in Nat \ {0}
              /\ IsPipe(all_pipe_objects[i].channel)
              /\ InTable(all_pipe_objects, all_pipe_objects[i].channel)
         /\ \A x : InTable(all_pipe_objects, x) =>
              \E i \in 1..Len(all_pipe_objects) : all_pipe_objects[i].channel = x
<1>1. all_pipe_objects \in Seq(ChannelRow)
  BY DEF TypeInv, TablesTyped, CTTypeOK
<1>2. Len(all_pipe_objects) \in Nat /\ DOMAIN all_pipe_objects = 1..Len(all_pipe_objects)
  BY <1>1, LenProperties
<1>3. \A i \in 1..Len(all_pipe_objects) : all_pipe_objects[i] \in ChannelRow
  BY <1>1, ElementOfSeq
<1>4. \A row \in ChannelRow : row.channel \in Channels /\ row.ref_count \in Nat \ {0}
  BY DEF ChannelRow
<1>5. \A i \in 1..Len(all_pipe_objects) :
        InTable(all_pipe_objects, all_pipe_objects[i].channel)
  BY <1>2 DEF InTable
<1>6. \A x : InTable(all_pipe_objects, x) =>
         \E i \in 1..Len(all_pipe_objects) : all_pipe_objects[i].channel = x
  BY <1>2 DEF InTable
<1>7. QED
  BY <1>2, <1>3, <1>4, <1>5, <1>6 DEF TableInv, IsPipe

LEMMA OneRowOnly ==
  ASSUME TypeInv, TableInv, OnePipe
  PROVE  \A i \in 1..Len(all_pipe_objects) : i = 1
<1>1. DOMAIN all_pipe_objects = 1..Len(all_pipe_objects)
  BY LenProperties DEF TypeInv, TablesTyped, CTTypeOK
<1>2. ASSUME NEW i \in 1..Len(all_pipe_objects)
      PROVE  i = 1
  <2>1. 1 \in 1..Len(all_pipe_objects)
    BY PipeRows
  <2>2. all_pipe_objects[i].channel = all_pipe_objects[1].channel
    BY <2>1, PipeRows DEF OnePipe
  <2>3. QED
    BY <1>1, <2>1, <2>2 DEF TableInv, OneRowEach
<1>3. QED
  BY <1>2

\* The mappings, with the length that the folds run over.
MapsTyped == pipe_ref_map \in Seq(RefMapRow) /\ Len(pipe_ref_map) \in Nat

LEMMA MapRows ==
  ASSUME TypeInv
  PROVE  /\ MapsTyped /\ MapsTypeOK
         /\ \A n \in 1..Len(pipe_ref_map) :
              /\ pipe_ref_map[n].subject \in SubjectIds
              /\ pipe_ref_map[n].ref_count \in Nat \ {0}
<1>1. pipe_ref_map \in Seq(RefMapRow)
  BY DEF TypeInv, TablesTyped, CTTypeOK
<1>2. \A n \in 1..Len(pipe_ref_map) : pipe_ref_map[n] \in RefMapRow
  BY <1>1, ElementOfSeq
<1>3. \A m \in RefMapRow : m.subject \in SubjectIds /\ m.ref_count \in Nat \ {0}
  BY DEF RefMapRow
<1>4. QED
  BY <1>1, <1>2, <1>3, LenProperties DEF MapsTyped, MapsTypeOK

LEMMA CountsAre ==
  ASSUME TypeInv
  PROVE  CountsAgree <=> Agreed
<1>1. DOMAIN all_pipe_objects = 1..Len(all_pipe_objects)
  BY LenProperties DEF TypeInv, TablesTyped, CTTypeOK
<1>2. QED
  BY <1>1 DEF CountsAgree, Agreed

\* No row changes its channel or its count, and no mapping changes.
LEMMA MapKept ==
  ASSUME TypeInv, TableInv, MapInv, UNCHANGED pipe_ref_map,
         Len(all_pipe_objects') = Len(all_pipe_objects),
         \A i \in 1..Len(all_pipe_objects) :
           /\ all_pipe_objects'[i].channel = all_pipe_objects[i].channel
           /\ all_pipe_objects'[i].ref_count = all_pipe_objects[i].ref_count,
         \A x \in Channels : InTable(all_pipe_objects, x) => InTable(all_pipe_objects', x),
         DOMAIN subjects \subseteq DOMAIN subjects',
         \A x \in Channels : IsPipe(x)' <=> IsPipe(x),
         \A q \in Pids, y \in Channels :
           IsPipe(y) => Counted(q, y)' = Counted(q, y) \/ Counted(q, y)' = {},
         \A q \in Pids : pc'[q] \notin {"free", "forked"} =>
           /\ pc[q] \notin {"free", "forked"} /\ uid'[q] = uid[q]
           /\ \A y \in Channels : IsPipe(y) => Counted(q, y)' = Counted(q, y)
  PROVE  MapInv'
<1>1. Known'
  BY DEF MapInv, Known, InTable
<1>2. Mapped'
  BY DEF MapInv, Mapped
<1>3. Agreed'
  BY DEF MapInv, Agreed
<1>4. ASSUME NEW p \in Pids
      PROVE  Matched(p)'
  <2>1. ASSUME pc'[p] \notin {"free", "forked"}, NEW i \in 1..Len(all_pipe_objects)
        PROVE  RefCount(pipe_ref_map', {Sid(p)'}, i)
                 = Cardinality(Counted(p, all_pipe_objects[i].channel)')
    <3> DEFINE y == all_pipe_objects[i].channel
    <3>1. Sid(p)' = Sid(p)
      BY <2>1, SameSid
    <3>2. y \in Channels /\ IsPipe(y)
      BY PipeRows
    <3>3. Counted(p, y)' = Counted(p, y)
      BY <2>1, <3>2
    <3>4. Matched(p)
      BY DEF MapInv
    <3>5. QED
      BY <2>1, <3>1, <3>3, <3>4 DEF Matched
  <2>2. QED
    BY <2>1 DEF Matched
<1>5. QED
  BY <1>1, <1>2, <1>3, <1>4 DEF MapInv

-----------------------------------------------------------------------------
(* The steps of a single pipe *)

\* A step of p that leaves the rows and the mappings of pipes alone.
LEMMA MapIdle ==
  ASSUME TypeInv, TableInv, MapInv, CountedStays,
         UNCHANGED <<all_pipe_objects, pipe_ref_map>>,
         DOMAIN subjects \subseteq DOMAIN subjects',
         \A x \in Channels : IsPipe(x)' <=> IsPipe(x),
         \A q \in Pids : pc'[q] \notin {"free", "forked"} =>
           pc[q] \notin {"free", "forked"} /\ uid'[q] = uid[q]
  PROVE  MapInv'
<1>1. \A q \in Pids, y \in Channels :
        IsPipe(y) => Counted(q, y)' = Counted(q, y)
  BY DEF CountedStays
<1>2. QED
  BY <1>1, MapKept

LEMMA OthersRun ==
  ASSUME NEW p \in Pids, Others(p), pc[p] \notin {"free", "forked"}, uid'[p] = uid[p]
  PROVE  \A q \in Pids : pc'[q] \notin {"free", "forked"} =>
           pc[q] \notin {"free", "forked"} /\ uid'[q] = uid[q]
  BY DEF Others

LEMMA OpenedMaps ==
  ASSUME TypeInv, TableInv, MapInv, CountedStays, NEW p \in Pids, NEW x, NEW ends,
         OpenedAs(p, x, ends), \A y \in Channels : IsPipe(y)' <=> IsPipe(y)
  PROVE  MapInv'
<1>1. /\ UNCHANGED <<subjects, all_pipe_objects, pipe_ref_map>>
      /\ Others(p) /\ pc[p] = "idle" /\ uid'[p] = uid[p]
  BY DEF OpenedAs, revars, ctvars
<1>2. QED
  BY <1>1, OthersRun, MapIdle

LEMMA OpenMaps ==
  ASSUME TypeInv, TableInv, CallsInv, MapInv, NEW p \in Pids, NEW x \in Channels,
         \/ Pipe(p, x) \/ Connect(p, x) \/ Accept(p, x)
         \/ \E e \in {"r", "w"} : OpenFifo(p, x, e)
  PROVE  MapInv'
<1>1. CountedStays
  BY PipeCounted, OpenFifoCounted, SocketCounted
<1>2. pc[p] = "idle" /\ \E ends : Opened(p, x, ends)
  BY DEF Pipe, Connect, Accept, OpenFifo, At
<1>3. PICK ends : OpenedAs(p, x, ends)
  BY <1>2, OpenedMove
<1>4. \A y \in Channels : IsPipe(y)' <=> IsPipe(y)
  <2>1. UNCHANGED kind \/ (kind[x] = "unmade" /\ kind' = [kind EXCEPT ![x] = "pipe"])
    BY DEF Pipe, Connect, Accept, OpenFifo
  <2>2. QED
    BY <2>1 DEF TypeInv, ProcTyped, IsPipe
<1>5. QED
  BY <1>1, <1>3, <1>4, OpenedMaps

\* Reads, writes that raise no row of a pipe, and the kernel's close.
LEMMA QuietMaps ==
  ASSUME TypeInv, TableInv, MapInv, CountedStays, NEW p \in Pids, Others(p),
         pc[p] \notin {"free", "forked"}, uid'[p] = uid[p], UNCHANGED kind,
         UNCHANGED <<all_pipe_objects, pipe_ref_map>>,
         DOMAIN subjects \subseteq DOMAIN subjects'
  PROVE  MapInv'
<1>1. \A x \in Channels : IsPipe(x)' <=> IsPipe(x)
  BY DEF IsPipe
<1>2. QED
  BY <1>1, OthersRun, MapIdle

LEMMA ReadMaps ==
  ASSUME TypeInv, TableInv, CallsInv, MapInv, NEW p \in Pids, NEW x \in Channels,
         NEW e \in Ends, Read(p, x, e)
  PROVE  MapInv'
<1>1. /\ pc[p] = "idle" /\ Others(p)
      /\ UNCHANGED <<subjects, all_pipe_objects, pipe_ref_map, kind, uid>>
  BY ReadMove DEF revars, ctvars
<1>2. CountedStays
  BY ReadWriteCounted
<1>3. QED
  BY <1>1, <1>2, QuietMaps

LEMMA ReadCheckTables ==
  ASSUME TypeInv, NEW p \in Pids, ReadCheck(p)
  PROVE  UNCHANGED ctvars /\ DOMAIN subjects' = DOMAIN subjects
<1>1. pc[p] = "read" /\ \E ret : read_check(p, on[p][1], ret)
  BY ReadCheckMove
<1>2. Sid(p) \in SubjectIds
  BY <1>1, SidType DEF TypeInv
<1>3. UNCHANGED ctvars
  BY <1>1, <1>2, PipeReadFacts, RecvFacts DEF TypeInv, read_check
<1>4. DOMAIN subjects' = DOMAIN subjects
  BY <1>1, CheckDomain DEF read_check
<1>5. QED
  BY <1>3, <1>4

LEMMA ReadCheckMaps ==
  ASSUME TypeInv, TableInv, CallsInv, MapInv, NEW p \in Pids, ReadCheck(p)
  PROVE  MapInv'
<1>1. /\ pc[p] = "read" /\ Others(p) /\ UNCHANGED <<kind, uid>>
  BY ReadCheckMove
<1>2. UNCHANGED <<all_pipe_objects, pipe_ref_map>> /\ DOMAIN subjects' = DOMAIN subjects
  BY ReadCheckTables DEF ctvars
<1>3. CountedStays
  BY ReadWriteCounted
<1>4. QED
  BY <1>1, <1>2, <1>3, QuietMaps

LEMMA WriteDataMaps ==
  ASSUME TypeInv, TableInv, CallsInv, MapInv, NEW p \in Pids, WriteData(p)
  PROVE  MapInv'
<1>1. /\ pc[p] = "write" /\ Others(p)
      /\ UNCHANGED <<subjects, all_pipe_objects, pipe_ref_map, kind, uid>>
  BY WriteDataMove DEF revars, ctvars
<1>2. CountedStays
  BY ReadWriteCounted
<1>3. QED
  BY <1>1, <1>2, QuietMaps

LEMMA ReadFileMaps ==
  ASSUME TypeInv, TableInv, CallsInv, MapInv, NEW p \in Pids, NEW f \in Files, ReadFile(p, f)
  PROVE  MapInv'
<1>1. /\ pc[p] = "idle" /\ Others(p) /\ file_read_check(Sid(p), f, "allowed")
      /\ UNCHANGED <<all_pipe_objects, pipe_ref_map, kind, uid>>
  BY ReadFileMove DEF ctvars
<1>2. CountedStays
  BY ReadWriteCounted
<1>3. DOMAIN subjects' = DOMAIN subjects
  BY <1>1, CheckDomain
<1>4. QED
  BY <1>1, <1>2, <1>3, QuietMaps

LEMMA SocketMaps ==
  ASSUME TypeInv, TableInv, CallsInv, MapInv, NEW p \in Pids, NEW x \in Channels,
         NEW e \in {"c", "s"}, ReadSocket(p, x, e) \/ WriteSocket(p, x, e)
  PROVE  MapInv'
<1>1. /\ pc[p] = "idle" /\ Others(p)
      /\ UNCHANGED <<subjects, all_pipe_objects, pipe_ref_map, kind, uid>>
  BY SocketMove DEF Others, revars, ctvars
<1>2. CountedStays
  BY UncheckedCounted
<1>3. QED
  BY <1>1, <1>2, QuietMaps

LEMMA CloseFdMaps ==
  ASSUME TypeInv, TableInv, CallsInv, MapInv, NEW p \in Pids, CloseFd(p)
  PROVE  MapInv'
<1>1. /\ pc[p] = "closing" /\ Others(p)
      /\ UNCHANGED <<subjects, all_pipe_objects, pipe_ref_map, kind, uid>>
  BY CloseFdMove DEF revars, ctvars
<1>2. QED
  BY <1>1, CloseFdCounted, QuietMaps

LEMMA ForkMaps ==
  ASSUME TypeInv, TableInv, CallsInv, MapInv, NEW p \in Pids, NEW c \in Pids, Fork(p, c)
  PROVE  MapInv'
<1>1. /\ pc[p] = "idle" /\ pc'[c] = "forked" /\ uid'[p] = uid[p]
      /\ \A q \in Pids : q # p /\ q # c => pc'[q] = pc[q] /\ uid'[q] = uid[q]
      /\ UNCHANGED <<subjects, all_pipe_objects, pipe_ref_map, kind>>
  BY ForkMove DEF revars, ctvars
<1>2. \A q \in Pids : pc'[q] \notin {"free", "forked"} =>
        pc[q] \notin {"free", "forked"} /\ uid'[q] = uid[q]
  BY <1>1
<1>3. \A x \in Channels : IsPipe(x)' <=> IsPipe(x)
  BY <1>1 DEF IsPipe
<1>4. QED
  BY <1>1, <1>2, <1>3, ForkCounted, MapIdle

LEMMA ExitMaps ==
  ASSUME TypeInv, TableInv, CallsInv, MapInv, NEW p \in Pids, Exit(p)
  PROVE  MapInv'
<1>1. /\ pc'[p] = "free" /\ Others(p)
      /\ UNCHANGED <<subjects, all_pipe_objects, pipe_ref_map, kind>>
  BY ExitMove DEF revars, ctvars
<1>2. \A q \in Pids, y \in Channels :
        IsPipe(y) => Counted(q, y)' = Counted(q, y) \/ Counted(q, y)' = {}
  BY ExitCounted
<1>3. \A q \in Pids : pc'[q] \notin {"free", "forked"} =>
        /\ pc[q] \notin {"free", "forked"} /\ uid'[q] = uid[q]
        /\ \A y \in Channels : IsPipe(y) => Counted(q, y)' = Counted(q, y)
  BY <1>1, ExitCounted DEF Others
<1>4. \A x \in Channels : IsPipe(x)' <=> IsPipe(x)
  BY <1>1 DEF IsPipe
<1>5. QED
  BY <1>1, <1>2, <1>3, <1>4, MapKept

LEMMA WriteMaps ==
  ASSUME TypeInv, TableInv, CallsInv, MapInv, NEW p \in Pids, NEW x \in Channels,
         NEW e \in Ends, Write(p, x, e)
  PROVE  MapInv'
<1>1. /\ pc[p] = "idle" /\ Others(p) /\ UNCHANGED <<kind, uid>>
      /\ \E ret : write_check(p, x, ret)
  BY WriteMove
<1>2. CountedStays
  BY ReadWriteCounted
<1>3. PICK ret : write_check(p, x, ret)
  BY <1>1
<1>4. DOMAIN subjects' = DOMAIN subjects
  BY <1>3, CheckDomain DEF write_check
<1>5. /\ UNCHANGED pipe_ref_map
      /\ \/ UNCHANGED all_pipe_objects
         \/ \E i \in 1..Len(all_pipe_objects), s \in DOMAIN subjects :
              /\ IsLabel(subjects[s])
              /\ all_pipe_objects'
                   = Replaced(all_pipe_objects, i, Raise(all_pipe_objects[i], subjects[s]))
  BY <1>3, PipeWriteFacts, SendFacts DEF TypeInv, write_check
<1>6. CASE UNCHANGED all_pipe_objects
  BY <1>1, <1>2, <1>4, <1>5, <1>6, QuietMaps
<1>7. ASSUME NEW i \in 1..Len(all_pipe_objects), NEW s \in DOMAIN subjects,
             IsLabel(subjects[s]),
             all_pipe_objects'
               = Replaced(all_pipe_objects, i, Raise(all_pipe_objects[i], subjects[s]))
      PROVE  MapInv'
  <2> DEFINE row == Raise(all_pipe_objects[i], subjects[s])
  <2>1. all_pipe_objects \in Seq(ChannelRow) /\ all_pipe_objects[i] \in ChannelRow
    BY PipeRows DEF TypeInv, TablesTyped, CTTypeOK
  <2>2. /\ row \in ChannelRow /\ row.channel = all_pipe_objects[i].channel
        /\ row.ref_count = all_pipe_objects[i].ref_count
        /\ FlowsTo(all_pipe_objects[i], row)
    BY <1>7, <2>1, RaiseChannelRow
  <2> HIDE DEF row
  <2>3. all_pipe_objects' = Replaced(all_pipe_objects, i, row)
    BY <1>7 DEF row
  <2>4. /\ all_pipe_objects' \in Seq(ChannelRow)
        /\ Len(all_pipe_objects') = Len(all_pipe_objects)
        /\ \A j \in 1..Len(all_pipe_objects) :
             all_pipe_objects'[j] = IF j = i THEN row ELSE all_pipe_objects[j]
    BY <2>1, <2>2, <2>3, ReplacedRow
  <2>5. \A j \in 1..Len(all_pipe_objects) :
           /\ all_pipe_objects'[j].channel = all_pipe_objects[j].channel
           /\ all_pipe_objects'[j].ref_count = all_pipe_objects[j].ref_count
    BY <2>2, <2>4
  <2>6. \A y : InTable(all_pipe_objects', y) <=> InTable(all_pipe_objects, y)
    BY <2>1, <2>4, <2>5, ChannelsStay
  <2>7. \A y \in Channels : IsPipe(y)' <=> IsPipe(y)
    BY <1>1 DEF IsPipe
  <2>8. \A q \in Pids, y \in Channels : IsPipe(y) => Counted(q, y)' = Counted(q, y)
    BY <1>2 DEF CountedStays
  <2>9. \A q \in Pids : pc'[q] \notin {"free", "forked"} =>
          pc[q] \notin {"free", "forked"} /\ uid'[q] = uid[q]
    BY <1>1, OthersRun
  <2>10. QED
    BY <1>4, <1>5, <2>4, <2>5, <2>6, <2>7, <2>8, <2>9, MapKept
<1>8. QED
  BY <1>5, <1>6, <1>7

-----------------------------------------------------------------------------
(* The single pipe is opened, closed and inherited. *)

\* The single pipe x has a row after the step.
LEMMA MapMade ==
  ASSUME NEW x \in Channels, TypeInv', \A y \in Channels : IsPipe(y)' => y = x,
         Len(all_pipe_objects') = 1, all_pipe_objects'[1].channel = x,
         \A n \in 1..Len(pipe_ref_map') : /\ pipe_ref_map'[n].index = 1
                                         /\ pipe_ref_map'[n].subject \in DOMAIN subjects',
         all_pipe_objects'[1].ref_count = RefCount(pipe_ref_map', SubjectIds, 1),
         \A q \in Pids : pc'[q] \notin {"free", "forked"} =>
           RefCount(pipe_ref_map', {Sid(q)'}, 1) = Cardinality(Counted(q, x)')
  PROVE  MapInv'
<1>1. DOMAIN all_pipe_objects' = 1..1 /\ 1 \in 1..1 /\ \A i \in 1..1 : i = 1
  <2>1. all_pipe_objects' \in Seq(ChannelRow)
    BY DEF TypeInv, TablesTyped, CTTypeOK
  <2>2. QED
    BY <2>1, LenProperties
<1>2. InTable(all_pipe_objects', x)
  BY <1>1 DEF InTable
<1>3. Known'
  BY <1>2 DEF Known, InTable
<1>4. Mapped' /\ Agreed'
  BY <1>1 DEF Mapped, Agreed
<1>5. ASSUME NEW q \in Pids
      PROVE  Matched(q)'
  <2>1. ASSUME pc'[q] \notin {"free", "forked"}, NEW i \in 1..Len(all_pipe_objects')
        PROVE  RefCount(pipe_ref_map', {Sid(q)'}, i)
                 = Cardinality(Counted(q, all_pipe_objects[i].channel)')
    <3>1. i = 1
      BY <1>1
    <3>2. RefCount(pipe_ref_map', {Sid(q)'}, i) = Cardinality(Counted(q, x)')
      BY <2>1, <3>1
    <3>3. Counted(q, all_pipe_objects[i].channel)' = Counted(q, x)'
      BY <3>1 DEF Counted
    <3>4. QED
      BY <3>2, <3>3
  <2>2. QED
    BY <2>1 DEF Matched
<1>6. QED
  BY <1>3, <1>4, <1>5 DEF MapInv

\* The first open: pipe(), or open of a fifo that is not in the table.
LEMMA FirstOpen ==
  ASSUME TypeInv, TableInv, CallsInv, MapInv, OnePipe, TypeInv', NEW p \in Pids,
         OpenCheck(p), NEW x \in Channels, x = on[p][1], IsPipe(x),
         ~InTable(all_pipe_objects, x), UNCHANGED subjects,
         NEW row \in ChannelRow, all_pipe_objects' = Append(all_pipe_objects, row),
         row.channel = x, row.ref_count = Cardinality(on[p][2]),
         NEW m \in RefMapRow, pipe_ref_map' = Append(pipe_ref_map, m),
         m.subject = Sid(p), m.index = Len(all_pipe_objects) + 1,
         m.ref_count = Cardinality(on[p][2])
  PROVE  MapInv'
<1>1. /\ pc[p] = "opened" /\ Others(p) /\ UNCHANGED <<kind, uid>>
  BY OpenCheckMove
<1>2. \A i \in 1..Len(all_pipe_objects) : FALSE
  BY PipeRows DEF OnePipe
<1>3. Len(all_pipe_objects) = 0
  BY <1>2, PipeRows
<1>4. MapsTyped
  BY MapRows
<1>5. Len(pipe_ref_map) = 0
  BY <1>3, <1>4 DEF MapsTyped, MapInv, Mapped
<1>6. Len(all_pipe_objects') = 1 /\ all_pipe_objects'[1] = row
  BY <1>3, AppendFacts DEF TypeInv, TablesTyped, CTTypeOK
<1>7. Len(pipe_ref_map') = 1 /\ pipe_ref_map'[1] = m
  BY <1>4, <1>5, AppendFacts DEF MapsTyped
<1>8. ASSUME NEW S
      PROVE  RefCount(pipe_ref_map', S, 1) = IF Sid(p) \in S THEN Cardinality(on[p][2]) ELSE 0
  <2>1. RefCount(pipe_ref_map, S, 1) = 0
    <3>1. pipe_ref_map \in Seq(RefMapRow) /\ \A n \in 1..Len(pipe_ref_map) : FALSE
      BY <1>4, <1>5 DEF MapsTyped
    <3>2. QED
      BY <3>1, RefCountNone
  <2>2. RefCount(pipe_ref_map', S, 1) = RefCount(pipe_ref_map, S, 1) + Part(m, S, 1)
    BY <1>4, RefCountAppend DEF MapsTyped
  <2>3. Cardinality(on[p][2]) \in Nat
    <3>1. on[p][2] \subseteq Ends
      BY DEF TypeInv, OnTyped
    <3>2. QED
      BY <3>1, EndsFinite
  <2>4. QED
    BY <1>3, <2>1, <2>2, <2>3 DEF Part
<1>9. CountedChange(p, x, on[p][2])
  BY OpenCheckCounted
<1>10. Sid(p) \in SubjectIds /\ Sid(p) \in DOMAIN subjects
  BY <1>1, SidType DEF TypeInv, CallsInv, CallInv
<1>11. ASSUME NEW q \in Pids, pc'[q] \notin {"free", "forked"}
       PROVE  RefCount(pipe_ref_map', {Sid(q)'}, 1) = Cardinality(Counted(q, x)')
  <2>1. Sid(q)' = Sid(q)
    BY <1>1 DEF Sid
  <2>2. CASE q = p
    BY <1>8, <1>9, <2>1, <2>2 DEF CountedChange
  <2>3. CASE q # p
    <3>1. Sid(q) # Sid(p)
      BY <2>3 DEF Sid
    <3>2. Counted(q, x)' = {}
      BY <1>9, <2>3 DEF CountedChange, MapInv, Known
    <3>3. Cardinality({}) = 0
      BY FS_EmptySet
    <3>4. QED
      BY <1>8, <2>1, <3>1, <3>2, <3>3
  <2>4. QED
    BY <2>2, <2>3
<1>12. \A y \in Channels : IsPipe(y)' => y = x
  BY <1>1 DEF IsPipe, OnePipe
<1>13. \A n \in 1..Len(pipe_ref_map') : /\ pipe_ref_map'[n].index = 1
                                        /\ pipe_ref_map'[n].subject \in DOMAIN subjects'
  BY <1>3, <1>7, <1>10
<1>14. all_pipe_objects'[1].ref_count = RefCount(pipe_ref_map', SubjectIds, 1)
  BY <1>6, <1>8, <1>10
<1>15. QED
  BY <1>6, <1>11, <1>12, <1>13, <1>14, MapMade

\* A later open of the fifo.
LEMMA LaterOpen ==
  ASSUME TypeInv, TableInv, CallsInv, MapInv, OnePipe, TypeInv', NEW p \in Pids,
         OpenCheck(p), NEW x \in Channels, x = on[p][1], IsPipe(x), UNCHANGED subjects,
         Cardinality(on[p][2]) = 1, NEW i \in 1..Len(all_pipe_objects),
         NEW row \in ChannelRow, all_pipe_objects' = Replaced(all_pipe_objects, i, row),
         row.channel = all_pipe_objects[i].channel,
         row.ref_count = all_pipe_objects[i].ref_count + 1,
         FlowsTo(all_pipe_objects[i], row),
         pipe_ref_map' = Incremented(Sid(p), i)
  PROVE  MapInv'
<1>1. /\ pc[p] = "opened" /\ Others(p) /\ UNCHANGED <<kind, uid>>
  BY OpenCheckMove
<1>2. i = 1 /\ Len(all_pipe_objects) = 1 /\ all_pipe_objects[i].channel = x
  <2>1. Len(all_pipe_objects) \in Nat /\ all_pipe_objects[i].channel = x
    BY PipeRows DEF OnePipe
  <2>2. \A j \in 1..Len(all_pipe_objects) : j = 1
    BY OneRowOnly
  <2>3. Len(all_pipe_objects) \in 1..Len(all_pipe_objects)
    BY <2>1
  <2>4. QED
    BY <2>1, <2>2, <2>3
<1>3. MapsTyped /\ MapsTypeOK
  BY MapRows
<1>4. /\ Len(all_pipe_objects') = Len(all_pipe_objects) /\ all_pipe_objects'[i] = row
  BY ReplacedRow, SMTT(30) DEF TypeInv, TablesTyped, CTTypeOK
<1>5. Sid(p) \in SubjectIds /\ Sid(p) \in DOMAIN subjects
  BY <1>1, SidType DEF TypeInv, CallsInv, CallInv
<1>6. /\ KeysWithin(pipe_ref_map', {<<Sid(p), 1>>})
      /\ \A S : RefCount(pipe_ref_map', S, 1)
                  = RefCount(pipe_ref_map, S, 1) + IF Sid(p) \in S THEN 1 ELSE 0
  BY <1>2, <1>3, <1>5, IncrementedFacts
<1>7. CountedChange(p, x, on[p][2]) /\ Counted(p, x) = {}
  BY OpenCheckCounted
<1>8. ASSUME NEW q \in Pids, pc'[q] \notin {"free", "forked"}
      PROVE  RefCount(pipe_ref_map', {Sid(q)'}, 1) = Cardinality(Counted(q, x)')
  <2>1. Sid(q)' = Sid(q) /\ pc[q] \notin {"free", "forked"}
    BY <1>1, <1>8 DEF Sid, Others
  <2>2. RefCount(pipe_ref_map, {Sid(q)}, 1) = Cardinality(Counted(q, x))
    BY <1>2, <2>1 DEF MapInv, Matched
  <2>3. CASE q = p
    <3>1. Cardinality(Counted(q, x)) = 0
      BY <1>7, <2>3, FS_EmptySet
    <3>2. Cardinality(Counted(q, x)') = 1
      BY <1>7, <2>3 DEF CountedChange
    <3>3. QED
      BY <1>6, <2>1, <2>2, <2>3, <3>1, <3>2
  <2>4. CASE q # p
    <3>1. Sid(p) \notin {Sid(q)}
      BY <2>4 DEF Sid
    <3>2. Counted(q, x)' = Counted(q, x)
      BY <1>7, <2>4 DEF CountedChange
    <3>3. RefCount(pipe_ref_map, {Sid(q)}, 1) \in Nat
      BY <1>3, RefCountType DEF MapsTyped
    <3>4. QED
      BY <1>6, <2>1, <2>2, <3>1, <3>2, <3>3
  <2>5. QED
    BY <2>3, <2>4
<1>9. \A y \in Channels : IsPipe(y)' => y = x
  BY <1>1 DEF IsPipe, OnePipe
<1>10. ASSUME NEW n \in 1..Len(pipe_ref_map')
       PROVE  pipe_ref_map'[n].index = 1 /\ pipe_ref_map'[n].subject \in DOMAIN subjects'
  BY <1>5, <1>6 DEF KeysWithin, MapInv, Mapped
<1>11. all_pipe_objects'[1].ref_count = RefCount(pipe_ref_map', SubjectIds, 1)
  BY <1>2, <1>4, <1>5, <1>6 DEF MapInv, Agreed
<1>12. QED
  BY <1>2, <1>4, <1>8, <1>9, <1>10, <1>11, MapMade

LEMMA OpenCheckMaps ==
  ASSUME TypeInv, TableInv, CallsInv, MapInv, OnePipe, TypeInv', NEW p \in Pids, OpenCheck(p)
  PROVE  MapInv'
<1> DEFINE x == on[p][1]
<1>1. /\ pc[p] = "opened" /\ Others(p) /\ UNCHANGED <<kind, uid>>
      /\ \/ kind[x] = "pipe" /\ create_pipe_check(Sid(p), x, "allowed")
         \/ kind[x] = "fifo" /\ open_fifo_check(Sid(p), x)
         \/ kind[x] = "socket" /\ connection_check(Sid(p), x, "allowed")
  BY OpenCheckMove DEF OpenCheck
<1>2. x \in Channels /\ Sid(p) \in SubjectIds
  BY <1>1, SidType DEF TypeInv, OnTyped
<1>3. CASE kind[x] = "pipe" /\ create_pipe_check(Sid(p), x, "allowed")
  <2>1. on[p][2] = {"r", "w"} /\ ~InTable(all_pipe_objects, x) /\ IsPipe(x)
    BY <1>1, <1>3 DEF CallsInv, CallInv, TableInv, Making, IsPipe
  <2>2. Cardinality(on[p][2]) = 2
    BY <2>1, TwoEnds
  <2>3. /\ UNCHANGED subjects
        /\ \E row \in ChannelRow :
              /\ all_pipe_objects' = Append(all_pipe_objects, row)
              /\ row.channel = x /\ row.ref_count = 2
        /\ \E m \in RefMapRow :
              /\ pipe_ref_map' = Append(pipe_ref_map, m)
              /\ m.subject = Sid(p) /\ m.index = Len(all_pipe_objects) + 1 /\ m.ref_count = 2
    BY <1>2, <1>3, CreateFacts DEF TypeInv, revars
  <2>4. QED
    BY <1>2, <2>1, <2>2, <2>3, FirstOpen
<1>4. CASE kind[x] = "fifo" /\ open_fifo_check(Sid(p), x)
  <2> DEFINE i == IndexOf(all_pipe_objects, x)
  <2>1. Cardinality(on[p][2]) = 1 /\ IsPipe(x)
    <3>1. (\E e \in Ends : on[p][2] = {e}) /\ IsPipe(x)
      BY <1>1, <1>4 DEF CallsInv, CallInv, IsPipe
    <3>2. QED
      BY <3>1, TwoEnds
  <2>2. i # 0 <=> InTable(all_pipe_objects, x)
    BY IndexOfRow DEF TypeInv, TablesTyped, CTTypeOK
  <2>3. /\ UNCHANGED subjects
        /\ i = 0 =>
             /\ \E row \in ChannelRow :
                  /\ all_pipe_objects' = Append(all_pipe_objects, row)
                  /\ row.channel = x /\ row.ref_count = 1
             /\ \E m \in RefMapRow :
                  /\ pipe_ref_map' = Append(pipe_ref_map, m)
                  /\ m.subject = Sid(p) /\ m.index = Len(all_pipe_objects) + 1
                  /\ m.ref_count = 1
        /\ i # 0 =>
             /\ i \in 1..Len(all_pipe_objects)
             /\ \E row \in ChannelRow :
                  /\ all_pipe_objects' = Replaced(all_pipe_objects, i, row)
                  /\ row.channel = all_pipe_objects[i].channel
                  /\ row.ref_count = all_pipe_objects[i].ref_count + 1
                  /\ FlowsTo(all_pipe_objects[i], row)
             /\ pipe_ref_map' = Incremented(Sid(p), i)
    BY <1>2, <1>4, OpenFifoFacts DEF TypeInv, revars
  <2> HIDE DEF i, x
  <2>4. CASE i = 0
    BY <1>2, <2>1, <2>2, <2>3, <2>4, FirstOpen DEF x
  <2>5. CASE i # 0
    BY <1>2, <2>1, <2>3, <2>5, LaterOpen DEF x
  <2>6. QED
    BY <2>4, <2>5
<1>5. CASE kind[x] = "socket" /\ connection_check(Sid(p), x, "allowed")
  <2>1. UNCHANGED <<subjects, all_pipe_objects, pipe_ref_map>>
    BY <1>2, <1>5, ConnectionFacts DEF TypeInv, revars
  <2>2. CountedStays
    BY <1>5, OpenCheckCounted DEF IsPipe
  <2>3. QED
    BY <1>1, <2>1, <2>2, QuietMaps
<1>6. QED
  BY <1>1, <1>3, <1>4, <1>5

-----------------------------------------------------------------------------
(* close *)

LEMMA CloseSocketMaps ==
  ASSUME TypeInv, TableInv, CallsInv, MapInv, NEW p \in Pids, NEW x \in Channels,
         NEW e \in Ends, Close(p, x, e), kind[x] = "socket"
  PROVE  MapInv'
<1>1. /\ pc[p] = "idle" /\ Others(p) /\ UNCHANGED <<kind, uid>>
  BY CloseMove
<1>2. UNCHANGED <<subjects, all_pipe_objects, pipe_ref_map>>
  BY SocketCloseFacts DEF TypeInv, Close, revars
<1>3. CountedStays
  BY CloseCounted DEF CountedChange, CountedStays, IsPipe
<1>4. QED
  BY <1>1, <1>2, <1>3, QuietMaps

LEMMA ClosePipeMaps ==
  ASSUME TypeInv, TableInv, CallsInv, MapInv, OnePipe, TypeInv', NEW p \in Pids,
         NEW x \in Channels, NEW e \in Ends, Close(p, x, e), kind[x] # "socket"
  PROVE  MapInv'
<1> DEFINE i == IndexOf(all_pipe_objects, x)
<1>1. /\ pc[p] = "idle" /\ pc'[p] = "closing" /\ Others(p) /\ UNCHANGED <<kind, uid>>
  BY CloseMove DEF CalledAs
<1>2. CountedChange(p, x, Counted(p, x) \ {e}) /\ e \in Counted(p, x)
  BY CloseCounted
<1>3. IsPipe(x) /\ i # 0
  BY <1>2, IndexOfRow DEF IsPipe, MapInv, Known, TypeInv, TablesTyped, CTTypeOK
<1>4. /\ UNCHANGED subjects /\ pipe_ref_map' = Decremented(Sid(p), i)
      /\ i \in 1..Len(all_pipe_objects)
      /\ all_pipe_objects[i].ref_count > 1 =>
              \E row \in ChannelRow :
                /\ all_pipe_objects' = Replaced(all_pipe_objects, i, row)
                /\ row.channel = all_pipe_objects[i].channel
                /\ row.ref_count = all_pipe_objects[i].ref_count - 1
                /\ FlowsTo(all_pipe_objects[i], row)
      /\ ~(all_pipe_objects[i].ref_count > 1) =>
              /\ all_pipe_objects' = RemoveAt(all_pipe_objects, i)
              /\ all_pipe_objects[i].ref_count = 1
  BY <1>3, PipeCloseFacts DEF TypeInv, Close, revars
<1> HIDE DEF i
<1>5. /\ i = 1 /\ Len(all_pipe_objects) = 1 /\ all_pipe_objects[1].channel = x
      /\ all_pipe_objects[1].ref_count \in Nat
  <2>1. /\ Len(all_pipe_objects) \in Nat /\ all_pipe_objects[i].channel = x
        /\ all_pipe_objects[i].ref_count \in Nat
    BY <1>3, <1>4, PipeRows DEF OnePipe
  <2>2. \A j \in 1..Len(all_pipe_objects) : j = 1
    BY OneRowOnly
  <2>3. Len(all_pipe_objects) \in 1..Len(all_pipe_objects)
    BY <1>4, <2>1
  <2>4. QED
    BY <1>4, <2>1, <2>2, <2>3
<1>6. MapsTyped /\ MapsTypeOK
  BY MapRows
<1>7. Sid(p) \in SubjectIds /\ Sid(p) \in DOMAIN subjects
  BY <1>1, SidType DEF TypeInv, CallsInv, CallInv
<1>8. ASSUME NEW q \in Pids
      PROVE  /\ Counted(q, x) \subseteq Ends /\ Cardinality(Counted(q, x)) \in Nat
             /\ Cardinality(Counted(q, x)) = 0 <=> Counted(q, x) = {}
             /\ IsFiniteSet(Counted(q, x))
  <2>1. Counted(q, x) \subseteq Ends
    BY DEF Counted
  <2>2. QED
    BY <2>1, EndsFinite
<1>9. RefCount(pipe_ref_map, {Sid(p)}, 1) = Cardinality(Counted(p, x))
  BY <1>1, <1>5 DEF MapInv, Matched
<1>10. Cardinality(Counted(p, x) \ {e}) = Cardinality(Counted(p, x)) - 1
  <2>1. IsFiniteSet(Counted(p, x))
    BY <1>8
  <2>2. QED
    BY <1>2, <2>1, FS_RemoveElement
<1>11. MapIndex(Sid(p), i) # 0
  <2>1. ASSUME MapIndex(Sid(p), i) = 0
        PROVE  FALSE
    <3>1. \A n \in 1..Len(pipe_ref_map) :
            ~(pipe_ref_map[n].subject \in {Sid(p)} /\ pipe_ref_map[n].index = 1)
      BY <1>5, <1>6, <2>1, MapIndexFacts DEF MapsTyped
    <3>2. RefCount(pipe_ref_map, {Sid(p)}, 1) = 0
      BY <1>6, <3>1, RefCountNone DEF MapsTyped
    <3>3. QED
      BY <1>2, <1>8, <1>9, <3>2
  <2>2. QED
    BY <2>1
<1>12. /\ pipe_ref_map' \in Seq(RefMapRow) /\ KeysWithin(pipe_ref_map', {})
       /\ \A S : RefCount(pipe_ref_map', S, 1)
                  = RefCount(pipe_ref_map, S, 1) - IF Sid(p) \in S THEN 1 ELSE 0
  BY <1>4, <1>5, <1>6, <1>11, DecrementedFacts
<1>13. \A S : RefCount(pipe_ref_map, S, 1) \in Nat /\ RefCount(pipe_ref_map', S, 1) \in Nat
  BY <1>6, <1>12, RefCountType DEF MapsTyped
<1>14. ASSUME NEW n \in 1..Len(pipe_ref_map')
       PROVE  /\ pipe_ref_map'[n].index = 1 /\ pipe_ref_map'[n].subject \in DOMAIN subjects'
  BY <1>4, <1>12 DEF KeysWithin, MapInv, Mapped
<1>15. RefCount(pipe_ref_map', SubjectIds, 1) = all_pipe_objects[1].ref_count - 1
  BY <1>5, <1>7, <1>12 DEF MapInv, Agreed
<1>16. ASSUME NEW q \in Pids, pc'[q] \notin {"free", "forked"}
       PROVE  RefCount(pipe_ref_map', {Sid(q)'}, 1) = Cardinality(Counted(q, x)')
  <2>1. Sid(q)' = Sid(q) /\ pc[q] \notin {"free", "forked"}
    BY <1>1, <1>16 DEF Sid, Others
  <2>2. RefCount(pipe_ref_map, {Sid(q)}, 1) = Cardinality(Counted(q, x))
    BY <1>5, <2>1 DEF MapInv, Matched
  <2>3. CASE q = p
    <3>1. Cardinality(Counted(q, x)') = Cardinality(Counted(q, x)) - 1
      BY <1>2, <1>10, <2>3 DEF CountedChange
    <3>2. QED
      BY <1>12, <2>1, <2>2, <2>3, <3>1
  <2>4. CASE q # p
    <3>1. Sid(p) \notin {Sid(q)}
      BY <2>4 DEF Sid
    <3>2. Counted(q, x)' = Counted(q, x)
      BY <1>2, <1>3, <2>4 DEF CountedChange
    <3>3. QED
      BY <1>12, <1>13, <2>1, <2>2, <3>1, <3>2
  <2>5. QED
    BY <2>3, <2>4
<1>17. CASE all_pipe_objects[i].ref_count > 1
  <2>1. PICK row \in ChannelRow :
                /\ all_pipe_objects' = Replaced(all_pipe_objects, i, row)
                /\ row.channel = all_pipe_objects[i].channel
                /\ row.ref_count = all_pipe_objects[i].ref_count - 1
                /\ FlowsTo(all_pipe_objects[i], row)
    BY <1>4, <1>17
  <2>2. /\ Len(all_pipe_objects') = Len(all_pipe_objects) /\ all_pipe_objects'[i] = row
    BY <1>4, <2>1, ReplacedRow DEF TypeInv, TablesTyped, CTTypeOK
  <2>3. \A y \in Channels : IsPipe(y)' => y = x
    BY <1>1, <1>3 DEF IsPipe, OnePipe
  <2>4. QED
    BY <1>5, <1>14, <1>15, <1>16, <2>1, <2>2, <2>3, MapMade
<1>18. CASE ~(all_pipe_objects[i].ref_count > 1)
  <2>1. all_pipe_objects' = RemoveAt(all_pipe_objects, i) /\ all_pipe_objects[1].ref_count = 1
    BY <1>4, <1>5, <1>18
  <2>2. Len(all_pipe_objects') = 0
    <3>1. all_pipe_objects \in Seq(ChannelRow)
      BY DEF TypeInv, TablesTyped, CTTypeOK
    <3>2. Len(RemoveAt(all_pipe_objects, i)) = Len(all_pipe_objects) - 1
      BY <1>4, <3>1, RemoveAtFacts
    <3>3. QED
      BY <1>5, <2>1, <3>2
  <2>3. RefCount(pipe_ref_map', SubjectIds, 1) = 0
    BY <1>15, <2>1
  <2>4. Len(pipe_ref_map') = 0
    <3>1. ASSUME NEW n \in 1..Len(pipe_ref_map')
          PROVE  FALSE
      <4>1. pipe_ref_map'[n] \in RefMapRow
        BY <1>12, ElementOfSeq
      <4>2. pipe_ref_map'[n].subject \in SubjectIds /\ pipe_ref_map'[n].ref_count \in Nat \ {0}
        BY <4>1 DEF RefMapRow
      <4>3. Part(pipe_ref_map'[n], SubjectIds, 1) <= 0
        BY <1>12, <2>3, RefCountType
      <4>4. QED
        BY <1>14, <4>2, <4>3 DEF Part
    <3>2. Len(pipe_ref_map') \in Nat
      BY <1>12, LenProperties
    <3>3. QED
      BY <3>1, <3>2
  <2>5. ASSUME NEW q \in Pids
        PROVE  Counted(q, x)' = {}
    <3>1. CASE pc'[q] \in {"free", "forked"}
      <4>1. q # p
        BY <1>1, <3>1
      <4>2. pc[q] \in {"free", "forked"}
        BY <1>1, <3>1, <4>1 DEF Others
      <4>3. Counted(q, x) = {}
        BY <4>2 DEF Counted, CallsInv, CallInv
      <4>4. QED
        BY <1>2, <1>3, <4>1, <4>3 DEF CountedChange
    <3>2. CASE pc'[q] \notin {"free", "forked"}
      <4>1. RefCount(pipe_ref_map', {Sid(q)'}, 1) <= RefCount(pipe_ref_map', SubjectIds, 1)
        <5>1. q # p => pc[q] \notin {"free", "forked"}
          BY <3>2, <1>1 DEF Others
        <5>2. pc[q] # "free" /\ Sid(q)' = Sid(q)
          BY <1>1, <5>1 DEF Sid
        <5>3. Sid(q)' \in SubjectIds
          BY <5>2, SidType DEF TypeInv
        <5>4. {Sid(q)'} \subseteq SubjectIds
          BY <5>3
        <5>5. QED
          BY <1>12, <5>4, RefCountMore
      <4>2. Cardinality(Counted(q, x)') = 0
        BY <1>13, <1>16, <2>3, <3>2, <4>1
      <4>3. Counted(q, x)' \subseteq Ends
        BY DEF Counted
      <4>4. QED
        BY <4>2, <4>3, EndsFinite
    <3>3. QED
      BY <3>1, <3>2
  <2>6. \A y \in Channels : IsPipe(y)' => y = x
    BY <1>1, <1>3 DEF IsPipe, OnePipe
  <2>7. Known'
    BY <2>5, <2>6 DEF Known
  <2>8. \A n \in 1..0 : FALSE
    OBVIOUS
  <2>9. QED
    BY <2>2, <2>4, <2>7, <2>8 DEF MapInv, Mapped, Agreed, Matched
<1>19. QED
  BY <1>17, <1>18

-----------------------------------------------------------------------------
(* fork_check, and all steps *)

LEMMA ForkCheckMaps ==
  ASSUME TypeInv, TableInv, CallsInv, MapInv, OnePipe, TypeInv', NEW c \in Pids,
         ForkCheck(c), server' = "up"
  PROVE  MapInv'
<1>1. PICK p : p = on[c][1]
  OBVIOUS
<1>2. PICK s : s = Sid(p)
  OBVIOUS
<1>3. PICK t : t = Sid(c)
  OBVIOUS
<1>4. /\ p \in Pids /\ p # c /\ pc[p] = "forkwait" /\ pc[c] = "forked"
      /\ fork_check_and_copy(uid[c], c, p)
      /\ pc'[p] = "idle" /\ pc'[c] = "idle"
      /\ \A q \in Pids : q # p /\ q # c => pc'[q] = pc[q]
      /\ UNCHANGED <<kind, uid>>
  BY <1>1, ForkCheckMove
<1>5. /\ uid[c] = uid[p] /\ s = <<uid[c], p>> /\ t = <<uid[c], c>> /\ t \in SubjectIds
      /\ s \in DOMAIN subjects /\ t \notin DOMAIN subjects
  <2>1. t \in SubjectIds /\ uid[c] \in Users
    BY <1>4, <1>3, SidType DEF TypeInv
  <2>2. QED
    BY <1>1, <1>4, <1>2, <1>3, <2>1 DEF CallsInv, CallInv, Sid
<1>6. /\ DOMAIN subjects' = DOMAIN subjects \cup {t}
      /\ all_pipe_objects' = CountedCopies(s) /\ pipe_ref_map' = CopiedMaps(s, t)
  BY <1>4, <1>5, ForkedRow
<1>7. /\ Len(all_pipe_objects') = Len(all_pipe_objects) /\ Len(all_pipe_objects) \in Nat
      /\ \A i \in 1..Len(all_pipe_objects) :
           /\ all_pipe_objects'[i].channel = all_pipe_objects[i].channel
           /\ all_pipe_objects'[i].ref_count
                = all_pipe_objects[i].ref_count + RefCount(pipe_ref_map, {s}, i)
      /\ \A y : InTable(all_pipe_objects', y) <=> InTable(all_pipe_objects, y)
  <2>1. all_pipe_objects \in Seq(ChannelRow) /\ CTTypeOK
    BY DEF TypeInv, TablesTyped, CTTypeOK
  <2>2. /\ all_pipe_objects' \in Seq(ChannelRow)
        /\ Len(all_pipe_objects') = Len(all_pipe_objects)
        /\ \A i \in 1..Len(all_pipe_objects) :
             /\ all_pipe_objects'[i].channel = all_pipe_objects[i].channel
             /\ all_pipe_objects'[i].ref_count
                  = all_pipe_objects[i].ref_count + RefCount(pipe_ref_map, {s}, i)
    BY <1>6, <2>1, CopiesFacts
  <2>3. \A y : InTable(all_pipe_objects', y) <=> InTable(all_pipe_objects, y)
    BY <2>1, <2>2, ChannelsStay
  <2>4. QED
    BY <2>2, <2>3, PipeRows
<1>8. MapsTyped /\ MapsTypeOK
  BY MapRows
<1>9. KeysWithin(CopiedMaps(s, t), CopiedKeys(s, t))
  BY <1>5, <1>8, CopiedMapsFacts
<1>10. \A S, i : RefCount(pipe_ref_map, S, i) \in Nat
  BY <1>8, RefCountType DEF MapsTyped
<1>11. ASSUME NEW S, NEW i
       PROVE  /\ t \in S => RefCount(pipe_ref_map', S, i)
                     = RefCount(pipe_ref_map, S, i) + RefCount(pipe_ref_map, {s}, i)
              /\ t \notin S => RefCount(pipe_ref_map', S, i) = RefCount(pipe_ref_map, S, i)
  <2>1. t \in SubjectIds /\ MapsTypeOK
    BY <1>5, <1>8
  <2>2. RefCount(CopiedMaps(s, t), S, i)
          = RefCount(pipe_ref_map, S, i) + IF t \in S THEN OwnCount(s, i) ELSE 0
    BY <2>1, CopiedMapsFacts
  <2>3. RefCount(pipe_ref_map, S, i) \in Nat /\ OwnCount(s, i) = RefCount(pipe_ref_map, {s}, i)
    BY <1>10 DEF OwnCount
  <2>4. QED
    BY <1>6, <2>2, <2>3
<1>12. \A n \in 1..Len(pipe_ref_map') :
         \/ <<pipe_ref_map'[n].subject, pipe_ref_map'[n].index>> \in CopiedKeys(s, t)
         \/ \E m \in 1..Len(pipe_ref_map) :
              /\ pipe_ref_map'[n].subject = pipe_ref_map[m].subject
              /\ pipe_ref_map'[n].index = pipe_ref_map[m].index
  BY <1>6, <1>9 DEF KeysWithin
<1>13. /\ \A y : Counted(c, y)' = Counted(p, y)
      /\ \A q \in Pids : \A y : q # c => Counted(q, y)' = Counted(q, y)
  BY <1>1, ForkCheckCounted
<1>14. Known'
  <2>1. ASSUME NEW q \in Pids, NEW y \in Channels, IsPipe(y)', Counted(q, y)' # {}
        PROVE  InTable(all_pipe_objects', y)
    <3>1. IsPipe(y)
      BY <1>4, <2>1 DEF IsPipe
    <3>2. Counted(q, y) # {} \/ Counted(p, y) # {}
      BY <1>13, <2>1
    <3>3. QED
      BY <1>4, <1>7, <3>1, <3>2 DEF MapInv, Known
  <2>2. QED
    BY <2>1 DEF Known, InTable
<1>15. Mapped'
  <2>1. ASSUME NEW n \in 1..Len(pipe_ref_map')
        PROVE  /\ pipe_ref_map'[n].index = 1 /\ Len(all_pipe_objects') # 0
               /\ pipe_ref_map'[n].subject \in DOMAIN subjects'
    <3>1. CASE <<pipe_ref_map'[n].subject, pipe_ref_map'[n].index>> \in CopiedKeys(s, t)
      <4>1. PICK m \in 1..Len(pipe_ref_map) :
              pipe_ref_map'[n].subject = t /\ pipe_ref_map'[n].index = pipe_ref_map[m].index
        BY <3>1 DEF CopiedKeys
      <4>2. QED
        BY <1>6, <1>7, <4>1 DEF MapInv, Mapped
    <3>2. CASE \E m \in 1..Len(pipe_ref_map) :
                 /\ pipe_ref_map'[n].subject = pipe_ref_map[m].subject
                 /\ pipe_ref_map'[n].index = pipe_ref_map[m].index
      BY <1>6, <1>7, <3>2 DEF MapInv, Mapped
    <3>3. QED
      BY <1>12, <3>1, <3>2
  <2>2. QED
    BY <2>1 DEF Mapped
<1>16. Agreed'
  <2>1. ASSUME NEW i \in 1..Len(all_pipe_objects)
        PROVE  all_pipe_objects'[i].ref_count = RefCount(pipe_ref_map', SubjectIds, i)
    <3>1. all_pipe_objects[i].ref_count = RefCount(pipe_ref_map, SubjectIds, i)
      BY DEF MapInv, Agreed
    <3>2. RefCount(pipe_ref_map', SubjectIds, i)
            = RefCount(pipe_ref_map, SubjectIds, i) + RefCount(pipe_ref_map, {s}, i)
      BY <1>5, <1>11
    <3>3. QED
      BY <1>7, <3>1, <3>2
  <2>2. QED
    BY <1>7, <2>1 DEF Agreed
<1>17. ASSUME NEW q \in Pids
       PROVE  Matched(q)'
  <2>1. ASSUME pc'[q] \notin {"free", "forked"}, NEW i \in 1..Len(all_pipe_objects)
        PROVE  RefCount(pipe_ref_map', {Sid(q)'}, i)
                 = Cardinality(Counted(q, all_pipe_objects[i].channel)')
    <3>1. PICK y : y = all_pipe_objects[i].channel /\ y = all_pipe_objects'[i].channel
      BY <1>7
    <3>2. Sid(q)' = Sid(q)
      BY <1>4, SameSid
    <3>3. Counted(q, all_pipe_objects[i].channel)' = Counted(q, y)'
      BY <3>1 DEF Counted
    <3>4. CASE q = c
      <4>1. RefCount(pipe_ref_map, {t}, i) = 0
        <5>1. \A n \in 1..Len(pipe_ref_map) :
                ~(pipe_ref_map[n].subject \in {t} /\ pipe_ref_map[n].index = i)
          BY <1>5 DEF MapInv, Mapped
        <5>2. QED
          BY <1>8, <5>1, RefCountNone DEF MapsTyped
      <4>2. RefCount(pipe_ref_map', {t}, i) = RefCount(pipe_ref_map, {s}, i)
        <5>1. t \in {t}
          OBVIOUS
        <5>2. RefCount(pipe_ref_map', {t}, i)
                = RefCount(pipe_ref_map, {t}, i) + RefCount(pipe_ref_map, {s}, i)
          BY <1>11, <5>1
        <5>3. QED
          BY <1>10, <4>1, <5>2
      <4>3. RefCount(pipe_ref_map, {s}, i) = Cardinality(Counted(p, y))
        BY <1>4, <1>2, <3>1 DEF MapInv, Matched
      <4>4. Counted(q, y)' = Counted(p, y)
        BY <1>13, <3>4
      <4>5. QED
        BY <3>2, <3>4, <3>3, <4>2, <4>3, <4>4, <1>3
    <3>5. CASE q # c
      <4>1. t \notin {Sid(q)}
        BY <1>3, <3>5 DEF Sid
      <4>2. RefCount(pipe_ref_map', {Sid(q)}, i) = RefCount(pipe_ref_map, {Sid(q)}, i)
        BY <1>11, <4>1
      <4>3. pc[q] \notin {"free", "forked"}
        BY <1>4, <2>1, <3>5
      <4>4. RefCount(pipe_ref_map, {Sid(q)}, i) = Cardinality(Counted(q, y))
        BY <3>1, <4>3 DEF MapInv, Matched
      <4>5. Counted(q, y)' = Counted(q, y)
        BY <1>13, <3>5
      <4>6. QED
        BY <3>2, <3>3, <4>2, <4>4, <4>5
    <3>6. QED
      BY <3>4, <3>5
  <2>2. QED
    BY <1>7, <2>1 DEF Matched
<1>18. QED
  BY <1>14, <1>15, <1>16, <1>17 DEF MapInv

LEMMA NextMaps ==
  ASSUME TypeInv, TableInv, CallsInv, MapInv, OnePipe, TypeInv', Next, server' = "up"
  PROVE  MapInv'
<1>1. ASSUME NEW p \in Pids, NEW x \in Channels, NEW e \in Ends, Close(p, x, e)
      PROVE  MapInv'
  BY <1>1, CloseSocketMaps, ClosePipeMaps
<1>2. QED
  BY <1>1, OpenMaps, OpenCheckMaps, ReadMaps, ReadCheckMaps, WriteMaps, WriteDataMaps,
     CloseFdMaps, ForkMaps, ForkCheckMaps, ExitMaps, ReadFileMaps, SocketMaps DEF Next

\* Every step is made while the server is up, and only pipe() changes a kind.
LEMMA KindChanges ==
  ASSUME Next
  PROVE  /\ server = "up"
         /\ UNCHANGED kind \/ \E p \in Pids, x \in Channels : Pipe(p, x)
<1>1. ASSUME NEW p \in Pids, NEW x \in Channels, Pipe(p, x) \/ Connect(p, x) \/ Accept(p, x)
      PROVE  server = "up" /\ (Pipe(p, x) \/ UNCHANGED kind)
  BY <1>1 DEF At, Pipe, Connect, Accept
<1>2. ASSUME NEW p \in Pids, NEW x \in Channels, NEW e \in {"r", "w"}, OpenFifo(p, x, e)
      PROVE  server = "up" /\ UNCHANGED kind
  BY <1>2 DEF At, OpenFifo
<1>3. ASSUME NEW p \in Pids, NEW x \in Channels, NEW e \in Ends,
             Read(p, x, e) \/ Write(p, x, e) \/ Close(p, x, e)
      PROVE  server = "up" /\ UNCHANGED kind
  BY <1>3 DEF At, Read, Write, Close
<1>4. ASSUME NEW p \in Pids, OpenCheck(p) \/ ReadCheck(p) \/ WriteData(p) \/ CloseFd(p)
      PROVE  server = "up" /\ UNCHANGED kind
  BY <1>4 DEF At, OpenCheck, ReadCheck, WriteData, CloseFd
<1>5. ASSUME NEW p \in Pids, NEW c \in Pids, Fork(p, c) \/ ForkCheck(c) \/ Exit(c)
      PROVE  server = "up" /\ UNCHANGED kind
  BY <1>5 DEF At, Fork, ForkCheck, Exit
<1>6. ASSUME NEW p \in Pids, NEW f \in Files, ReadFile(p, f)
      PROVE  server = "up" /\ UNCHANGED kind
  BY <1>6 DEF At, ReadFile
<1>7. ASSUME NEW p \in Pids, NEW x \in Channels, NEW e \in {"c", "s"},
             ReadSocket(p, x, e) \/ WriteSocket(p, x, e)
      PROVE  server = "up" /\ UNCHANGED kind
  BY <1>7 DEF At, ReadSocket, WriteSocket
<1>8. QED
  BY <1>1, <1>2, <1>3, <1>4, <1>5, <1>6, <1>7 DEF Next

LEMMA OnePipeStays ==
  ASSUME TypeInv, [Next]_vars
  PROVE  OnePipe' <=> OnePipe
<1>1. \A x \in Channels : IsPipe(x)' <=> IsPipe(x)
  <2>1. \/ UNCHANGED kind
        \/ \E p \in Pids, x \in Channels : Pipe(p, x)
    BY KindChanges DEF vars
  <2>2. QED
    BY <2>1 DEF Pipe, TypeInv, ProcTyped, IsPipe
<1>2. QED
  BY <1>1 DEF OnePipe

LEMMA InitCalls == Init => CallsInv
<1> SUFFICES ASSUME Init, NEW p \in Pids
             PROVE  CallInv(p)
  BY DEF CallsInv
<1>1. /\ pc[p] \in {"idle", "free"} /\ fds[p] = {} /\ know[p] = {} /\ buf[p] = {}
      /\ pc[p] = "idle" => p \in Workers /\ uid[p] = WorkerUser[p]
  BY DEF Init
<1>2. pc[p] = "idle" => Sid(p) \in DOMAIN subjects
  BY <1>1 DEF Init, Sid
<1>3. QED
  BY <1>1, <1>2 DEF CallInv

LEMMA InitMaps == Init => MapInv
<1> SUFFICES ASSUME Init
             PROVE  MapInv
  OBVIOUS
<1>1. all_pipe_objects = <<>> /\ pipe_ref_map = <<>> /\ \A p \in Pids : fds[p] = {}
  BY DEF Init
<1>2. \A i : i \notin 1..Len(all_pipe_objects) /\ i \notin 1..Len(pipe_ref_map)
  BY <1>1
<1>3. \A p \in Pids : \A x : Counted(p, x) = {}
  BY <1>1 DEF Counted
<1>4. QED
  BY <1>2, <1>3 DEF MapInv, Known, Mapped, Agreed, Matched

-----------------------------------------------------------------------------
(* What the invariants say of the descriptors *)

LEMMA SettledEnds ==
  ASSUME TypeInv, NEW p \in Pids, Settled(p), NEW x
  PROVE  Cardinality({d \in fds[p] : d[1] = x}) = Cardinality(Counted(p, x))
<1> DEFINE E == Counted(p, x)
           D == {d \in fds[p] : d[1] = x}
<1>1. E = {e \in Ends : <<x, e>> \in fds[p]}
  BY DEF Counted, Settled
<1>2. IsFiniteSet(E)
  <2>1. E \subseteq Ends
    BY <1>1
  <2>2. QED
    BY <2>1, EndsFinite
<1>3. fds[p] \subseteq Channels \X Ends
  BY DEF TypeInv, ProcTyped
<1>4. ASSUME NEW d
      PROVE  d \in D <=> \E e \in E : d = <<x, e>>
  <2>1. d \in D => d = <<x, d[2]>> /\ d[2] \in Ends /\ d \in fds[p]
    BY <1>3
  <2>2. d \in D => d[2] \in E
    BY <1>1, <2>1
  <2>3. (\E e \in E : d = <<x, e>>) => d \in D
    BY <1>1
  <2>4. QED
    BY <2>1, <2>2, <2>3
<1> HIDE DEF E, D
<1> DEFINE f == [e \in E |-> <<x, e>>]
<1>5. f \in Surjection(E, D) /\ f \in Injection(E, D)
  <2>1. f \in [E -> D]
    BY <1>4
  <2>2. \A d \in D : \E e \in E : f[e] = d
    BY <1>4
  <2>3. \A a, b \in E : f[a] = f[b] => a = b
    OBVIOUS
  <2> HIDE DEF f
  <2>4. QED
    BY <2>1, <2>2, <2>3 DEF Injection, Surjection, IsInjective
<1> HIDE DEF f
<1>6. Cardinality(E) = Cardinality(D)
  BY <1>2, <1>5, FS_Surjection
<1>7. QED
  BY <1>6 DEF E, D

LEMMA MappingsDoMatch ==
  ASSUME TypeInv, TableInv, MapInv
  PROVE  MappingsMatch
<1>1. CountsAgree
  BY CountsAre DEF MapInv
<1>2. ASSUME NEW p \in Pids, Settled(p), NEW i \in DOMAIN all_pipe_objects
      PROVE  RefCount(pipe_ref_map, {Sid(p)}, i)
               = Cardinality({d \in fds[p] : d[1] = all_pipe_objects[i].channel})
  <2>1. i \in 1..Len(all_pipe_objects)
    BY LenProperties DEF TypeInv, TablesTyped, CTTypeOK
  <2>2. RefCount(pipe_ref_map, {Sid(p)}, i) = Cardinality(Counted(p, all_pipe_objects[i].channel))
    BY <1>2, <2>1 DEF MapInv, Matched, Settled
  <2>3. QED
    BY <1>2, <2>2, SettledEnds
<1>3. QED
  BY <1>1, <1>2 DEF MappingsMatch

LEMMA OpenAreKnown ==
  ASSUME TypeInv, Known
  PROVE  OpenPipesAreKnown
<1>1. ASSUME NEW p \in Pids, Settled(p), NEW d \in fds[p], kind[d[1]] # "socket"
      PROVE  IndexOf(all_pipe_objects, d[1]) # 0
  <2>1. PICK x \in Channels, e \in Ends : d = <<x, e>>
    BY DEF TypeInv, ProcTyped
  <2>2. e \in Counted(p, x)
    BY <1>1, <2>1 DEF Counted, Settled
  <2>3. InTable(all_pipe_objects, x)
    BY <1>1, <2>1, <2>2 DEF Known, IsPipe
  <2>4. all_pipe_objects \in Seq(ChannelRow)
    BY DEF TypeInv, TablesTyped, CTTypeOK
  <2>5. QED
    BY <2>1, <2>3, <2>4, IndexOfRow
<1>2. QED
  BY <1>1 DEF OpenPipesAreKnown

-----------------------------------------------------------------------------
(* Theorems for a single pipe *)

\* While the server is up its tables know who makes which call.
Ready == server = "up" => CallsInv

(***************************************************************************)
(* Every process that is not free has a row, every call is about something *)
(* that the process has open, and a forked child has what its parent had:  *)
(* so no check is made for somebody, or about something, that the server   *)
(* could not know.                                                         *)
(***************************************************************************)
THEOREM ChannelCalls == Spec => []Ready
<1>1. TypeInv /\ TableInv /\ Ready /\ [Next]_vars => Ready'
  <2>1. CASE Next
    BY <2>1, KindChanges, NextCalls DEF Ready
  <2>2. CASE UNCHANGED vars
    BY <2>2 DEF vars, revars, ctvars, Ready, CallsInv, CallInv, Sid, IsPipe
  <2>3. QED
    BY <2>1, <2>2
<1>2. Init => Ready
  BY InitCalls DEF Ready
<1>3. QED
  BY <1>1, <1>2, ChannelInvariant, PTL DEF Spec

\* The invariant of a single pipe.
Single == OnePipe /\ (server = "up" => MapInv)

(***************************************************************************)
(* Of a single pipe or fifo the mappings count for each process the ends   *)
(* that it has open and has told the server of, and the row counts their   *)
(* sum, through opens, closes, forks and exits in any order.               *)
(***************************************************************************)
THEOREM SinglePipe == Spec /\ OnePipe => []Single
<1>1. /\ TypeInv /\ TableInv /\ Ready /\ (TypeInv /\ TableInv)' /\ Single /\ [Next]_vars
      => Single'
  <2> SUFFICES ASSUME TypeInv, TableInv, Ready, TypeInv', Single, [Next]_vars
               PROVE  Single'
    OBVIOUS
  <2>1. OnePipe'
    BY OnePipeStays DEF Single
  <2>2. CASE Next
    BY <2>1, <2>2, KindChanges, NextMaps DEF Single, Ready
  <2>3. CASE UNCHANGED vars
    <3>1. /\ UNCHANGED <<server, subjects, all_pipe_objects, pipe_ref_map, kind, pc, uid, on>>
          /\ UNCHANGED fds
      BY <2>3 DEF vars, revars, ctvars
    <3>2. MapInv => MapInv'
      <4>1. \A q : /\ Matched(q)' <=> Matched(q)
                   /\ \A y : Counted(q, y)' = Counted(q, y)
        BY <3>1 DEF Matched, Counted, Sid
      <4>2. (Known' <=> Known) /\ (Mapped' <=> Mapped) /\ (Agreed' <=> Agreed)
        BY <3>1, <4>1 DEF Known, Mapped, Agreed, InTable, IsPipe
      <4>3. QED
        BY <4>1, <4>2 DEF MapInv
    <3>3. QED
      BY <2>1, <3>1, <3>2 DEF Single
  <2>4. QED
    BY <2>2, <2>3
<1>2. Init /\ OnePipe => Single
  BY InitMaps DEF Single
<1>3. QED
  BY <1>1, <1>2, ChannelInvariant, ChannelCalls, PTL DEF Spec

(***************************************************************************)
(* So the count in the row of a pipe is the sum of what the mappings say   *)
(* of it, and each mapping tells the open ends of its process, between any *)
(* two calls.  MappingsMatch says this of the only pipe; of several it is  *)
(* false once a row is removed: the mappings keep the old positions.       *)
(***************************************************************************)
THEOREM SinglePipeMatches == Spec => []MappingsMatch
<1>1. TypeInv /\ TableInv /\ Single => MappingsMatch
  BY MappingsDoMatch DEF Single, MappingsMatch
<1>2. TypeInv /\ ~OnePipe /\ [Next]_vars => ~OnePipe'
  BY OnePipeStays
<1>3. ~OnePipe => MappingsMatch
  BY DEF MappingsMatch
<1>4. QED
  BY <1>1, <1>2, <1>3, ChannelInvariant, SinglePipe, PTL DEF Spec

-----------------------------------------------------------------------------
(* Any number of pipes, and nobody forks *)

(***************************************************************************)
(* A pipe counts at least the ends that are open.  So its row is removed   *)
(* only with the last of them.                                             *)
(***************************************************************************)
CountedEnds(x) == {d \in Pids \X Ends : d[2] \in Counted(d[1], x)}

\* The open ends of x are not more than n.
Enough(x, n) == IsFiniteSet(CountedEnds(x)) /\ Cardinality(CountedEnds(x)) <= n

\* The row of a pipe counts each open end at least once.
CountInv ==
  /\ Known
  /\ \A i \in 1..Len(all_pipe_objects) :
       Enough(all_pipe_objects[i].channel, all_pipe_objects[i].ref_count)

LEMMA EnoughKept ==
  ASSUME NEW x, NEW n \in Nat, NEW m \in Nat, n <= m, Enough(x, n),
         \A q \in Pids : Counted(q, x)' \subseteq Counted(q, x)
  PROVE  Enough(x, m)'
<1>1. CountedEnds(x)' \subseteq CountedEnds(x) /\ IsFiniteSet(CountedEnds(x))
  BY DEF CountedEnds, Enough
<1>2. /\ IsFiniteSet(CountedEnds(x)') /\ Cardinality(CountedEnds(x)') \in Nat
      /\ Cardinality(CountedEnds(x)') <= Cardinality(CountedEnds(x))
      /\ Cardinality(CountedEnds(x)) \in Nat
  BY <1>1, FS_Subset, FS_CardinalityType
<1>3. Cardinality(CountedEnds(x)) <= n
  BY DEF Enough
<1>4. Cardinality(CountedEnds(x)') <= m
  BY <1>2, <1>3
<1>5. QED
  BY <1>2, <1>4 DEF Enough

\* Where a row of the new table comes from.
LEMMA CountMade ==
  ASSUME TypeInv, TableInv, CountInv, TypeInv', TableInv', Known',
         \A j \in 1..Len(all_pipe_objects') :
           \E y, n : /\ y = all_pipe_objects'[j].channel /\ n = all_pipe_objects'[j].ref_count
                     /\ \/ Enough(y, n)'
                        \/ \E i \in 1..Len(all_pipe_objects) :
                             /\ y = all_pipe_objects[i].channel
                             /\ all_pipe_objects[i].ref_count <= n
                             /\ \A q \in Pids : Counted(q, y)' \subseteq Counted(q, y)
  PROVE  CountInv'
<1>1. ASSUME NEW j \in 1..Len(all_pipe_objects')
      PROVE  Enough(all_pipe_objects[j].channel, all_pipe_objects[j].ref_count)'
  <2>1. PICK y, n : /\ y = all_pipe_objects'[j].channel /\ n = all_pipe_objects'[j].ref_count
                    /\ \/ Enough(y, n)'
                       \/ \E i \in 1..Len(all_pipe_objects) :
                            /\ y = all_pipe_objects[i].channel
                            /\ all_pipe_objects[i].ref_count <= n
                            /\ \A q \in Pids : Counted(q, y)' \subseteq Counted(q, y)
    OBVIOUS
  <2>2. n \in Nat
    <3>1. all_pipe_objects' \in Seq(ChannelRow)
      BY DEF TypeInv, TablesTyped, CTTypeOK
    <3>2. all_pipe_objects'[j] \in ChannelRow
      BY <3>1, ElementOfSeq
    <3>3. QED
      BY <2>1, <3>2 DEF ChannelRow
  <2>3. ASSUME NEW i \in 1..Len(all_pipe_objects),
               y = all_pipe_objects[i].channel, all_pipe_objects[i].ref_count <= n,
               \A q \in Pids : Counted(q, y)' \subseteq Counted(q, y)
        PROVE  Enough(y, n)'
    <3>1. PICK k \in Nat : k = all_pipe_objects[i].ref_count
      BY PipeRows
    <3>2. Enough(y, k)
      BY <2>3, <3>1 DEF CountInv
    <3>3. QED
      BY <2>2, <2>3, <3>1, <3>2, EnoughKept
  <2>4. Enough(y, n)'
    BY <2>1, <2>3
  <2>5. QED
    BY <2>1, <2>4 DEF Enough, CountedEnds, Counted
<1>2. QED
  BY <1>1 DEF CountInv

\* No row changes its channel or its count.
LEMMA CountKept ==
  ASSUME TypeInv, TableInv, CountInv, TypeInv', TableInv',
         Len(all_pipe_objects') = Len(all_pipe_objects),
         \A i \in 1..Len(all_pipe_objects) :
           /\ all_pipe_objects'[i].channel = all_pipe_objects[i].channel
           /\ all_pipe_objects'[i].ref_count = all_pipe_objects[i].ref_count,
         \A x \in Channels : InTable(all_pipe_objects, x) => InTable(all_pipe_objects', x),
         \A x \in Channels : IsPipe(x)' <=> IsPipe(x),
         \A q \in Pids, y \in Channels : IsPipe(y) => Counted(q, y)' \subseteq Counted(q, y)
  PROVE  CountInv'
<1>1. Known'
  BY DEF CountInv, Known, InTable
<1>2. ASSUME NEW j \in 1..Len(all_pipe_objects')
      PROVE  \E y, n : /\ y = all_pipe_objects'[j].channel /\ n = all_pipe_objects'[j].ref_count
                       /\ \E i \in 1..Len(all_pipe_objects) :
                             /\ y = all_pipe_objects[i].channel
                             /\ all_pipe_objects[i].ref_count <= n
                             /\ \A q \in Pids : Counted(q, y)' \subseteq Counted(q, y)
  <2>1. PICK y, n : y = all_pipe_objects'[j].channel /\ n = all_pipe_objects'[j].ref_count
    OBVIOUS
  <2>2. /\ y = all_pipe_objects[j].channel /\ n = all_pipe_objects[j].ref_count
        /\ y \in Channels /\ IsPipe(y) /\ n \in Nat
    BY <2>1, PipeRows
  <2>3. /\ all_pipe_objects[j].ref_count <= n /\ j \in 1..Len(all_pipe_objects)
        /\ \A q \in Pids : Counted(q, y)' \subseteq Counted(q, y)
    BY <2>2
  <2>4. QED
    BY <2>1, <2>2, <2>3
<1>3. QED
  BY <1>1, <1>2, CountMade

LEMMA CountIdle ==
  ASSUME TypeInv, TableInv, CountInv, TypeInv', TableInv', UNCHANGED all_pipe_objects,
         \A x \in Channels : IsPipe(x)' <=> IsPipe(x),
         CountedStays \/ \A q \in Pids, y \in Channels : Counted(q, y)' \subseteq Counted(q, y)
  PROVE  CountInv'
<1>1. \A q \in Pids, y \in Channels : IsPipe(y) => Counted(q, y)' \subseteq Counted(q, y)
  BY DEF CountedStays
<1>2. QED
  BY <1>1, CountKept DEF InTable

-----------------------------------------------------------------------------
(* The steps *)

LEMMA OpenCounts ==
  ASSUME TypeInv, TableInv, CallsInv, CountInv, TypeInv', TableInv', NEW p \in Pids,
         NEW x \in Channels,
         \/ Pipe(p, x) \/ Connect(p, x) \/ Accept(p, x)
         \/ \E e \in {"r", "w"} : OpenFifo(p, x, e)
  PROVE  CountInv'
<1>1. CountedStays
  BY PipeCounted, OpenFifoCounted, SocketCounted
<1>2. UNCHANGED all_pipe_objects
  BY DEF Pipe, Connect, Accept, OpenFifo, Opened, ctvars
<1>3. \A y \in Channels : IsPipe(y)' <=> IsPipe(y)
  <2>1. UNCHANGED kind \/ (kind[x] = "unmade" /\ kind' = [kind EXCEPT ![x] = "pipe"])
    BY DEF Pipe, Connect, Accept, OpenFifo
  <2>2. QED
    BY <2>1 DEF TypeInv, ProcTyped, IsPipe
<1>4. QED
  BY <1>1, <1>2, <1>3, CountIdle

LEMMA QuietCounts ==
  ASSUME TypeInv, TableInv, CallsInv, CountInv, TypeInv', TableInv', NEW p \in Pids,
         \/ \E x \in Channels, e \in Ends : Read(p, x, e)
         \/ ReadCheck(p) \/ WriteData(p) \/ CloseFd(p) \/ Exit(p)
         \/ \E f \in Files : ReadFile(p, f)
         \/ \E x \in Channels, e \in {"c", "s"} : ReadSocket(p, x, e) \/ WriteSocket(p, x, e)
  PROVE  CountInv'
<1>1. UNCHANGED <<all_pipe_objects, kind>>
  BY ReadCheckTables DEF Read, ReadCheck, WriteData, CloseFd, Exit, ReadFile, ReadSocket,
                         WriteSocket, ctvars
<1>2. CountedStays \/ \A q \in Pids, y \in Channels : Counted(q, y)' \subseteq Counted(q, y)
  <2>1. CASE Exit(p)
    <3>1. /\ \A y : Counted(p, y)' = {}
          /\ \A q \in Pids : \A y : q # p => Counted(q, y)' = Counted(q, y)
      BY <2>1, ExitCounted
    <3>2. QED
      BY <3>1
  <2>2. QED
    BY <2>1, ReadWriteCounted, UncheckedCounted, CloseFdCounted
<1>3. QED
  BY <1>1, <1>2, CountIdle DEF IsPipe

LEMMA WriteCounts ==
  ASSUME TypeInv, TableInv, CallsInv, CountInv, TypeInv', TableInv', NEW p \in Pids,
         NEW x \in Channels, NEW e \in Ends, Write(p, x, e)
  PROVE  CountInv'
<1>1. UNCHANGED kind /\ \E ret : write_check(p, x, ret)
  BY WriteMove
<1>2. CountedStays
  BY ReadWriteCounted
<1>3. PICK ret : write_check(p, x, ret)
  BY <1>1
<1>4. \/ UNCHANGED all_pipe_objects
      \/ \E i \in 1..Len(all_pipe_objects), s \in DOMAIN subjects :
           /\ IsLabel(subjects[s])
           /\ all_pipe_objects'
                = Replaced(all_pipe_objects, i, Raise(all_pipe_objects[i], subjects[s]))
  BY <1>3, PipeWriteFacts, SendFacts DEF TypeInv, write_check
<1>5. CASE UNCHANGED all_pipe_objects
  BY <1>1, <1>2, <1>5, CountIdle DEF IsPipe
<1>6. ASSUME NEW i \in 1..Len(all_pipe_objects), NEW s \in DOMAIN subjects,
             IsLabel(subjects[s]),
             all_pipe_objects'
               = Replaced(all_pipe_objects, i, Raise(all_pipe_objects[i], subjects[s]))
      PROVE  CountInv'
  <2>1. PICK row : row = Raise(all_pipe_objects[i], subjects[s])
    OBVIOUS
  <2>2. all_pipe_objects \in Seq(ChannelRow) /\ all_pipe_objects[i] \in ChannelRow
    BY PipeRows DEF TypeInv, TablesTyped, CTTypeOK
  <2>3. /\ row \in ChannelRow /\ row.channel = all_pipe_objects[i].channel
        /\ row.ref_count = all_pipe_objects[i].ref_count
        /\ FlowsTo(all_pipe_objects[i], row)
    BY <1>6, <2>1, <2>2, RaiseChannelRow
  <2>4. all_pipe_objects' = Replaced(all_pipe_objects, i, row)
    BY <1>6, <2>1
  <2>5. /\ all_pipe_objects' \in Seq(ChannelRow)
        /\ Len(all_pipe_objects') = Len(all_pipe_objects)
        /\ \A j \in 1..Len(all_pipe_objects) :
             all_pipe_objects'[j] = IF j = i THEN row ELSE all_pipe_objects[j]
    BY <2>2, <2>3, <2>4, ReplacedRow
  <2>6. \A j \in 1..Len(all_pipe_objects) :
           /\ all_pipe_objects'[j].channel = all_pipe_objects[j].channel
           /\ all_pipe_objects'[j].ref_count = all_pipe_objects[j].ref_count
    BY <2>3, <2>5
  <2>7. \A y : InTable(all_pipe_objects', y) <=> InTable(all_pipe_objects, y)
    BY <2>2, <2>5, <2>6, ChannelsStay
  <2>8. \A y \in Channels : IsPipe(y)' <=> IsPipe(y)
    BY <1>1 DEF IsPipe
  <2>9. \A q \in Pids, y \in Channels : IsPipe(y) => Counted(q, y)' \subseteq Counted(q, y)
    BY <1>2 DEF CountedStays
  <2>10. QED
    BY <2>5, <2>6, <2>7, <2>8, <2>9, CountKept
<1>7. QED
  BY <1>4, <1>5, <1>6

\* The first open of x: the ends that p opened are the only ones.
LEMMA CountFirst ==
  ASSUME TypeInv, TableInv, CallsInv, CountInv, TypeInv', TableInv', NEW p \in Pids,
         OpenCheck(p), NEW x \in Channels, x = on[p][1], IsPipe(x),
         ~InTable(all_pipe_objects, x),
         NEW row \in ChannelRow, all_pipe_objects' = Append(all_pipe_objects, row),
         row.channel = x, row.ref_count = Cardinality(on[p][2])
  PROVE  CountInv'
<1>1. CountedChange(p, x, on[p][2]) /\ UNCHANGED kind
  BY OpenCheckCounted, OpenCheckMove
<1>2. all_pipe_objects \in Seq(ChannelRow)
  BY DEF TypeInv, TablesTyped, CTTypeOK
<1>3. /\ Len(all_pipe_objects') = Len(all_pipe_objects) + 1 /\ Len(all_pipe_objects) \in Nat
      /\ \A i \in 1..Len(all_pipe_objects) : all_pipe_objects'[i] = all_pipe_objects[i]
      /\ all_pipe_objects'[Len(all_pipe_objects) + 1] = row
  BY <1>2, AppendFacts
<1>4. all_pipe_objects' \in Seq(ChannelRow)
  BY DEF TypeInv, TablesTyped, CTTypeOK
<1>5. DOMAIN all_pipe_objects' = 1..(Len(all_pipe_objects) + 1)
  BY <1>3, <1>4, LenProperties
<1>6. Len(all_pipe_objects) + 1 \in 1..(Len(all_pipe_objects) + 1)
      /\ \A i \in 1..Len(all_pipe_objects) : i \in 1..(Len(all_pipe_objects) + 1)
  BY <1>3
<1>7. \A y : InTable(all_pipe_objects, y) \/ y = x => InTable(all_pipe_objects', y)
  BY <1>3, <1>5, <1>6, PipeRows, SMTT(30) DEF InTable
<1>8. Known'
  <2>1. ASSUME NEW q \in Pids, NEW y \in Channels, IsPipe(y)', Counted(q, y)' # {}
        PROVE  InTable(all_pipe_objects', y)
    <3>1. IsPipe(y)
      BY <1>1, <2>1 DEF IsPipe
    <3>2. y # x => Counted(q, y) # {}
      BY <1>1, <2>1, <3>1 DEF CountedChange
    <3>3. QED
      BY <1>7, <3>1, <3>2 DEF CountInv, Known
  <2>2. QED
    BY <2>1 DEF Known, InTable
<1>9. Enough(x, row.ref_count)'
  <2>1. CountedEnds(x)' = {p} \X on[p][2]
    <3>1. \A q \in Pids : Counted(q, x) = {}
      BY DEF CountInv, Known
    <3>2. /\ Counted(p, x)' = on[p][2]
          /\ \A q \in Pids : q # p => Counted(q, x)' = {}
      BY <1>1, <3>1 DEF CountedChange
    <3>3. on[p][2] \subseteq Ends
      BY DEF TypeInv, OnTyped
    <3>4. QED
      BY <3>2, <3>3 DEF CountedEnds
  <2>2. IsFiniteSet(on[p][2]) /\ Cardinality(on[p][2]) \in Nat
    <3>1. on[p][2] \subseteq Ends
      BY DEF TypeInv, OnTyped
    <3>2. QED
      BY <3>1, EndsFinite
  <2>3. IsFiniteSet({p}) /\ Cardinality({p}) = 1
    BY FS_Singleton
  <2>4. /\ IsFiniteSet({p} \X on[p][2])
        /\ Cardinality({p} \X on[p][2]) = Cardinality({p}) * Cardinality(on[p][2])
    BY <2>2, <2>3, FS_Product
  <2>5. Cardinality({p} \X on[p][2]) <= Cardinality(on[p][2])
    BY <2>2, <2>3, <2>4
  <2>6. PICK n : n = Cardinality(on[p][2])
    OBVIOUS
  <2>7. Enough(x, n)'
    BY <2>1, <2>4, <2>5, <2>6 DEF Enough
  <2>8. QED
    BY <2>6, <2>7
<1>10. ASSUME NEW j \in 1..Len(all_pipe_objects')
       PROVE  \E y, n : /\ y = all_pipe_objects'[j].channel /\ n = all_pipe_objects'[j].ref_count
                        /\ \/ Enough(y, n)'
                           \/ \E i \in 1..Len(all_pipe_objects) :
                                /\ y = all_pipe_objects[i].channel
                                /\ all_pipe_objects[i].ref_count <= n
                                /\ \A q \in Pids : Counted(q, y)' \subseteq Counted(q, y)
  <2>1. PICK y, n : y = all_pipe_objects'[j].channel /\ n = all_pipe_objects'[j].ref_count
    OBVIOUS
  <2>2. CASE j = Len(all_pipe_objects) + 1
    BY <1>3, <1>9, <2>1, <2>2
  <2>3. CASE j # Len(all_pipe_objects) + 1
    <3>1. j \in 1..Len(all_pipe_objects)
      BY <1>3, <2>3
    <3>2. /\ y = all_pipe_objects[j].channel /\ n = all_pipe_objects[j].ref_count
          /\ y \in Channels /\ IsPipe(y) /\ n \in Nat /\ InTable(all_pipe_objects, y)
      BY <1>3, <2>1, <3>1, PipeRows
    <3>3. \A q \in Pids : Counted(q, y)' \subseteq Counted(q, y)
      BY <1>1, <3>2 DEF CountedChange
    <3>4. all_pipe_objects[j].ref_count <= n
      BY <3>2
    <3>5. QED
      BY <2>1, <3>1, <3>2, <3>3, <3>4
  <2>4. QED
    BY <2>2, <2>3
<1>11. QED
  BY <1>8, <1>10, CountMade

\* One row counts one more or one less, with the ends of its channel.
LEMMA CountMoved ==
  ASSUME TypeInv, TableInv, CountInv, TypeInv', TableInv', UNCHANGED kind, NEW p \in Pids,
         NEW i \in 1..Len(all_pipe_objects), NEW x, x = all_pipe_objects[i].channel,
         NEW row \in ChannelRow, all_pipe_objects' = Replaced(all_pipe_objects, i, row),
         row.channel = x, FlowsTo(all_pipe_objects[i], row), NEW ends,
         CountedChange(p, x, ends), Enough(x, row.ref_count)'
  PROVE  CountInv'
<1>1. all_pipe_objects \in Seq(ChannelRow)
  BY DEF TypeInv, TablesTyped, CTTypeOK
<1>2. /\ all_pipe_objects' \in Seq(ChannelRow)
      /\ Len(all_pipe_objects') = Len(all_pipe_objects)
      /\ \A j \in 1..Len(all_pipe_objects) :
           all_pipe_objects'[j] = IF j = i THEN row ELSE all_pipe_objects[j]
  BY <1>1, ReplacedRow
<1>3. \A j \in 1..Len(all_pipe_objects) :
         all_pipe_objects'[j].channel = all_pipe_objects[j].channel
  BY <1>2
<1>4. \A y : InTable(all_pipe_objects', y) <=> InTable(all_pipe_objects, y)
  BY <1>1, <1>2, <1>3, ChannelsStay
<1>5. InTable(all_pipe_objects, x)
  BY PipeRows
<1>6. Known'
  <2>1. ASSUME NEW q \in Pids, NEW y \in Channels, IsPipe(y)', Counted(q, y)' # {}
        PROVE  InTable(all_pipe_objects', y)
    <3>1. IsPipe(y)
      BY <2>1 DEF IsPipe
    <3>2. y # x => Counted(q, y) # {}
      BY <2>1, <3>1 DEF CountedChange
    <3>3. QED
      BY <1>4, <1>5, <3>1, <3>2 DEF CountInv, Known
  <2>2. QED
    BY <2>1 DEF Known, InTable
<1>7. ASSUME NEW j \in 1..Len(all_pipe_objects')
      PROVE  \E y, n : /\ y = all_pipe_objects'[j].channel /\ n = all_pipe_objects'[j].ref_count
                       /\ \/ Enough(y, n)'
                          \/ \E k \in 1..Len(all_pipe_objects) :
                               /\ y = all_pipe_objects[k].channel
                               /\ all_pipe_objects[k].ref_count <= n
                               /\ \A q \in Pids : Counted(q, y)' \subseteq Counted(q, y)
  <2>1. PICK y, n : y = all_pipe_objects'[j].channel /\ n = all_pipe_objects'[j].ref_count
    OBVIOUS
  <2>2. CASE j = i
    <3>1. y = x /\ n = row.ref_count
      BY <1>2, <2>1, <2>2
    <3>2. QED
      BY <2>1, <3>1
  <2>3. CASE j # i
    <3>1. /\ y = all_pipe_objects[j].channel /\ n = all_pipe_objects[j].ref_count
          /\ y \in Channels /\ IsPipe(y) /\ n \in Nat
      BY <1>2, <2>1, <2>3, PipeRows
    <3>2. y # x
      <4>1. DOMAIN all_pipe_objects = 1..Len(all_pipe_objects)
        BY <1>1, LenProperties
      <4>2. QED
        BY <1>2, <2>3, <3>1, <4>1 DEF TableInv, OneRowEach
    <3>3. \A q \in Pids : Counted(q, y)' \subseteq Counted(q, y)
      BY <3>1, <3>2 DEF CountedChange
    <3>4. all_pipe_objects[j].ref_count <= n
      BY <3>1
    <3>5. QED
      BY <1>2, <2>1, <3>1, <3>3, <3>4
  <2>4. QED
    BY <2>2, <2>3
<1>8. QED
  BY <1>6, <1>7, CountMade

LEMMA CountLater ==
  ASSUME TypeInv, TableInv, CallsInv, CountInv, TypeInv', TableInv', NEW p \in Pids,
         OpenCheck(p), NEW x \in Channels, x = on[p][1], IsPipe(x),
         NEW e \in Ends, on[p][2] = {e},
         NEW i \in 1..Len(all_pipe_objects), x = all_pipe_objects[i].channel,
         NEW row \in ChannelRow, all_pipe_objects' = Replaced(all_pipe_objects, i, row),
         row.channel = x, row.ref_count = all_pipe_objects[i].ref_count + 1,
         FlowsTo(all_pipe_objects[i], row)
  PROVE  CountInv'
<1>1. CountedChange(p, x, {e}) /\ Counted(p, x) = {} /\ UNCHANGED kind
  BY OpenCheckCounted, OpenCheckMove
<1>2. PICK n \in Nat : n = all_pipe_objects[i].ref_count
  BY PipeRows
<1>3. Enough(x, n)
  BY <1>2 DEF CountInv
<1>4. CountedEnds(x)' = CountedEnds(x) \cup {<<p, e>>}
  <2>1. \A q \in Pids : q # p => Counted(q, x)' = Counted(q, x)
    BY <1>1 DEF CountedChange
  <2>2. Counted(p, x)' = {e}
    BY <1>1 DEF CountedChange
  <2>3. QED
    BY <1>1, <2>1, <2>2 DEF CountedEnds
<1>5. /\ IsFiniteSet(CountedEnds(x)) /\ Cardinality(CountedEnds(x)) <= n
      /\ Cardinality(CountedEnds(x)) \in Nat
  BY <1>3, FS_CardinalityType DEF Enough
<1>6. PICK S, d : S = CountedEnds(x) /\ d = <<p, e>>
  OBVIOUS
<1>7. IsFiniteSet(S \cup {d}) /\ Cardinality(S \cup {d}) <= n + 1
  <2>1. IsFiniteSet(S) /\ Cardinality(S) <= n /\ Cardinality(S) \in Nat
    BY <1>5, <1>6
  <2>2. /\ IsFiniteSet(S \cup {d})
        /\ Cardinality(S \cup {d}) = IF d \in S THEN Cardinality(S) ELSE Cardinality(S) + 1
    BY <2>1, FS_AddElement
  <2>3. QED
    BY <2>1, <2>2
<1>8. Enough(x, n + 1)'
  BY <1>4, <1>6, <1>7 DEF Enough
<1>9. row.ref_count = n + 1
  BY <1>2
<1>10. QED
  BY <1>1, <1>8, <1>9, CountMoved

LEMMA OpenCheckCounts ==
  ASSUME TypeInv, TableInv, CallsInv, CountInv, TypeInv', TableInv', NEW p \in Pids,
         OpenCheck(p)
  PROVE  CountInv'
<1> DEFINE x == on[p][1]
<1>1. /\ pc[p] = "opened" /\ Others(p) /\ UNCHANGED <<kind, uid>>
      /\ \/ kind[x] = "pipe" /\ create_pipe_check(Sid(p), x, "allowed")
         \/ kind[x] = "fifo" /\ open_fifo_check(Sid(p), x)
         \/ kind[x] = "socket" /\ connection_check(Sid(p), x, "allowed")
  BY OpenCheckMove DEF OpenCheck
<1>2. x \in Channels /\ Sid(p) \in SubjectIds
  BY <1>1, SidType DEF TypeInv, OnTyped
<1>3. CASE kind[x] = "pipe" /\ create_pipe_check(Sid(p), x, "allowed")
  <2>1. on[p][2] = {"r", "w"} /\ ~InTable(all_pipe_objects, x) /\ IsPipe(x)
    BY <1>1, <1>3 DEF CallsInv, CallInv, TableInv, Making, IsPipe
  <2>2. Cardinality(on[p][2]) = 2
    BY <2>1, TwoEnds
  <2>3. \E row \in ChannelRow : /\ all_pipe_objects' = Append(all_pipe_objects, row)
                                /\ row.channel = x /\ row.ref_count = 2
    BY <1>2, <1>3, CreateFacts DEF TypeInv
  <2>4. QED
    BY <1>2, <2>1, <2>2, <2>3, CountFirst
<1>4. CASE kind[x] = "fifo" /\ open_fifo_check(Sid(p), x)
  <2> DEFINE i == IndexOf(all_pipe_objects, x)
  <2>1. (\E e \in Ends : on[p][2] = {e}) /\ IsPipe(x)
    BY <1>1, <1>4 DEF CallsInv, CallInv, IsPipe
  <2>2. Cardinality(on[p][2]) = 1
    BY <2>1, TwoEnds
  <2>3. /\ i # 0 <=> InTable(all_pipe_objects, x)
        /\ i # 0 => all_pipe_objects[i].channel = x
    BY IndexOfRow DEF TypeInv, TablesTyped, CTTypeOK
  <2>4. /\ i = 0 => \E row \in ChannelRow :
                      /\ all_pipe_objects' = Append(all_pipe_objects, row)
                      /\ row.channel = x /\ row.ref_count = 1
        /\ i # 0 =>
             /\ i \in 1..Len(all_pipe_objects)
             /\ \E row \in ChannelRow :
                  /\ all_pipe_objects' = Replaced(all_pipe_objects, i, row)
                  /\ row.channel = all_pipe_objects[i].channel
                  /\ row.ref_count = all_pipe_objects[i].ref_count + 1
                  /\ FlowsTo(all_pipe_objects[i], row)
    BY <1>2, <1>4, OpenFifoFacts DEF TypeInv
  <2> HIDE DEF i, x
  <2>5. CASE i = 0
    BY <1>2, <2>1, <2>2, <2>3, <2>4, <2>5, CountFirst DEF x
  <2>6. CASE i # 0
    BY <1>2, <2>1, <2>3, <2>4, <2>6, CountLater DEF x
  <2>7. QED
    BY <2>5, <2>6
<1>5. CASE kind[x] = "socket" /\ connection_check(Sid(p), x, "allowed")
  <2>1. UNCHANGED all_pipe_objects
    BY <1>2, <1>5, ConnectionFacts DEF TypeInv
  <2>2. CountedStays
    BY <1>5, OpenCheckCounted DEF IsPipe
  <2>3. QED
    BY <1>1, <2>1, <2>2, CountIdle DEF IsPipe
<1>6. QED
  BY <1>1, <1>3, <1>4, <1>5

LEMMA ClosePipeCounts ==
  ASSUME TypeInv, TableInv, CallsInv, CountInv, TypeInv', TableInv', NEW p \in Pids,
         NEW x \in Channels, NEW e \in Ends, Close(p, x, e), kind[x] # "socket"
  PROVE  CountInv'
<1>1. PICK i : i = IndexOf(all_pipe_objects, x)
  OBVIOUS
<1>2. UNCHANGED kind
  BY CloseMove
<1>3. CountedChange(p, x, Counted(p, x) \ {e}) /\ e \in Counted(p, x)
  BY CloseCounted
<1>4. IsPipe(x) /\ i # 0 /\ all_pipe_objects[i].channel = x
  BY <1>1, <1>3, IndexOfRow DEF IsPipe, CountInv, Known, TypeInv, TablesTyped, CTTypeOK
<1>5. /\ i \in 1..Len(all_pipe_objects)
      /\ all_pipe_objects[i].ref_count > 1 =>
              \E row \in ChannelRow :
                /\ all_pipe_objects' = Replaced(all_pipe_objects, i, row)
                /\ row.channel = all_pipe_objects[i].channel
                /\ row.ref_count = all_pipe_objects[i].ref_count - 1
                /\ FlowsTo(all_pipe_objects[i], row)
      /\ ~(all_pipe_objects[i].ref_count > 1) =>
              /\ all_pipe_objects' = RemoveAt(all_pipe_objects, i)
              /\ all_pipe_objects[i].ref_count = 1
  BY <1>1, <1>4, PipeCloseFacts DEF TypeInv, Close
<1>6. PICK n \in Nat : n = all_pipe_objects[i].ref_count
  BY <1>5, PipeRows
<1>7. PICK S, d : S = CountedEnds(x) /\ d = <<p, e>>
  OBVIOUS
<1>8. IsFiniteSet(S) /\ Cardinality(S) <= n /\ Cardinality(S) \in Nat
  BY <1>4, <1>5, <1>6, <1>7, FS_CardinalityType DEF CountInv, Enough
<1>9. CountedEnds(x)' = S \ {d} /\ d \in S
  <2>1. \A q \in Pids : q # p => Counted(q, x)' = Counted(q, x)
    BY <1>3, <1>4 DEF CountedChange
  <2>2. Counted(p, x)' = Counted(p, x) \ {e}
    BY <1>3 DEF CountedChange
  <2>3. QED
    BY <1>3, <1>7, <2>1, <2>2 DEF CountedEnds
<1>10. /\ IsFiniteSet(S \ {d}) /\ Cardinality(S \ {d}) = Cardinality(S) - 1
      /\ Cardinality(S \ {d}) \in Nat
  <2>1. /\ IsFiniteSet(S \ {d})
        /\ Cardinality(S \ {d}) = IF d \in S THEN Cardinality(S) - 1 ELSE Cardinality(S)
    BY <1>8, FS_RemoveElement
  <2>2. QED
    BY <1>9, <2>1, FS_CardinalityType
<1>11. CASE all_pipe_objects[i].ref_count > 1
  <2>1. PICK row \in ChannelRow :
                /\ all_pipe_objects' = Replaced(all_pipe_objects, i, row)
                /\ row.channel = all_pipe_objects[i].channel
                /\ row.ref_count = all_pipe_objects[i].ref_count - 1
                /\ FlowsTo(all_pipe_objects[i], row)
    BY <1>5, <1>11
  <2>2. Cardinality(S \ {d}) <= n - 1
    BY <1>8, <1>10
  <2>3. Enough(x, n - 1)'
    BY <1>9, <1>10, <2>2 DEF Enough
  <2>4. row.ref_count = n - 1 /\ row.channel = x
    BY <1>4, <1>6, <2>1
  <2>5. QED
    BY <1>2, <1>3, <1>4, <1>5, <2>1, <2>3, <2>4, CountMoved
<1>12. CASE ~(all_pipe_objects[i].ref_count > 1)
  <2>1. all_pipe_objects' = RemoveAt(all_pipe_objects, i) /\ n = 1
    BY <1>5, <1>6, <1>12
  <2>2. all_pipe_objects \in Seq(ChannelRow) /\ OneRowEach(all_pipe_objects)
    BY DEF TypeInv, TablesTyped, CTTypeOK, TableInv
  <2>3. /\ Len(all_pipe_objects') = Len(all_pipe_objects) - 1 /\ Len(all_pipe_objects) \in Nat
        /\ \A j \in 1..(Len(all_pipe_objects) - 1) :
             all_pipe_objects'[j] = all_pipe_objects[IF j < i THEN j ELSE j + 1]
    BY <1>5, <2>1, <2>2, RemoveAtFacts
  <2>4. \A q \in Pids : Counted(q, x)' = {}
    <3>1. Cardinality(S \ {d}) = 0
      BY <1>8, <1>10, <2>1
    <3>2. CountedEnds(x)' = {}
      BY <1>9, <1>10, <3>1, FS_EmptySet
    <3>3. ASSUME NEW q \in Pids, NEW end, end \in Counted(q, x)'
          PROVE  FALSE
      <4>1. end \in Ends
        BY <3>3 DEF Counted
      <4>2. <<q, end>> \in CountedEnds(x)'
        BY <3>3, <4>1 DEF CountedEnds
      <4>3. QED
        BY <3>2, <4>2
    <3>4. QED
      BY <3>3
  <2>5. DOMAIN all_pipe_objects = 1..Len(all_pipe_objects)
    BY <2>2, LenProperties
  <2>6. DOMAIN all_pipe_objects' = 1..(Len(all_pipe_objects) - 1)
    <3>1. all_pipe_objects' \in Seq(ChannelRow)
      BY DEF TypeInv, TablesTyped, CTTypeOK
    <3>2. QED
      BY <2>3, <3>1, LenProperties
  <2>7. ASSUME NEW y \in Channels, y # x, InTable(all_pipe_objects, y)
        PROVE  InTable(all_pipe_objects', y)
    <3>1. PICK k \in 1..Len(all_pipe_objects) : all_pipe_objects[k].channel = y
      BY <2>5, <2>7 DEF InTable
    <3>2. k # i
      BY <1>4, <2>7, <3>1
    <3>3. PICK j \in 1..(Len(all_pipe_objects) - 1) : (IF j < i THEN j ELSE j + 1) = k
      <4>1. CASE k < i
        <5>1. k \in 1..(Len(all_pipe_objects) - 1)
          BY <1>5, <2>3, <4>1
        <5>2. QED
          BY <4>1, <5>1
      <4>2. CASE ~(k < i)
        <5>1. k - 1 \in 1..(Len(all_pipe_objects) - 1) /\ ~(k - 1 < i) /\ (k - 1) + 1 = k
          BY <1>5, <2>3, <3>2, <4>2
        <5>2. QED
          BY <5>1
      <4>3. QED
        BY <4>1, <4>2
    <3>4. all_pipe_objects'[j].channel = y
      BY <2>3, <3>1, <3>3
    <3>5. QED
      BY <2>6, <3>4 DEF InTable
  <2>8. Known'
    <3>1. ASSUME NEW q \in Pids, NEW y \in Channels, IsPipe(y)', Counted(q, y)' # {}
          PROVE  InTable(all_pipe_objects', y)
      <4>1. IsPipe(y) /\ y # x
        BY <1>2, <2>4, <3>1 DEF IsPipe
      <4>2. Counted(q, y) # {}
        BY <1>3, <3>1, <4>1 DEF CountedChange
      <4>3. QED
        BY <2>7, <4>1, <4>2 DEF CountInv, Known
    <3>2. QED
      BY <3>1 DEF Known, InTable
  <2>9. ASSUME NEW j \in 1..Len(all_pipe_objects')
        PROVE  \E y, m : /\ y = all_pipe_objects'[j].channel /\ m = all_pipe_objects'[j].ref_count
                         /\ \/ Enough(y, m)'
                            \/ \E k \in 1..Len(all_pipe_objects) :
                                 /\ y = all_pipe_objects[k].channel
                                 /\ all_pipe_objects[k].ref_count <= m
                                 /\ \A q \in Pids : Counted(q, y)' \subseteq Counted(q, y)
    <3>1. PICK y, m : y = all_pipe_objects'[j].channel /\ m = all_pipe_objects'[j].ref_count
      OBVIOUS
    <3>2. PICK k : k = IF j < i THEN j ELSE j + 1
      OBVIOUS
    <3>3. k \in 1..Len(all_pipe_objects) /\ k # i
      BY <1>5, <2>3, <3>2
    <3>4. /\ y = all_pipe_objects[k].channel /\ m = all_pipe_objects[k].ref_count
      BY <2>3, <3>1, <3>2
    <3>5. y \in Channels /\ IsPipe(y) /\ m \in Nat
      BY <3>3, <3>4, PipeRows
    <3>6. y # x
      BY <1>4, <1>5, <2>2, <2>5, <3>3, <3>4 DEF OneRowEach
    <3>7. \A q \in Pids : Counted(q, y)' \subseteq Counted(q, y)
      BY <1>3, <3>5, <3>6 DEF CountedChange
    <3>8. all_pipe_objects[k].ref_count <= m
      BY <3>4, <3>5
    <3>9. QED
      BY <3>1, <3>3, <3>4, <3>7, <3>8
  <2>10. QED
    BY <2>8, <2>9, CountMade
<1>13. QED
  BY <1>11, <1>12

LEMMA CloseCounts ==
  ASSUME TypeInv, TableInv, CallsInv, CountInv, TypeInv', TableInv', NEW p \in Pids,
         NEW x \in Channels, NEW e \in Ends, Close(p, x, e)
  PROVE  CountInv'
<1>1. CASE kind[x] = "socket"
  <2>1. UNCHANGED kind
    BY CloseMove
  <2>2. UNCHANGED all_pipe_objects
    BY <1>1, SocketCloseFacts DEF TypeInv, Close
  <2>3. CountedStays
    BY <1>1, CloseCounted DEF CountedChange, CountedStays, IsPipe
  <2>4. QED
    BY <2>1, <2>2, <2>3, CountIdle DEF IsPipe
<1>2. QED
  BY <1>1, ClosePipeCounts

\* No child is waiting for its row.
Childless == \A c \in Pids : pc[c] # "forked"

LEMMA NextCounts ==
  ASSUME TypeInv, TableInv, CallsInv, CountInv, TypeInv', TableInv', Forkers = {},
         Childless, Next
  PROVE  CountInv'
<1>1. ASSUME NEW p \in Pids, NEW c \in Pids
      PROVE  ~Fork(p, c) /\ ~ForkCheck(c)
  BY DEF Fork, ForkCheck, At, Childless
<1>2. QED
  BY <1>1, OpenCounts, OpenCheckCounts, QuietCounts, WriteCounts, CloseCounts DEF Next

LEMMA NoChildren ==
  ASSUME TypeInv, Forkers = {}, Childless, [Next]_vars
  PROVE  Childless'
<1>1. CASE UNCHANGED vars
  BY <1>1 DEF vars, Childless
<1>2. CASE Next
  <2>1. ASSUME NEW p \in Pids, NEW call, call # "forked", pc' = [pc EXCEPT ![p] = call]
        PROVE  Childless'
    BY <2>1 DEF TypeInv, ProcTyped, Childless
  <2>2. ASSUME NEW p \in Pids, NEW x \in Channels, NEW ends, Opened(p, x, ends)
        PROVE  Childless'
    BY <2>1, <2>2 DEF Opened
  <2>3. ASSUME NEW p \in Pids, Return(p)
        PROVE  Childless'
    BY <2>1, <2>3 DEF Return
  <2>4. ASSUME NEW p \in Pids, NEW x \in Channels, Pipe(p, x) \/ Connect(p, x) \/ Accept(p, x)
        PROVE  Childless'
    BY <2>2, <2>4 DEF Pipe, Connect, Accept
  <2>5. ASSUME NEW p \in Pids, NEW x \in Channels, NEW e \in {"r", "w"}, OpenFifo(p, x, e)
        PROVE  Childless'
    BY <2>2, <2>5 DEF OpenFifo
  <2>6. ASSUME NEW p \in Pids, NEW x \in Channels, NEW e \in Ends,
               Read(p, x, e) \/ Write(p, x, e) \/ Close(p, x, e)
        PROVE  Childless'
    <3>1. UNCHANGED pc \/ \E call \in {"read", "write", "closing"} : pc' = [pc EXCEPT ![p] = call]
      BY <2>6 DEF Read, Write, Close
    <3>2. QED
      BY <2>1, <3>1 DEF Childless
  <2>7. ASSUME NEW p \in Pids, OpenCheck(p) \/ ReadCheck(p) \/ WriteData(p) \/ CloseFd(p)
        PROVE  Childless'
    BY <2>3, <2>7 DEF OpenCheck, ReadCheck, WriteData, CloseFd
  <2>8. ASSUME NEW p \in Pids, NEW c \in Pids, Fork(p, c) \/ ForkCheck(c) \/ Exit(c)
        PROVE  Childless'
    BY <2>1, <2>8 DEF Fork, ForkCheck, At, Childless, Exit
  <2>9. ASSUME NEW p \in Pids, NEW f \in Files, ReadFile(p, f)
        PROVE  Childless'
    BY <2>9 DEF ReadFile, Childless
  <2>10. ASSUME NEW p \in Pids, NEW x \in Channels, NEW e \in {"c", "s"},
                ReadSocket(p, x, e) \/ WriteSocket(p, x, e)
         PROVE  Childless'
    BY <2>10 DEF ReadSocket, WriteSocket, Childless
  <2>11. QED
    BY <1>2, <2>4, <2>5, <2>6, <2>7, <2>8, <2>9, <2>10 DEF Next
<1>3. QED
  BY <1>1, <1>2

\* The invariant of any number of pipes that nobody inherits.
Unforked == Forkers = {} /\ Childless /\ (server = "up" => CountInv)

(***************************************************************************)
(* Without forks the row of each pipe counts all of its open ends,         *)
(* although removed rows shift the others: open and close look for the row *)
(* of their channel each time, and only fork_check goes by the positions   *)
(* of the mappings.                                                        *)
(***************************************************************************)
THEOREM ManyPipes == Spec /\ Forkers = {} => []Unforked
<1>1. /\ TypeInv /\ TableInv /\ Ready /\ (TypeInv /\ TableInv)' /\ Unforked
      /\ [Next]_vars
      => Unforked'
  <2> SUFFICES ASSUME TypeInv, TableInv, Ready, TypeInv', TableInv', Unforked, [Next]_vars
               PROVE  Unforked'
    OBVIOUS
  <2>1. Childless'
    BY NoChildren DEF Unforked
  <2>2. CASE Next
    BY <2>1, <2>2, KindChanges, NextCounts DEF Unforked, Ready
  <2>3. CASE UNCHANGED vars
    BY <2>1, <2>3 DEF vars, revars, ctvars, Unforked, CountInv, Known, Enough, CountedEnds,
                      InTable, Counted, IsPipe
  <2>4. QED
    BY <2>2, <2>3
<1>2. Init /\ Forkers = {} => Unforked
  <2> SUFFICES ASSUME Init, Forkers = {}
               PROVE  Unforked
    OBVIOUS
  <2>1. all_pipe_objects = <<>> /\ Childless
    BY DEF Init, Childless
  <2>2. Known
    BY InitMaps DEF MapInv
  <2>3. QED
    BY <2>1, <2>2 DEF Unforked, CountInv
<1>3. QED
  BY <1>1, <1>2, ChannelInvariant, ChannelCalls, PTL DEF Spec

\* While the server is up it has a row of each pipe that is in use.
AllKnown == server = "up" => Known

(***************************************************************************)
(* A pipe has its row from the first check after its open to the last      *)
(* check before its close, if nobody forks or there is one pipe only.      *)
(***************************************************************************)
THEOREM PipesKnown == Spec /\ (Forkers = {} \/ OnePipe) => []AllKnown
<1>1. Unforked => AllKnown
  BY DEF Unforked, CountInv, AllKnown
<1>2. Single => AllKnown
  BY DEF Single, MapInv, AllKnown
<1>3. QED
  BY <1>1, <1>2, ManyPipes, SinglePipe, PTL

(***************************************************************************)
(* A process that has a pipe or fifo open and is in no call finds its row, *)
(* so that no read or write of it stops the server, if nobody forks or     *)
(* there is one pipe only. The run pipe_shift shows what happens with two  *)
(* pipes and a fork.                                                       *)
(***************************************************************************)
THEOREM OpenPipesKnown == Spec /\ (Forkers = {} \/ OnePipe) => []OpenPipesAreKnown
<1>1. TypeInv /\ AllKnown => OpenPipesAreKnown
  BY OpenAreKnown DEF AllKnown, OpenPipesAreKnown
<1>2. QED
  BY <1>1, ChannelInvariant, PipesKnown, PTL

-----------------------------------------------------------------------------
(* Where the information is *)

\* The readers may all read the files of info.
Told(info, readers) == \A f \in info : readers \subseteq ReadersOf(f)

\* p reads from x or writes to it.
On(p, x) == pc[p] \in {"read", "write"} /\ on[p][1] = x

\* What waits in x to be read, or is on its way into x or out of x.
Info(x) == {f \in Files : \/ \E e \in Ends : f \in data[x][e]
                          \/ \E p \in Pids : On(p, x) /\ f \in buf[p]}

TableOf(x) == IF IsPipe(x) THEN all_pipe_objects ELSE all_socket_connections

IsOpen(x) == \E p \in Pids, e \in Ends : <<x, e>> \in fds[p]

(***************************************************************************)
(* A channel that nobody has open is empty.  The row of a channel covers   *)
(* what is in it, and a channel that is about to get a row is empty.  The  *)
(* row of a process covers what it knows.                                  *)
(***************************************************************************)
Emptied(x) == IsOpen(x) \/ x \in backlog \/ \A e \in Ends : data[x][e] = {}

Guarded(x) == \A i \in DOMAIN TableOf(x) :
                TableOf(x)[i].channel = x => Told(Info(x), TableOf(x)[i].readers)

Unwritten(x) == InTable(TableOf(x), x) \/ (Opening(x) \/ x \in backlog => Info(x) = {})

ChannelFlow(x) == Emptied(x) /\ Guarded(x) /\ Unwritten(x)

ProcessFlow(p) == pc[p] \notin {"free", "forked"} =>
                    Told(know[p], subjects[Sid(p)].readers)

FlowInv == (\A x \in Channels : ChannelFlow(x)) /\ \A p \in Pids : ProcessFlow(p)

\* Who has a socket open connected or accepted.
SocketEnds == \A p \in Pids, x \in Channels, e \in Ends :
                <<x, e>> \in fds[p] /\ kind[x] = "socket" => e \in {"c", "s"}

\* What is known before and after a step.
FlowStep == /\ TypeInv /\ TableInv /\ CallsInv /\ Known /\ SocketEnds /\ FlowInv
            /\ TypeInv' /\ REStep /\ Rise

LEMMA ToldLess ==
  ASSUME NEW info, NEW less, NEW readers, NEW fewer, less \subseteq info,
         fewer \subseteq readers, Told(info, readers)
  PROVE  Told(less, fewer)
  BY DEF Told

LEMMA InfoHas ==
  ASSUME TypeInv, NEW x \in Channels
  PROVE  /\ \A e \in Ends : data[x][e] \subseteq Info(x)
         /\ \A p \in Pids : On(p, x) => buf[p] \subseteq Info(x)
<1>1. /\ \A e \in Ends : data[x][e] \subseteq Files
      /\ \A p \in Pids : buf[p] \subseteq Files
  BY DEF TypeInv, ProcTyped
<1>2. QED
  BY <1>1 DEF Info

LEMMA InfoKept ==
  ASSUME NEW x \in Channels, NEW all,
         \A e \in Ends : data'[x][e] \subseteq all,
         \A p \in Pids : On(p, x)' => buf'[p] \subseteq all
  PROVE  Info(x)' \subseteq all
  BY DEF Info

\* No call starts that carries information, and nothing is put into a channel.
LEMMA InfoIdle ==
  ASSUME TypeInv, NEW x \in Channels, \A e \in Ends : data'[x][e] \subseteq data[x][e],
         \A p \in Pids : On(p, x)' => On(p, x) /\ buf'[p] \subseteq buf[p]
  PROVE  Info(x)' \subseteq Info(x)
<1>1. \A e \in Ends : data'[x][e] \subseteq Info(x)
  BY InfoHas
<1>2. \A p \in Pids : On(p, x)' => buf'[p] \subseteq Info(x)
  BY InfoHas
<1>3. QED
  BY <1>1, <1>2, InfoKept

LEMMA NothingIn ==
  ASSUME TypeInv, CallsInv, FlowInv, NEW x \in Channels, ~IsOpen(x), x \notin backlog
  PROVE  Info(x) = {}
<1>1. \A e \in Ends : data[x][e] = {}
  BY DEF FlowInv, ChannelFlow, Emptied
<1>2. \A p \in Pids : ~On(p, x)
  <2>1. ASSUME NEW p \in Pids, On(p, x)
        PROVE  FALSE
    <3>1. \E e \in Ends : <<x, e>> \in fds[p]
      BY <2>1 DEF On, CallsInv, CallInv
    <3>2. QED
      BY <3>1 DEF IsOpen
  <2>2. QED
    BY <2>1
<1>3. QED
  BY <1>1, <1>2 DEF Info

-----------------------------------------------------------------------------
(* What keeps FlowInv *)

LEMMA TableOfNext ==
  ASSUME NEW x, IsPipe(x)' <=> IsPipe(x)
  PROVE  /\ TableOf(x)' = IF IsPipe(x) THEN all_pipe_objects' ELSE all_socket_connections'
         /\ Rise => TableStep(TableOf(x), TableOf(x)')
         /\ InTable(TableOf(x), x)' <=> InTable(TableOf(x)', x)
<1>1. TableOf(x)' = IF IsPipe(x) THEN all_pipe_objects' ELSE all_socket_connections'
  BY DEF TableOf
<1>2. Rise => TableStep(TableOf(x), TableOf(x)')
  BY <1>1 DEF TableOf, Rise
<1>3. InTable(TableOf(x), x)' <=> InTable(TableOf(x)', x)
  BY DEF InTable
<1>4. QED
  BY <1>1, <1>2, <1>3

\* A step that puts nothing into x.
LEMMA FlowKept ==
  ASSUME FlowStep, NEW x \in Channels, IsPipe(x)' <=> IsPipe(x), Emptied(x)',
         Info(x)' \subseteq Info(x),
         Opening(x)' \/ x \in backlog' =>
           \/ Opening(x) \/ x \in backlog \/ Info(x) = {}
           \/ InTable(TableOf(x), x),
         InTable(TableOf(x)', x) => InTable(TableOf(x), x) \/ Opening(x),
         InTable(TableOf(x), x) =>
           InTable(TableOf(x)', x) \/ ~(Opening(x)' \/ x \in backlog')
  PROVE  ChannelFlow(x)'
<1>1. TableStep(TableOf(x), TableOf(x)')
  BY TableOfNext DEF FlowStep
<1>2. Guarded(x) /\ Unwritten(x)
  BY DEF FlowStep, FlowInv, ChannelFlow
<1>3. ASSUME NEW j \in DOMAIN TableOf(x)', TableOf(x)'[j].channel = x
      PROVE  Told(Info(x)', TableOf(x)'[j].readers)
  <2>1. CASE ~InTable(TableOf(x), x)
    <3>1. InTable(TableOf(x)', x)
      BY <1>3 DEF InTable
    <3>2. Info(x)' = {}
      BY <1>2, <2>1, <3>1 DEF Unwritten
    <3>3. QED
      BY <3>2 DEF Told
  <2>2. CASE InTable(TableOf(x), x)
    <3>1. PICK i \in DOMAIN TableOf(x) : /\ TableOf(x)'[j].channel = TableOf(x)[i].channel
                                         /\ FlowsTo(TableOf(x)[i], TableOf(x)'[j])
      BY <1>1, <1>3, <2>2 DEF TableStep
    <3>2. Told(Info(x), TableOf(x)[i].readers)
      BY <1>2, <1>3, <3>1 DEF Guarded
    <3>3. TableOf(x)'[j].readers \subseteq TableOf(x)[i].readers
      BY <3>1 DEF FlowsTo
    <3>4. QED
      BY <3>2, <3>3, ToldLess
  <2>3. QED
    BY <2>1, <2>2
<1>4. Guarded(x)'
  BY <1>3 DEF Guarded, Told
<1>5. Unwritten(x)'
  <2>1. CASE InTable(TableOf(x)', x)
    BY <2>1, TableOfNext DEF Unwritten
  <2>2. CASE ~InTable(TableOf(x)', x)
    <3>1. Opening(x)' \/ x \in backlog' => Info(x) = {}
      BY <1>2, <2>2 DEF Unwritten
    <3>2. Opening(x)' \/ x \in backlog' => Info(x)' = {}
      BY <3>1
    <3>3. QED
      BY <3>2 DEF Unwritten
  <2>3. QED
    BY <2>1, <2>2
<1>6. QED
  BY <1>4, <1>5 DEF ChannelFlow

\* The rows are of the same channels, and no call opens one.
SameRows ==
  \A y : /\ InTable(all_pipe_objects', y) <=> InTable(all_pipe_objects, y)
         /\ InTable(all_socket_connections', y) <=> InTable(all_socket_connections, y)

NoneOpens == \A q \in Pids : pc'[q] = "opened" => pc[q] = "opened" /\ on'[q] = on[q]

\* Nobody opens a channel, no row comes or goes, and nothing is put into x.
LEMMA FlowIdle ==
  ASSUME FlowStep, SameRows, NoneOpens, UNCHANGED <<kind, backlog>>, NEW x \in Channels,
         Emptied(x)', Info(x)' \subseteq Info(x)
  PROVE  ChannelFlow(x)'
<1>1. IsPipe(x)' <=> IsPipe(x)
  BY DEF IsPipe
<1>2. Opening(x)' => Opening(x)
  BY DEF NoneOpens, Opening
<1>3. InTable(TableOf(x)', x) <=> InTable(TableOf(x), x)
  BY <1>1, TableOfNext DEF SameRows, TableOf
<1>4. QED
  BY <1>1, <1>2, <1>3, FlowKept

LEMMA EmptiedKept ==
  ASSUME FlowInv, NEW x \in Channels, UNCHANGED <<data, backlog>>, IsOpen(x) => IsOpen(x)'
  PROVE  Emptied(x)'
  BY DEF FlowInv, ChannelFlow, Emptied

LEMMA OpenStays ==
  ASSUME NEW x, \A p \in Pids : fds[p] \subseteq fds'[p]
  PROVE  IsOpen(x) => IsOpen(x)'
  BY DEF IsOpen

\* The process learns nothing.
LEMMA ProcessKept ==
  ASSUME FlowStep, NEW q \in Pids,
         pc'[q] \notin {"free", "forked"} =>
           /\ pc[q] \notin {"free", "forked"} /\ uid'[q] = uid[q]
           /\ know'[q] \subseteq know[q]
  PROVE  ProcessFlow(q)'
<1> SUFFICES ASSUME pc'[q] \notin {"free", "forked"}
             PROVE  Told(know'[q], subjects'[Sid(q)'].readers)
  BY DEF ProcessFlow, Told
<1>1. Sid(q)' = Sid(q) /\ Sid(q) \in DOMAIN subjects
  BY SameSid DEF FlowStep, CallsInv, CallInv
<1>2. subjects'[Sid(q)].readers \subseteq subjects[Sid(q)].readers
  BY <1>1 DEF FlowStep, REStep, FlowsTo
<1>3. Told(know[q], subjects[Sid(q)].readers)
  BY DEF FlowStep, FlowInv, ProcessFlow
<1>4. QED
  BY <1>1, <1>2, <1>3, ToldLess

LEMMA ProcessesKept ==
  ASSUME FlowStep, NEW p \in Pids, Others(p), ProcessFlow(p)'
  PROVE  \A q \in Pids : ProcessFlow(q)'
<1>1. ASSUME NEW q \in Pids, q # p
      PROVE  ProcessFlow(q)'
  BY <1>1, ProcessKept DEF Others
<1>2. QED
  BY <1>1

-----------------------------------------------------------------------------
(* Opening *)

\* The other processes do not change what is in x.
LEMMA InfoOthers ==
  ASSUME TypeInv, NEW p \in Pids, Others(p), NEW x \in Channels,
         \A e \in Ends : data'[x][e] \subseteq data[x][e],
         On(p, x)' => buf'[p] \subseteq Info(x)
  PROVE  Info(x)' \subseteq Info(x)
<1>1. \A e \in Ends : data'[x][e] \subseteq Info(x)
  BY InfoHas
<1>2. \A q \in Pids : On(q, x)' => buf'[q] \subseteq Info(x)
  <2>1. ASSUME NEW q \in Pids, q # p, On(q, x)'
        PROVE  buf'[q] \subseteq Info(x)
    <3>1. On(q, x) /\ buf'[q] = buf[q]
      BY <2>1 DEF Others, On
    <3>2. QED
      BY <3>1, InfoHas
  <2>2. QED
    BY <2>1
<1>3. QED
  BY <1>1, <1>2, InfoKept

LEMMA OpenedFlow ==
  ASSUME FlowStep, NEW p \in Pids, NEW x, NEW ends, OpenedAs(p, x, ends),
         \A y \in Channels : IsPipe(y)' <=> IsPipe(y),
         x \in Channels => InTable(TableOf(x), x) \/ Info(x) = {} \/ x \in backlog,
         \A y \in Channels : y # x => (y \in backlog' <=> y \in backlog),
         x \in Channels /\ x \in backlog /\ x \notin backlog' => \E e \in Ends : e \in ends
  PROVE  FlowInv'
<1>1. /\ Others(p) /\ UNCHANGED <<revars, ctvars, data>>
      /\ pc[p] = "idle" /\ pc'[p] = "opened" /\ on'[p] = <<x, ends>>
      /\ \A d : d \in fds'[p] <=> d \in fds[p] \/ \E e \in ends : d = <<x, e>>
      /\ uid'[p] = uid[p] /\ know'[p] = know[p] /\ buf'[p] = buf[p]
  BY DEF OpenedAs
<1>2. ProcessFlow(p)'
  BY <1>1, ProcessKept
<1>3. \A q \in Pids : fds[q] \subseteq fds'[q]
  BY <1>1 DEF Others
<1>4. ASSUME NEW y \in Channels
      PROVE  ChannelFlow(y)'
  <2>1. Info(y)' \subseteq Info(y)
    BY <1>1, InfoOthers DEF FlowStep, On
  <2>2. InTable(TableOf(y)', y) <=> InTable(TableOf(y), y)
    BY <1>1, TableOfNext DEF ctvars, TableOf
  <2>3. IsOpen(y) => IsOpen(y)'
    BY <1>3, OpenStays
  <2>4. Emptied(y)
    BY DEF FlowStep, FlowInv, ChannelFlow
  <2>5. Emptied(y)'
    <3>1. CASE y = x /\ x \in backlog /\ x \notin backlog'
      <4>1. PICK e \in Ends : e \in ends
        BY <3>1
      <4>2. <<x, e>> \in fds'[p]
        BY <1>1, <4>1
      <4>3. QED
        BY <3>1, <4>2 DEF Emptied, IsOpen
    <3>2. CASE ~(y = x /\ x \in backlog /\ x \notin backlog')
      <4>1. y \in backlog => y \in backlog'
        BY <3>2
      <4>2. QED
        BY <1>1, <2>3, <2>4, <4>1 DEF Emptied
    <3>3. QED
      BY <3>1, <3>2
  <2>6. Opening(y)' \/ y \in backlog' =>
           Opening(y) \/ y \in backlog \/ Info(y) = {} \/ InTable(TableOf(y), y)
    <3>1. CASE y = x
      BY <3>1
    <3>2. CASE y # x
      <4>1. Opening(y)' => Opening(y)
        BY <1>1, <3>2 DEF Opening, Others
      <4>2. QED
        BY <3>2, <4>1
    <3>3. QED
      BY <3>1, <3>2
  <2>7. QED
    BY <2>1, <2>2, <2>5, <2>6, FlowKept
<1>5. QED
  BY <1>1, <1>2, <1>4, ProcessesKept DEF FlowInv

LEMMA PipeFlow ==
  ASSUME FlowStep, NEW p \in Pids, NEW x \in Channels, Pipe(p, x)
  PROVE  FlowInv'
<1>1. /\ kind[x] = "unmade" /\ kind' = [kind EXCEPT ![x] = "pipe"] /\ UNCHANGED backlog
      /\ pc[p] = "idle" /\ Opened(p, x, {"r", "w"})
  BY DEF Pipe, At
<1>2. OpenedAs(p, x, {"r", "w"})
  BY <1>1, OpenedMove DEF FlowStep
<1>3. \A y \in Channels : IsPipe(y)' <=> IsPipe(y)
  BY <1>1 DEF FlowStep, TypeInv, ProcTyped, IsPipe
<1>4. Info(x) = {}
  <2>1. ~IsOpen(x)
    BY <1>1 DEF FlowStep, CallsInv, CallInv, IsOpen
  <2>2. x \notin backlog
    BY <1>1 DEF FlowStep, TableInv
  <2>3. QED
    BY <2>1, <2>2, NothingIn DEF FlowStep
<1>5. QED
  BY <1>1, <1>2, <1>3, <1>4, OpenedFlow

\* A fifo without a row is empty: whoever has it open is at its check.
LEMMA FifoSilent ==
  ASSUME FlowStep, NEW x \in Channels, kind[x] = "fifo", ~Closing(x)
  PROVE  InTable(TableOf(x), x) \/ Info(x) = {}
<1> SUFFICES ASSUME ~InTable(TableOf(x), x)
             PROVE  Info(x) = {}
  OBVIOUS
<1>1. IsPipe(x) /\ ~InTable(all_pipe_objects, x) /\ x \notin backlog
  BY DEF IsPipe, TableOf, FlowStep, TableInv
<1>2. \A q \in Pids : Counted(q, x) = {}
  BY <1>1 DEF FlowStep, Known
<1>3. ASSUME NEW q \in Pids, NEW e \in Ends, <<x, e>> \in fds[q], pc[q] # "forked"
      PROVE  Opening(x)
  <2>1. pc[q] \in {"opened", "closing"} /\ on[q][1] = x
    BY <1>2, <1>3 DEF Counted
  <2>2. QED
    BY <2>1 DEF Opening, Closing
<1>4. ASSUME NEW q \in Pids, NEW e \in Ends, <<x, e>> \in fds[q], pc[q] = "forked"
      PROVE  FALSE
  <2>1. PICK r \in Pids : r = on[q][1] /\ pc[r] = "forkwait"
    BY <1>4 DEF FlowStep, TypeInv, ForkInv
  <2>2. <<x, e>> \in fds[r]
    BY <1>4, <2>1 DEF FlowStep, CallsInv, CallInv
  <2>3. e \in Counted(r, x)
    BY <2>1, <2>2 DEF Counted
  <2>4. QED
    BY <1>2, <2>3
<1>5. IsOpen(x) => Opening(x)
  BY <1>3, <1>4 DEF IsOpen
<1>6. CASE Opening(x)
  BY <1>6 DEF FlowStep, FlowInv, ChannelFlow, Unwritten
<1>7. CASE ~IsOpen(x)
  BY <1>1, <1>7, NothingIn DEF FlowStep
<1>8. QED
  BY <1>5, <1>6, <1>7

LEMMA OpenFifoFlow ==
  ASSUME FlowStep, Races = {}, NEW p \in Pids, NEW x \in Channels, NEW e \in {"r", "w"},
         OpenFifo(p, x, e)
  PROVE  FlowInv'
<1>1. /\ kind[x] = "fifo" /\ ~Closing(x) /\ UNCHANGED <<kind, backlog>>
      /\ pc[p] = "idle" /\ Opened(p, x, {e})
  BY DEF OpenFifo, At
<1>2. OpenedAs(p, x, {e})
  BY <1>1, OpenedMove DEF FlowStep
<1>3. \A y \in Channels : IsPipe(y)' <=> IsPipe(y)
  BY <1>1 DEF IsPipe
<1>4. InTable(TableOf(x), x) \/ Info(x) = {}
  BY <1>1, FifoSilent
<1>5. QED
  BY <1>1, <1>2, <1>3, <1>4, OpenedFlow

LEMMA ConnectFlow ==
  ASSUME FlowStep, NEW p \in Pids, NEW x \in Channels, Connect(p, x)
  PROVE  FlowInv'
<1>1. /\ kind[x] = "socket" /\ ~Held(x, "c") /\ ~Held(x, "s") /\ x \notin backlog
      /\ UNCHANGED kind /\ pc[p] = "idle" /\ backlog' \in {backlog, backlog \cup {x}}
      /\ \E ends \in {{}, {"c"}} : Opened(p, x, ends)
  BY DEF Connect, At
<1>2. PICK ends : OpenedAs(p, x, ends)
  BY <1>1, OpenedMove DEF FlowStep
<1>3. \A y \in Channels : IsPipe(y)' <=> IsPipe(y)
  BY <1>1 DEF IsPipe
<1>4. Info(x) = {}
  <2>1. ~IsOpen(x)
    BY <1>1 DEF FlowStep, SocketEnds, IsOpen, Held
  <2>2. QED
    BY <1>1, <2>1, NothingIn DEF FlowStep
<1>5. QED
  BY <1>1, <1>2, <1>3, <1>4, OpenedFlow

LEMMA AcceptFlow ==
  ASSUME FlowStep, NEW p \in Pids, NEW x \in Channels, Accept(p, x)
  PROVE  FlowInv'
<1>1. /\ x \in backlog /\ backlog' = backlog \ {x} /\ UNCHANGED kind
      /\ pc[p] = "idle" /\ Opened(p, x, {"s"})
  BY DEF Accept, At
<1>2. OpenedAs(p, x, {"s"})
  BY <1>1, OpenedMove DEF FlowStep
<1>3. \A y \in Channels : IsPipe(y)' <=> IsPipe(y)
  BY <1>1 DEF IsPipe
<1>4. "s" \in Ends
  BY DEF Ends
<1>5. QED
  BY <1>1, <1>2, <1>3, <1>4, OpenedFlow

-----------------------------------------------------------------------------
(* The ends of sockets *)

\* No end is opened but one that another process has, or one of x.
LEMMA EndsKept ==
  ASSUME SocketEnds, KindsStay, TableInv, CallsInv, TypeInv,
         \A q \in Pids : \A d \in fds'[q] : \E r \in Pids : d \in fds[r]
  PROVE  SocketEnds'
<1>1. ASSUME NEW q \in Pids, NEW x \in Channels, NEW e \in Ends, <<x, e>> \in fds'[q],
             kind'[x] = "socket"
      PROVE  e \in {"c", "s"}
  <2>1. PICK r \in Pids : <<x, e>> \in fds[r]
    BY <1>1
  <2>2. kind[x] # "unmade"
    BY <2>1 DEF CallsInv, CallInv
  <2>3. kind[x] = "socket"
    BY <1>1, <2>2 DEF KindsStay
  <2>4. QED
    BY <2>1, <2>3 DEF SocketEnds
<1>2. QED
  BY <1>1 DEF SocketEnds

LEMMA OpenedEnds ==
  ASSUME SocketEnds, CallsInv, TypeInv, KindsStay, NEW p \in Pids, NEW x, NEW ends,
         OpenedAs(p, x, ends), kind'[x] = "socket" => ends \subseteq {"c", "s"}
  PROVE  SocketEnds'
<1>1. ASSUME NEW q \in Pids, NEW y \in Channels, NEW e \in Ends, <<y, e>> \in fds'[q],
             kind'[y] = "socket"
      PROVE  e \in {"c", "s"}
  <2>1. <<y, e>> \in fds[q] \/ (y = x /\ e \in ends)
    BY <1>1 DEF OpenedAs, Others
  <2>2. CASE <<y, e>> \in fds[q]
    <3>1. kind[y] # "unmade"
      BY <2>2 DEF CallsInv, CallInv
    <3>2. QED
      BY <1>1, <2>2, <3>1 DEF KindsStay, SocketEnds
  <2>3. QED
    BY <1>1, <2>1, <2>2
<1>2. QED
  BY <1>1 DEF SocketEnds

LEMMA NextEnds ==
  ASSUME SocketEnds, TypeInv, TableInv, CallsInv, Next
  PROVE  SocketEnds'
<1>1. ASSUME UNCHANGED kind, \A q \in Pids : \A d \in fds'[q] : \E r \in Pids : d \in fds[r]
      PROVE  SocketEnds'
  BY <1>1, EndsKept DEF KindsStay
<1>2. ASSUME NEW p \in Pids, NEW x \in Channels, Pipe(p, x)
      PROVE  SocketEnds'
  <2>1. /\ kind[x] = "unmade" /\ kind' = [kind EXCEPT ![x] = "pipe"]
        /\ pc[p] = "idle" /\ Opened(p, x, {"r", "w"})
    BY <1>2 DEF Pipe, At
  <2>2. OpenedAs(p, x, {"r", "w"})
    BY <2>1, OpenedMove
  <2>3. kind'[x] = "pipe" /\ KindsStay
    BY <2>1 DEF TypeInv, ProcTyped, KindsStay
  <2>4. QED
    BY <2>2, <2>3, OpenedEnds
<1>3. ASSUME NEW p \in Pids, NEW x \in Channels, Connect(p, x) \/ Accept(p, x)
      PROVE  SocketEnds'
  <2>1. /\ UNCHANGED kind /\ pc[p] = "idle"
        /\ \E ends : ends \subseteq {"c", "s"} /\ Opened(p, x, ends)
    BY <1>3 DEF Connect, Accept, At
  <2>2. PICK ends : ends \subseteq {"c", "s"} /\ OpenedAs(p, x, ends)
    BY <2>1, OpenedMove
  <2>3. QED
    BY <2>1, <2>2, OpenedEnds DEF KindsStay
<1>4. ASSUME NEW p \in Pids, NEW x \in Channels, NEW e \in {"r", "w"}, OpenFifo(p, x, e)
      PROVE  SocketEnds'
  <2>1. kind[x] = "fifo" /\ UNCHANGED kind /\ pc[p] = "idle" /\ Opened(p, x, {e})
    BY <1>4 DEF OpenFifo, At
  <2>2. OpenedAs(p, x, {e})
    BY <2>1, OpenedMove
  <2>3. QED
    BY <2>1, <2>2, OpenedEnds DEF KindsStay
<1>5. ASSUME NEW p \in Pids, NEW x \in Channels, NEW e \in Ends,
             Read(p, x, e) \/ Write(p, x, e) \/ Close(p, x, e)
      PROVE  SocketEnds'
  <2>1. UNCHANGED <<kind, fds>>
    BY <1>5 DEF Read, Write, Close
  <2>2. QED
    BY <1>1, <2>1
<1>6. ASSUME NEW p \in Pids, OpenCheck(p) \/ ReadCheck(p) \/ WriteData(p) \/ ForkCheck(p)
      PROVE  SocketEnds'
  <2>1. UNCHANGED <<kind, fds>>
    BY <1>6 DEF OpenCheck, ReadCheck, WriteData, ForkCheck
  <2>2. QED
    BY <1>1, <2>1
<1>7. ASSUME NEW p \in Pids, CloseFd(p)
      PROVE  SocketEnds'
  <2>1. UNCHANGED kind /\ \A q \in Pids : fds'[q] \subseteq fds[q]
    BY <1>7, CloseFdMove DEF Others
  <2>2. QED
    BY <1>1, <2>1
<1>8. ASSUME NEW p \in Pids, Exit(p)
      PROVE  SocketEnds'
  <2>1. UNCHANGED kind /\ \A q \in Pids : fds'[q] \subseteq fds[q]
    BY <1>8, ExitMove DEF Others
  <2>2. QED
    BY <1>1, <2>1
<1>9. ASSUME NEW p \in Pids, NEW c \in Pids, Fork(p, c)
      PROVE  SocketEnds'
  <2>1. UNCHANGED kind /\ \A q \in Pids : fds'[q] \in {fds[q], fds[p]}
    BY <1>9, ForkMove
  <2>2. QED
    BY <1>1, <2>1
<1>10. ASSUME NEW p \in Pids, NEW f \in Files, ReadFile(p, f)
       PROVE  SocketEnds'
  <2>1. UNCHANGED <<kind, fds>>
    BY <1>10 DEF ReadFile
  <2>2. QED
    BY <1>1, <2>1
<1>11. ASSUME NEW p \in Pids, NEW x \in Channels, NEW e \in {"c", "s"},
              ReadSocket(p, x, e) \/ WriteSocket(p, x, e)
       PROVE  SocketEnds'
  <2>1. UNCHANGED <<kind, fds>>
    BY <1>11 DEF ReadSocket, WriteSocket
  <2>2. QED
    BY <1>1, <2>1
<1>12. QED
  BY <1>2, <1>3, <1>4, <1>5, <1>6, <1>7, <1>8, <1>9, <1>10, <1>11 DEF Next

-----------------------------------------------------------------------------
(* The rows of the channels *)

LEMMA RowsAppended ==
  ASSUME NEW R, NEW table \in Seq(R), NEW row \in R
  PROVE  \A y : InTable(Append(table, row), y) <=> InTable(table, y) \/ y = row.channel
<1>1. /\ Len(table) \in Nat /\ DOMAIN table = 1..Len(table)
      /\ DOMAIN Append(table, row) = 1..(Len(table) + 1)
      /\ \A i \in 1..Len(table) : Append(table, row)[i] = table[i]
      /\ Append(table, row)[Len(table) + 1] = row
  BY AppendProperties, LenProperties
<1>2. PICK n \in Nat : n = Len(table)
  BY <1>1
<1>3. \A i : i \in 1..(n + 1) <=> i \in 1..n \/ i = n + 1
  BY <1>2
<1>4. QED
  BY <1>1, <1>2, <1>3 DEF InTable

LEMMA RowsReplaced ==
  ASSUME NEW R, NEW table \in Seq(R), NEW i \in 1..Len(table), NEW row \in R,
         row.channel = table[i].channel
  PROVE  \A y : InTable(Replaced(table, i, row), y) <=> InTable(table, y)
<1>1. /\ DOMAIN Replaced(table, i, row) = DOMAIN table
      /\ \A j \in DOMAIN table :
           Replaced(table, i, row)[j] = IF j = i THEN row ELSE table[j]
  BY LenProperties DEF Replaced
<1>2. QED
  BY <1>1 DEF InTable

LEMMA RowsRemoved ==
  ASSUME NEW R, NEW table \in Seq(R), NEW i \in 1..Len(table)
  PROVE  \A y : /\ InTable(RemoveAt(table, i), y) => InTable(table, y)
                /\ InTable(table, y) => InTable(RemoveAt(table, i), y) \/ y = table[i].channel
<1>1. PICK n \in Nat : n = Len(table)
  BY LenProperties
<1>2. /\ DOMAIN table = 1..n /\ DOMAIN RemoveAt(table, i) = 1..(n - 1)
      /\ \A j \in 1..(n - 1) : RemoveAt(table, i)[j] = table[IF j < i THEN j ELSE j + 1]
  <2>1. RemoveAt(table, i) \in Seq(R)
    BY RemoveAtFacts
  <2>2. /\ Len(RemoveAt(table, i)) = n - 1
        /\ \A j \in 1..(n - 1) : RemoveAt(table, i)[j] = table[IF j < i THEN j ELSE j + 1]
    BY <1>1, RemoveAtFacts
  <2>3. QED
    BY <1>1, <2>1, <2>2, LenProperties
<1>3. \A j \in 1..(n - 1) : (IF j < i THEN j ELSE j + 1) \in 1..n
  BY <1>1
<1>4. ASSUME NEW k \in 1..n, k # i
      PROVE  \E j \in 1..(n - 1) : (IF j < i THEN j ELSE j + 1) = k
  <2>1. CASE k < i
    <3>1. k \in 1..(n - 1)
      BY <1>1, <2>1
    <3>2. QED
      BY <2>1, <3>1
  <2>2. CASE ~(k < i)
    <3>1. k - 1 \in 1..(n - 1) /\ ~(k - 1 < i) /\ (k - 1) + 1 = k
      BY <1>1, <1>4, <2>2
    <3>2. QED
      BY <3>1
  <2>3. QED
    BY <2>1, <2>2
<1>5. ASSUME NEW y, InTable(RemoveAt(table, i), y)
      PROVE  InTable(table, y)
  BY <1>2, <1>3, <1>5 DEF InTable
<1>6. ASSUME NEW y, InTable(table, y), y # table[i].channel
      PROVE  InTable(RemoveAt(table, i), y)
  <2>1. PICK k \in 1..n : table[k].channel = y
    BY <1>2, <1>6 DEF InTable
  <2>2. PICK j \in 1..(n - 1) : (IF j < i THEN j ELSE j + 1) = k
    BY <1>4, <1>6, <2>1
  <2>3. RemoveAt(table, i)[j].channel = y
    BY <1>2, <2>1, <2>2
  <2>4. QED
    BY <1>2, <2>3 DEF InTable
<1>7. QED
  BY <1>5, <1>6

\* Both tables are sequences of rows.
TypedRows == /\ all_pipe_objects \in Seq(ChannelRow)
             /\ all_socket_connections \in Seq(ConnectionRow)

LEMMA RowsTyped ==
  ASSUME TypeInv
  PROVE  TypedRows
  BY DEF TypeInv, TablesTyped, CTTypeOK, TypedRows

\* x is in its table, and else nothing comes or goes.
RowMade(x) ==
  \A y : y # x =>
    /\ InTable(all_pipe_objects', y) <=> InTable(all_pipe_objects, y)
    /\ InTable(all_socket_connections', y) <=> InTable(all_socket_connections, y)

LEMMA OpenCheckRows ==
  ASSUME TypeInv, TableInv, NEW p \in Pids, OpenCheck(p), NEW x, x = on[p][1],
         x \in Channels
  PROVE  /\ RowMade(x)
         /\ InTable(all_pipe_objects, x) => InTable(all_pipe_objects', x)
         /\ InTable(all_socket_connections, x) => InTable(all_socket_connections', x)
<1>1. /\ pc[p] = "opened" /\ Sid(p) \in SubjectIds /\ TablesTyped /\ TypedRows
      /\ \/ create_pipe_check(Sid(p), x, "allowed")
         \/ open_fifo_check(Sid(p), x)
         \/ connection_check(Sid(p), x, "allowed")
  BY SidType, RowsTyped DEF OpenCheck, At, TypeInv
<1>2. CASE create_pipe_check(Sid(p), x, "allowed")
  <2>1. /\ UNCHANGED all_socket_connections
        /\ \E row \in ChannelRow : /\ all_pipe_objects' = Append(all_pipe_objects, row)
                                   /\ row.channel = x
    BY <1>1, <1>2, CreateFacts
  <2>2. QED
    BY <1>1, <2>1, RowsAppended DEF TypedRows, RowMade
<1>3. CASE open_fifo_check(Sid(p), x)
  <2>1. PICK i : i = IndexOf(all_pipe_objects, x)
    OBVIOUS
  <2>2. /\ UNCHANGED all_socket_connections
        /\ i = 0 => \E row \in ChannelRow :
                      /\ all_pipe_objects' = Append(all_pipe_objects, row)
                      /\ row.channel = x /\ row.ref_count = 1
        /\ i # 0 =>
             /\ i \in 1..Len(all_pipe_objects)
             /\ \E row \in ChannelRow :
                  /\ all_pipe_objects' = Replaced(all_pipe_objects, i, row)
                  /\ row.channel = all_pipe_objects[i].channel
    BY <1>1, <1>3, <2>1, OpenFifoFacts
  <2>3. CASE i = 0
    <3>1. PICK row \in ChannelRow : /\ all_pipe_objects' = Append(all_pipe_objects, row)
                                    /\ row.channel = x
      BY <2>2, <2>3
    <3>2. \A y : InTable(all_pipe_objects', y) <=> InTable(all_pipe_objects, y) \/ y = x
      BY <1>1, <3>1, RowsAppended DEF TypedRows
    <3>3. QED
      BY <2>2, <3>2 DEF RowMade
  <2>4. CASE i # 0
    BY <1>1, <2>2, <2>4, RowsReplaced DEF TypedRows, RowMade
  <2>5. QED
    BY <2>3, <2>4
<1>4. CASE connection_check(Sid(p), x, "allowed")
  <2>1. PICK i : i = IndexOf(all_socket_connections, x)
    OBVIOUS
  <2>2. UNCHANGED all_pipe_objects
    BY <1>1, <1>4, ConnectionFacts
  <2>3. PICK row \in ConnectionRow :
              /\ row.channel = x
              /\ i = 0 => all_socket_connections' = Append(all_socket_connections, row)
              /\ i # 0 => /\ i \in 1..Len(all_socket_connections)
                          /\ all_socket_connections'
                               = Replaced(all_socket_connections, i, row)
    BY <1>1, <1>4, <2>1, ConnectionFacts
  <2>4. CASE i = 0
    <3>1. all_socket_connections' = Append(all_socket_connections, row)
      BY <2>3, <2>4
    <3>2. \A y : InTable(all_socket_connections', y)
                 <=> InTable(all_socket_connections, y) \/ y = x
      BY <1>1, <2>3, <3>1, RowsAppended DEF TypedRows
    <3>3. QED
      BY <2>2, <3>2 DEF RowMade
  <2>5. CASE i # 0
    <3>1. all_socket_connections[i].channel = x
      BY <1>1, <2>1, <2>5, IndexOfRow DEF TypedRows
    <3>2. QED
      BY <1>1, <2>2, <2>3, <2>5, <3>1, RowsReplaced DEF TypedRows, RowMade
  <2>6. QED
    BY <2>4, <2>5
<1>5. QED
  BY <1>1, <1>2, <1>3, <1>4

LEMMA OpenCheckFlow ==
  ASSUME FlowStep, NEW p \in Pids, OpenCheck(p)
  PROVE  FlowInv'
<1>1. /\ pc[p] = "opened" /\ ReturnedAs(p) /\ Others(p)
      /\ UNCHANGED <<kind, uid, know, fds, data, backlog>>
  BY OpenCheckMove DEF FlowStep
<1>2. PICK x \in Channels : x = on[p][1]
  BY <1>1 DEF FlowStep, TypeInv, OnTyped
<1>3. /\ RowMade(x)
      /\ InTable(all_pipe_objects, x) => InTable(all_pipe_objects', x)
      /\ InTable(all_socket_connections, x) => InTable(all_socket_connections', x)
  BY <1>2, OpenCheckRows DEF FlowStep
<1>4. Opening(x)
  BY <1>1, <1>2 DEF Opening
<1>5. ASSUME NEW y \in Channels
      PROVE  ChannelFlow(y)'
  <2>1. IsPipe(y)' <=> IsPipe(y)
    BY <1>1 DEF IsPipe
  <2>2. Emptied(y)'
    BY <1>1, EmptiedKept DEF FlowStep, IsOpen
  <2>3. Info(y)' \subseteq Info(y)
    BY <1>1, InfoOthers DEF FlowStep, ReturnedAs, On
  <2>4. Opening(y)' => Opening(y)
    BY <1>1 DEF ReturnedAs, Opening
  <2>5. /\ InTable(TableOf(y)', y) => InTable(TableOf(y), y) \/ Opening(y)
        /\ InTable(TableOf(y), y) => InTable(TableOf(y)', y)
    <3>1. CASE y = x
      BY <1>3, <1>4, <2>1, <3>1, TableOfNext DEF TableOf
    <3>2. CASE y # x
      BY <1>3, <2>1, <3>2, TableOfNext DEF TableOf, RowMade
    <3>3. QED
      BY <3>1, <3>2
  <2>6. QED
    BY <1>1, <2>1, <2>2, <2>3, <2>4, <2>5, FlowKept
<1>6. ProcessFlow(p)'
  BY <1>1, ProcessKept
<1>7. QED
  BY <1>1, <1>5, <1>6, ProcessesKept DEF FlowInv

-----------------------------------------------------------------------------
(* Reading *)

LEMMA SameRowsIdle ==
  ASSUME UNCHANGED ctvars
  PROVE  SameRows
  BY DEF ctvars, SameRows

LEMMA ReadFlow ==
  ASSUME FlowStep, NEW p \in Pids, NEW x \in Channels, NEW e \in Ends, Read(p, x, e)
  PROVE  FlowInv'
<1>1. /\ pc[p] = "idle" /\ CalledAs(p, "read", x, e) /\ Others(p)
      /\ buf'[p] = data[x][e]
      /\ UNCHANGED <<revars, ctvars, kind, uid, know, fds, data, backlog>>
  BY ReadMove DEF FlowStep
<1>2. NoneOpens /\ SameRows
  BY <1>1, SameRowsIdle DEF CalledAs, NoneOpens
<1>3. ASSUME NEW y \in Channels
      PROVE  ChannelFlow(y)'
  <2>1. Emptied(y)'
    BY <1>1, EmptiedKept DEF FlowStep, IsOpen
  <2>2. On(p, y)' => buf'[p] \subseteq Info(y)
    <3>1. On(p, y)' => y = x
      BY <1>1 DEF On, CalledAs
    <3>2. QED
      BY <1>1, <3>1, InfoHas DEF FlowStep
  <2>3. Info(y)' \subseteq Info(y)
    BY <1>1, <2>2, InfoOthers DEF FlowStep
  <2>4. QED
    BY <1>1, <1>2, <2>1, <2>3, FlowIdle
<1>4. ProcessFlow(p)'
  BY <1>1, ProcessKept
<1>5. QED
  BY <1>1, <1>3, <1>4, ProcessesKept DEF FlowInv

\* An allowed read raises the label of the process to that of the row.
LEMMA ReadCheckLabel ==
  ASSUME FlowStep, NEW p \in Pids, ReadCheck(p), NEW x, x = on[p][1], x \in Channels,
         read_check(p, x, "allowed"), pc[p] = "read"
  PROVE  \E i \in DOMAIN TableOf(x) :
           /\ TableOf(x)[i].channel = x
           /\ subjects'[Sid(p)].readers \subseteq TableOf(x)[i].readers
<1>1. /\ TypedRows /\ REInv /\ Sid(p) \in DOMAIN subjects
      /\ subjects[Sid(p)] \in SubjectRow
  <2>1. REInv /\ Sid(p) \in DOMAIN subjects
    BY DEF FlowStep, TypeInv, TablesTyped, CallsInv, CallInv
  <2>2. QED
    BY <2>1, SubjectLabel, RowsTyped DEF FlowStep
<1>2. PICK s : s = Sid(p)
  OBVIOUS
<1>3. CASE kind[x] = "socket"
  <2>1. PICK i : i = IndexOf(all_socket_connections, x)
    OBVIOUS
  <2>2. /\ i # 0
        /\ subjects' = [subjects EXCEPT ![s] = Raise(@, all_socket_connections[i])]
    BY <1>2, <1>3, <2>1 DEF read_check, recv_check
  <2>3. i \in DOMAIN all_socket_connections /\ all_socket_connections[i].channel = x
    BY <1>1, <2>1, <2>2, IndexOfRow DEF TypedRows
  <2>4. subjects'[s] = Raise(subjects[s], all_socket_connections[i])
    BY <1>1, <1>2, <2>2
  <2>5. subjects'[s].readers \subseteq all_socket_connections[i].readers
    BY <1>1, <1>2, <2>4 DEF Raise, SubjectRow
  <2>6. QED
    BY <1>2, <1>3, <2>3, <2>5 DEF TableOf, IsPipe
<1>4. CASE kind[x] # "socket"
  <2>1. PICK i : i = IndexOf(all_pipe_objects, x)
    OBVIOUS
  <2>2. i # 0
    <3>1. \E e \in Ends : <<x, e>> \in fds[p]
      BY DEF FlowStep, CallsInv, CallInv
    <3>2. Counted(p, x) # {}
      BY <3>1 DEF Counted
    <3>3. InTable(all_pipe_objects, x)
      BY <1>4, <3>2 DEF FlowStep, Known, IsPipe
    <3>4. QED
      BY <1>1, <2>1, <3>3, IndexOfRow DEF TypedRows
  <2>3. i \in DOMAIN all_pipe_objects /\ all_pipe_objects[i].channel = x
    BY <1>1, <2>1, <2>2, IndexOfRow DEF TypedRows
  <2>4. subjects' = [subjects EXCEPT ![s] = Raise(@, all_pipe_objects[i])]
    BY <1>2, <1>4, <2>1, <2>3 DEF read_check, pipe_read_check, Fetched
  <2>5. subjects'[s] = Raise(subjects[s], all_pipe_objects[i])
    BY <1>1, <1>2, <2>4
  <2>6. subjects'[s].readers \subseteq all_pipe_objects[i].readers
    BY <1>1, <1>2, <2>5 DEF Raise, SubjectRow
  <2>7. QED
    BY <1>2, <1>4, <2>3, <2>6 DEF TableOf, IsPipe
<1>5. QED
  BY <1>3, <1>4

LEMMA ReadCheckFlow ==
  ASSUME FlowStep, NEW p \in Pids, ReadCheck(p)
  PROVE  FlowInv'
<1>1. /\ pc[p] = "read" /\ ReturnedAs(p) /\ Others(p)
      /\ UNCHANGED <<kind, uid, fds, data, backlog>>
  BY ReadCheckMove DEF FlowStep
<1>2. UNCHANGED ctvars
  BY ReadCheckTables DEF FlowStep
<1>3. NoneOpens /\ SameRows
  BY <1>1, <1>2, SameRowsIdle DEF ReturnedAs, NoneOpens
<1>4. ASSUME NEW y \in Channels
      PROVE  ChannelFlow(y)'
  <2>1. Emptied(y)'
    BY <1>1, EmptiedKept DEF FlowStep, IsOpen
  <2>2. Info(y)' \subseteq Info(y)
    BY <1>1, InfoOthers DEF FlowStep, ReturnedAs, On
  <2>3. QED
    BY <1>1, <1>3, <2>1, <2>2, FlowIdle
<1>5. ProcessFlow(p)'
  <2>1. CASE know'[p] = know[p]
    BY <1>1, <2>1, ProcessKept
  <2>2. CASE read_check(p, on[p][1], "allowed") /\ know'[p] = know[p] \cup buf[p]
    <3>1. PICK x \in Channels : x = on[p][1]
      BY <1>1 DEF FlowStep, TypeInv, OnTyped
    <3>2. PICK i \in DOMAIN TableOf(x) :
           /\ TableOf(x)[i].channel = x
           /\ subjects'[Sid(p)].readers \subseteq TableOf(x)[i].readers
      BY <1>1, <2>2, <3>1, ReadCheckLabel
    <3>3. Told(Info(x), TableOf(x)[i].readers)
      BY <3>2 DEF FlowStep, FlowInv, ChannelFlow, Guarded
    <3>4. buf[p] \subseteq Info(x)
      BY <1>1, <3>1, InfoHas DEF FlowStep, On
    <3>5. Told(buf[p], subjects'[Sid(p)].readers)
      BY <3>2, <3>3, <3>4, ToldLess
    <3>6. Told(know[p], subjects'[Sid(p)].readers)
      <4>1. Told(know[p], subjects[Sid(p)].readers) /\ Sid(p) \in DOMAIN subjects
        BY <1>1 DEF FlowStep, FlowInv, ProcessFlow, CallsInv, CallInv
      <4>2. subjects'[Sid(p)].readers \subseteq subjects[Sid(p)].readers
        BY <4>1 DEF FlowStep, REStep, FlowsTo
      <4>3. QED
        BY <4>1, <4>2, ToldLess
    <3>7. Sid(p)' = Sid(p)
      BY <1>1, SameSid
    <3>8. Told(know'[p], subjects'[Sid(p)'].readers)
      BY <2>2, <3>5, <3>6, <3>7 DEF Told
    <3>9. QED
      BY <3>8 DEF ProcessFlow, Told
  <2>3. QED
    BY <2>1, <2>2, ReadCheckMove DEF FlowStep
<1>6. QED
  BY <1>1, <1>4, <1>5, ProcessesKept DEF FlowInv

-----------------------------------------------------------------------------
(* Writing *)

LEMMA PipeWriteRows ==
  ASSUME TypeInv, NEW s, NEW x, NEW ret, pipe_write_check(s, x, ret)
  PROVE  /\ UNCHANGED all_socket_connections
         /\ \A y : InTable(all_pipe_objects', y) <=> InTable(all_pipe_objects, y)
<1>1. /\ UNCHANGED all_socket_connections
      /\ \/ UNCHANGED all_pipe_objects
         \/ \E i \in 1..Len(all_pipe_objects) :
              /\ IsLabel(subjects[s])
              /\ all_pipe_objects'
                   = Replaced(all_pipe_objects, i, Raise(all_pipe_objects[i], subjects[s]))
  BY PipeWriteFacts DEF TypeInv
<1>2. ASSUME NEW i \in 1..Len(all_pipe_objects), IsLabel(subjects[s]),
             all_pipe_objects'
               = Replaced(all_pipe_objects, i, Raise(all_pipe_objects[i], subjects[s]))
      PROVE  \A y : InTable(all_pipe_objects', y) <=> InTable(all_pipe_objects, y)
  <2>1. PICK row : row = Raise(all_pipe_objects[i], subjects[s])
    OBVIOUS
  <2>2. all_pipe_objects \in Seq(ChannelRow) /\ all_pipe_objects[i] \in ChannelRow
    BY RowsTyped, ElementOfSeq DEF TypedRows
  <2>3. row \in ChannelRow /\ row.channel = all_pipe_objects[i].channel
    BY <1>2, <2>1, <2>2, RaiseChannelRow
  <2>4. QED
    BY <1>2, <2>1, <2>2, <2>3, RowsReplaced
<1>3. QED
  BY <1>1, <1>2

LEMMA SendRows ==
  ASSUME TypeInv, NEW s, NEW x, NEW ret, send_check(s, x, ret)
  PROVE  /\ UNCHANGED all_pipe_objects
         /\ \A y : InTable(all_socket_connections', y) <=> InTable(all_socket_connections, y)
<1>1. /\ UNCHANGED all_pipe_objects
      /\ \/ UNCHANGED all_socket_connections
         \/ \E i \in 1..Len(all_socket_connections) :
              /\ IsLabel(subjects[s])
              /\ all_socket_connections' =
                   Replaced(all_socket_connections, i,
                            Raise(all_socket_connections[i], subjects[s]))
  BY SendFacts DEF TypeInv
<1>2. ASSUME NEW i \in 1..Len(all_socket_connections), IsLabel(subjects[s]),
             all_socket_connections' =
               Replaced(all_socket_connections, i,
                        Raise(all_socket_connections[i], subjects[s]))
      PROVE  \A y : InTable(all_socket_connections', y) <=> InTable(all_socket_connections, y)
  <2>1. PICK row : row = Raise(all_socket_connections[i], subjects[s])
    OBVIOUS
  <2>2. /\ all_socket_connections \in Seq(ConnectionRow)
        /\ all_socket_connections[i] \in ConnectionRow
    BY RowsTyped, ElementOfSeq DEF TypedRows
  <2>3. row \in ConnectionRow /\ row.channel = all_socket_connections[i].channel
    BY <1>2, <2>1, <2>2, RaiseConnectionRow
  <2>4. QED
    BY <1>2, <2>1, <2>2, <2>3, RowsReplaced
<1>3. QED
  BY <1>1, <1>2

LEMMA WriteRows ==
  ASSUME TypeInv, NEW p, NEW x, NEW ret, write_check(p, x, ret)
  PROVE  SameRows
<1>1. CASE pipe_write_check(Sid(p), x, ret)
  BY <1>1, PipeWriteRows DEF SameRows
<1>2. CASE send_check(Sid(p), x, ret)
  BY <1>2, SendRows DEF SameRows
<1>3. QED
  BY <1>1, <1>2 DEF write_check

\* An allowed write leaves in the row the label of its process.
LEMMA WriteRaises ==
  ASSUME FlowStep, NEW p \in Pids, pc[p] = "idle", NEW x \in Channels,
         write_check(p, x, "allowed"), NEW e \in Ends, <<x, e>> \in fds[p],
         UNCHANGED kind
  PROVE  /\ InTable(TableOf(x), x)
         /\ \A j \in DOMAIN TableOf(x)' : TableOf(x)'[j].channel = x =>
              TableOf(x)'[j].readers \subseteq subjects[Sid(p)].readers
<1>1. PICK s : s = Sid(p)
  OBVIOUS
<1>2. /\ TypedRows /\ s \in DOMAIN subjects /\ IsLabel(subjects[s])
      /\ OneRowEach(all_pipe_objects) /\ OneRowEach(all_socket_connections)
  <2>1. REInv /\ s \in DOMAIN subjects
    BY <1>1 DEF FlowStep, TypeInv, TablesTyped, CallsInv, CallInv
  <2>2. QED
    BY <2>1, SubjectLabel, RowsTyped DEF FlowStep, TableInv
<1>3. IsPipe(x)' <=> IsPipe(x)
  BY DEF IsPipe
<1>4. CASE kind[x] = "socket"
  <2>1. PICK i : i = IndexOf(all_socket_connections, x)
    OBVIOUS
  <2>2. i # 0 /\ all_socket_connections' = RaisedRow(all_socket_connections, i, subjects[s])
    BY <1>1, <1>4, <2>1 DEF write_check, send_check
  <2>3. /\ InTable(all_socket_connections, x)
        /\ i \in DOMAIN all_socket_connections /\ all_socket_connections[i].channel = x
    BY <1>2, <2>1, <2>2, IndexOfRow DEF TypedRows
  <2>4. PICK row : row = Raise(all_socket_connections[i], subjects[s])
    OBVIOUS
  <2>5. /\ all_socket_connections[i] \in ConnectionRow
        /\ row.channel = x /\ row.readers \subseteq subjects[s].readers
    <3>1. all_socket_connections[i] \in ConnectionRow
      BY <1>2, <2>3, ElementOfSeq, LenProperties DEF TypedRows
    <3>2. QED
      BY <1>2, <2>3, <2>4, <3>1, RaiseConnectionRow
  <2>6. /\ DOMAIN all_socket_connections' = DOMAIN all_socket_connections
        /\ \A j \in DOMAIN all_socket_connections :
             all_socket_connections'[j] = IF j = i THEN row ELSE all_socket_connections[j]
    BY <2>2, <2>3, <2>4 DEF RaisedRow
  <2>7. \A j \in DOMAIN all_socket_connections' : all_socket_connections'[j].channel = x =>
          all_socket_connections'[j].readers \subseteq subjects[s].readers
    BY <1>2, <2>3, <2>5, <2>6 DEF OneRowEach
  <2>8. QED
    BY <1>1, <1>3, <1>4, <2>3, <2>7, TableOfNext DEF TableOf, IsPipe
<1>5. CASE kind[x] # "socket"
  <2>1. PICK i : i = IndexOf(all_pipe_objects, x)
    OBVIOUS
  <2>2. InTable(all_pipe_objects, x)
    <3>1. Counted(p, x) # {}
      BY DEF Counted
    <3>2. QED
      BY <1>5, <3>1 DEF FlowStep, Known, IsPipe
  <2>3. i # 0 /\ i \in DOMAIN all_pipe_objects /\ all_pipe_objects[i].channel = x
    BY <1>2, <2>1, <2>2, IndexOfRow DEF TypedRows
  <2>4. all_pipe_objects' = RaisedRow(all_pipe_objects, i, subjects[s])
    BY <1>1, <1>2, <1>5, <2>1, <2>3 DEF write_check, pipe_write_check
  <2>5. PICK row : row = Raise(all_pipe_objects[i], subjects[s])
    OBVIOUS
  <2>6. row.channel = x /\ row.readers \subseteq subjects[s].readers
    <3>1. all_pipe_objects[i] \in ChannelRow
      BY <1>2, <2>3, ElementOfSeq, LenProperties DEF TypedRows
    <3>2. QED
      BY <1>2, <2>3, <2>5, <3>1, RaiseChannelRow, ZenonT(40)
  <2>7. /\ DOMAIN all_pipe_objects' = DOMAIN all_pipe_objects
        /\ \A j \in DOMAIN all_pipe_objects :
             all_pipe_objects'[j] = IF j = i THEN row ELSE all_pipe_objects[j]
    BY <2>3, <2>4, <2>5 DEF RaisedRow
  <2>8. \A j \in DOMAIN all_pipe_objects' : all_pipe_objects'[j].channel = x =>
          all_pipe_objects'[j].readers \subseteq subjects[s].readers
    BY <1>2, <2>3, <2>6, <2>7 DEF OneRowEach
  <2>9. QED
    BY <1>1, <1>3, <1>5, <2>2, <2>8, TableOfNext DEF TableOf, IsPipe
<1>6. QED
  BY <1>4, <1>5

\* What a row covers, a row that stands for it covers too.
LEMMA RowsTold ==
  ASSUME NEW x, Guarded(x), InTable(TableOf(x), x), TableStep(TableOf(x), TableOf(x)')
  PROVE  \A j \in DOMAIN TableOf(x)' : TableOf(x)'[j].channel = x =>
           Told(Info(x), TableOf(x)'[j].readers)
<1>1. ASSUME NEW j \in DOMAIN TableOf(x)', TableOf(x)'[j].channel = x
      PROVE  Told(Info(x), TableOf(x)'[j].readers)
  <2>1. PICK i \in DOMAIN TableOf(x) : /\ TableOf(x)'[j].channel = TableOf(x)[i].channel
                                       /\ FlowsTo(TableOf(x)[i], TableOf(x)'[j])
    BY <1>1 DEF TableStep
  <2>2. Told(Info(x), TableOf(x)[i].readers)
    BY <1>1, <2>1 DEF Guarded
  <2>3. TableOf(x)'[j].readers \subseteq TableOf(x)[i].readers
    BY <2>1 DEF FlowsTo
  <2>4. QED
    BY <2>2, <2>3, ToldLess
<1>2. QED
  BY <1>1

\* The written channel: its row now covers what the process knows.
LEMMA WrittenFlow ==
  ASSUME FlowStep, NEW p \in Pids, NEW x \in Channels, NEW e \in Ends, Write(p, x, e),
         write_check(p, x, "allowed"), buf'[p] = know[p], Emptied(x)'
  PROVE  ChannelFlow(x)'
<1>1. /\ pc[p] = "idle" /\ Others(p) /\ <<x, e>> \in fds[p]
      /\ UNCHANGED <<kind, uid, know, fds, data, backlog>>
  BY WriteMove DEF FlowStep, Write
<1>2. /\ InTable(TableOf(x), x)
      /\ \A j \in DOMAIN TableOf(x)' : TableOf(x)'[j].channel = x =>
           TableOf(x)'[j].readers \subseteq subjects[Sid(p)].readers
  BY <1>1, WriteRaises
<1>3. IsPipe(x)' <=> IsPipe(x)
  BY <1>1 DEF IsPipe
<1>4. Told(know[p], subjects[Sid(p)].readers)
  BY <1>1 DEF FlowStep, FlowInv, ProcessFlow
<1>5. \A j \in DOMAIN TableOf(x)' : TableOf(x)'[j].channel = x =>
           Told(Info(x), TableOf(x)'[j].readers)
  BY <1>2, <1>3, TableOfNext, RowsTold DEF FlowStep, FlowInv, ChannelFlow
<1>6. Info(x)' \subseteq Info(x) \cup know[p]
  <2>1. \A end \in Ends : data'[x][end] \subseteq Info(x) \cup know[p]
    BY <1>1, InfoHas DEF FlowStep
  <2>2. \A q \in Pids : On(q, x)' => buf'[q] \subseteq Info(x) \cup know[p]
    <3>1. ASSUME NEW q \in Pids, q # p, On(q, x)'
          PROVE  buf'[q] \subseteq Info(x)
      <4>1. On(q, x) /\ buf'[q] = buf[q]
        BY <1>1, <3>1 DEF Others, On
      <4>2. QED
        BY <4>1, InfoHas DEF FlowStep
    <3>2. QED
      BY <3>1
  <2>3. QED
    BY <2>1, <2>2, InfoKept
<1>7. ASSUME NEW j \in DOMAIN TableOf(x)', TableOf(x)'[j].channel = x
      PROVE  Told(Info(x)', TableOf(x)'[j].readers)
  <2>1. Told(Info(x), TableOf(x)'[j].readers)
    BY <1>5, <1>7
  <2>2. TableOf(x)'[j].readers \subseteq subjects[Sid(p)].readers
    BY <1>2, <1>7
  <2>3. Told(know[p], TableOf(x)'[j].readers)
    BY <1>4, <2>2, ToldLess
  <2>4. QED
    BY <1>6, <2>1, <2>3 DEF Told
<1>8. Guarded(x)'
  BY <1>7 DEF Guarded, Told
<1>9. InTable(TableOf(x), x)'
  <2>1. SameRows
    BY WriteRows DEF FlowStep
  <2>2. QED
    BY <1>2, <1>3, <2>1, TableOfNext DEF TableOf, SameRows
<1>10. QED
  BY <1>8, <1>9 DEF ChannelFlow, Unwritten

LEMMA WriteFlow ==
  ASSUME FlowStep, NEW p \in Pids, NEW x \in Channels, NEW e \in Ends, Write(p, x, e)
  PROVE  FlowInv'
<1>1. /\ pc[p] = "idle" /\ Others(p)
      /\ \/ /\ write_check(p, x, "allowed") /\ CalledAs(p, "write", x, e)
            /\ buf'[p] = know[p]
         \/ /\ write_check(p, x, "error") \/ write_check(p, x, "stopped")
            /\ UNCHANGED <<pc, on, buf>>
      /\ UNCHANGED <<kind, uid, know, fds, data, backlog>>
  BY WriteMove DEF FlowStep
<1>2. NoneOpens
  BY <1>1 DEF CalledAs, NoneOpens
<1>3. SameRows
  BY <1>1, WriteRows DEF FlowStep
<1>4. ASSUME NEW y \in Channels
      PROVE  ChannelFlow(y)'
  <2>1. Emptied(y)'
    BY <1>1, EmptiedKept DEF FlowStep, IsOpen
  <2>2. CASE write_check(p, x, "allowed") /\ CalledAs(p, "write", x, e) /\ y = x
    BY <1>1, <2>1, <2>2, WrittenFlow DEF CalledAs
  <2>3. CASE CalledAs(p, "write", x, e) /\ y # x
    <3>1. ~On(p, y)'
      BY <2>3 DEF On, CalledAs
    <3>2. Info(y)' \subseteq Info(y)
      BY <1>1, <3>1, InfoOthers DEF FlowStep
    <3>3. QED
      BY <1>1, <1>2, <1>3, <2>1, <3>2, FlowIdle
  <2>4. CASE UNCHANGED <<pc, on, buf>>
    <3>1. Info(y)' \subseteq Info(y)
      BY <1>1, <2>4, InfoIdle DEF FlowStep, On
    <3>2. QED
      BY <1>1, <1>2, <1>3, <2>1, <3>1, FlowIdle
  <2>5. QED
    BY <1>1, <2>2, <2>3, <2>4
<1>5. ProcessFlow(p)'
  BY <1>1, ProcessKept
<1>6. QED
  BY <1>1, <1>4, <1>5, ProcessesKept DEF FlowInv

LEMMA WriteDataFlow ==
  ASSUME FlowStep, NEW p \in Pids, WriteData(p)
  PROVE  FlowInv'
<1>1. /\ pc[p] = "write" /\ ReturnedAs(p) /\ Others(p)
      /\ UNCHANGED <<revars, ctvars, kind, uid, know, fds, backlog>>
  BY WriteDataMove DEF FlowStep
<1>2. PICK x \in Channels : x = on[p][1]
  BY <1>1 DEF FlowStep, TypeInv, OnTyped
<1>3. PICK e : e = Other(CHOOSE end \in on[p][2] : TRUE)
  OBVIOUS
<1>4. data' = IF Held(x, e) \/ x \in backlog
                THEN [data EXCEPT ![x][e] = @ \cup buf[p]] ELSE data
  BY <1>3, <1>2 DEF WriteData
<1>5. data \in [Channels -> [Ends -> SUBSET Files]]
  BY DEF FlowStep, TypeInv, ProcTyped
<1>6. /\ \A y \in Channels : y # x => data'[y] = data[y]
      /\ \A end \in Ends : data'[x][end] \subseteq data[x][end] \cup buf[p]
  <2>1. CASE data' = data
    BY <2>1
  <2>2. CASE data' = [data EXCEPT ![x][e] = @ \cup buf[p]]
    BY <1>5, <2>2
  <2>3. QED
    BY <1>4, <2>1, <2>2
<1>7. NoneOpens /\ SameRows
  BY <1>1, SameRowsIdle DEF ReturnedAs, NoneOpens
<1>8. ASSUME NEW y \in Channels
      PROVE  ChannelFlow(y)'
  <2>1. Emptied(y)'
    <3>1. CASE data'[y] = data[y]
      BY <1>1, <3>1 DEF FlowStep, FlowInv, ChannelFlow, Emptied, IsOpen
    <3>2. CASE y = x /\ (Held(x, e) \/ x \in backlog)
      <4>1. Held(x, e) => IsOpen(x)
        <5>1. \A q \in Pids : fds[q] \subseteq Channels \X Ends
          BY DEF FlowStep, TypeInv, ProcTyped
        <5>2. \A q \in Pids : <<x, e>> \in fds[q] => e \in Ends
          BY <5>1
        <5>3. QED
          BY <5>2 DEF Held, IsOpen
      <4>2. QED
        BY <1>1, <3>2, <4>1 DEF Emptied, IsOpen
    <3>3. QED
      BY <1>4, <1>6, <3>1, <3>2
  <2>2. Info(y)' \subseteq Info(y)
    <3>1. CASE y # x
      BY <1>1, <1>6, <3>1, InfoOthers DEF FlowStep, ReturnedAs, On
    <3>2. CASE y = x
      <4>1. buf[p] \subseteq Info(x)
        BY <1>1, <1>2, InfoHas DEF FlowStep, On
      <4>2. \A end \in Ends : data'[x][end] \subseteq Info(x)
        BY <1>6, <4>1, InfoHas DEF FlowStep
      <4>3. \A q \in Pids : On(q, x)' => buf'[q] \subseteq Info(x)
        <5>1. ASSUME NEW q \in Pids, On(q, x)'
              PROVE  buf'[q] \subseteq Info(x)
          <6>1. q # p
            BY <1>1, <5>1 DEF ReturnedAs, On
          <6>2. On(q, x) /\ buf'[q] = buf[q]
            BY <1>1, <5>1, <6>1 DEF Others, On
          <6>3. QED
            BY <6>2, InfoHas DEF FlowStep
        <5>2. QED
          BY <5>1
      <4>4. QED
        BY <3>2, <4>2, <4>3, InfoKept
    <3>3. QED
      BY <3>1, <3>2
  <2>3. QED
    BY <1>1, <1>7, <2>1, <2>2, FlowIdle
<1>9. ProcessFlow(p)'
  BY <1>1, ProcessKept
<1>10. QED
  BY <1>1, <1>8, <1>9, ProcessesKept DEF FlowInv

-----------------------------------------------------------------------------
(* Closing *)

LEMMA CloseRows ==
  ASSUME TypeInv, NEW p \in Pids, NEW x \in Channels, NEW e \in Ends, Close(p, x, e)
  PROVE  \A y : /\ InTable(all_pipe_objects', y) => InTable(all_pipe_objects, y)
                /\ InTable(all_socket_connections', y) => InTable(all_socket_connections, y)
                /\ y # x /\ InTable(all_pipe_objects, y) => InTable(all_pipe_objects', y)
                /\ y # x /\ InTable(all_socket_connections, y)
                     => InTable(all_socket_connections', y)
<1>1. /\ TablesTyped /\ TypedRows
      /\ pipe_close_check(Sid(p), x) \/ socket_close_check(Sid(p), x)
  BY RowsTyped DEF Close, TypeInv
<1>2. CASE pipe_close_check(Sid(p), x)
  <2>1. PICK i : i = IndexOf(all_pipe_objects, x)
    OBVIOUS
  <2>2. /\ UNCHANGED all_socket_connections
        /\ i = 0 => UNCHANGED all_pipe_objects
        /\ i # 0 => i \in 1..Len(all_pipe_objects) /\ all_pipe_objects[i].channel = x
        /\ i # 0 /\ all_pipe_objects[i].ref_count > 1 =>
             \E row \in ChannelRow :
               /\ all_pipe_objects' = Replaced(all_pipe_objects, i, row)
               /\ row.channel = all_pipe_objects[i].channel
        /\ i # 0 /\ ~(all_pipe_objects[i].ref_count > 1) =>
             all_pipe_objects' = RemoveAt(all_pipe_objects, i)
    BY <1>1, <1>2, <2>1, PipeCloseFacts, IndexOfRow DEF TypedRows
  <2>3. CASE i = 0
    BY <2>2, <2>3
  <2>4. CASE i # 0 /\ all_pipe_objects[i].ref_count > 1
    BY <1>1, <2>2, <2>4, RowsReplaced DEF TypedRows
  <2>5. CASE i # 0 /\ ~(all_pipe_objects[i].ref_count > 1)
    <3>1. all_pipe_objects' = RemoveAt(all_pipe_objects, i)
      BY <2>2, <2>5
    <3>2. \A y : /\ InTable(all_pipe_objects', y) => InTable(all_pipe_objects, y)
                 /\ InTable(all_pipe_objects, y) => InTable(all_pipe_objects', y) \/ y = x
      BY <1>1, <2>2, <2>5, <3>1, RowsRemoved DEF TypedRows
    <3>3. QED
      BY <2>2, <3>2
  <2>6. QED
    BY <2>3, <2>4, <2>5
<1>3. CASE socket_close_check(Sid(p), x)
  <2>1. PICK i : i = IndexOf(all_socket_connections, x)
    OBVIOUS
  <2>2. /\ UNCHANGED all_pipe_objects
        /\ \/ UNCHANGED all_socket_connections
           \/ /\ i \in 1..Len(all_socket_connections)
              /\ \/ all_socket_connections' = RemoveAt(all_socket_connections, i)
                 \/ \E row \in ConnectionRow :
                      /\ all_socket_connections' = Replaced(all_socket_connections, i, row)
                      /\ row.channel = all_socket_connections[i].channel
    BY <1>1, <1>3, <2>1, SocketCloseFacts
  <2>3. CASE UNCHANGED all_socket_connections
    BY <2>2, <2>3
  <2>4. CASE /\ i \in 1..Len(all_socket_connections)
             /\ all_socket_connections' = RemoveAt(all_socket_connections, i)
    <3>1. all_socket_connections[i].channel = x
      BY <1>1, <2>1, <2>4, IndexOfRow DEF TypedRows
    <3>2. \A y :
            /\ InTable(all_socket_connections', y) => InTable(all_socket_connections, y)
            /\ InTable(all_socket_connections, y)
                 => InTable(all_socket_connections', y) \/ y = x
      BY <1>1, <2>4, <3>1, RowsRemoved DEF TypedRows
    <3>3. QED
      BY <2>2, <3>2
  <2>5. CASE /\ i \in 1..Len(all_socket_connections)
             /\ \E row \in ConnectionRow :
                  /\ all_socket_connections' = Replaced(all_socket_connections, i, row)
                  /\ row.channel = all_socket_connections[i].channel
    BY <1>1, <2>2, <2>5, RowsReplaced DEF TypedRows
  <2>6. QED
    BY <2>2, <2>3, <2>4, <2>5
<1>4. QED
  BY <1>1, <1>2, <1>3

LEMMA CloseFlow ==
  ASSUME FlowStep, Races = {}, NEW p \in Pids, NEW x \in Channels, NEW e \in Ends,
         Close(p, x, e)
  PROVE  FlowInv'
<1>1. /\ pc[p] = "idle" /\ CalledAs(p, "closing", x, e) /\ Others(p)
      /\ UNCHANGED <<kind, uid, know, buf, fds, data, backlog>>
  BY CloseMove DEF FlowStep
<1>2. ~Opening(x) /\ x \notin backlog
  BY DEF Close
<1>3. \A y : /\ InTable(all_pipe_objects', y) => InTable(all_pipe_objects, y)
             /\ InTable(all_socket_connections', y) => InTable(all_socket_connections, y)
             /\ y # x /\ InTable(all_pipe_objects, y) => InTable(all_pipe_objects', y)
             /\ y # x /\ InTable(all_socket_connections, y)
                  => InTable(all_socket_connections', y)
  BY CloseRows DEF FlowStep
<1>4. ASSUME NEW y \in Channels
      PROVE  ChannelFlow(y)'
  <2>1. IsPipe(y)' <=> IsPipe(y)
    BY <1>1 DEF IsPipe
  <2>2. Emptied(y)'
    BY <1>1, EmptiedKept DEF FlowStep, IsOpen
  <2>3. Info(y)' \subseteq Info(y)
    BY <1>1, InfoOthers DEF FlowStep, CalledAs, On
  <2>4. Opening(y)' => Opening(y)
    BY <1>1 DEF CalledAs, Opening
  <2>5. InTable(TableOf(y)', y) => InTable(TableOf(y), y)
    BY <1>3, <2>1, TableOfNext DEF TableOf
  <2>6. InTable(TableOf(y), y) => InTable(TableOf(y)', y) \/ y = x
    BY <1>3, <2>1, TableOfNext DEF TableOf
  <2>7. y = x => ~(Opening(y)' \/ y \in backlog')
    BY <1>1, <1>2, <2>4
  <2>8. QED
    BY <1>1, <2>1, <2>2, <2>3, <2>4, <2>5, <2>6, <2>7, FlowKept
<1>5. ProcessFlow(p)'
  BY <1>1, ProcessKept
<1>6. QED
  BY <1>1, <1>4, <1>5, ProcessesKept DEF FlowInv

LEMMA RemainingFlow ==
  ASSUME FlowStep, NEW p \in Pids, Others(p), data' = Remaining(fds'),
         UNCHANGED <<revars, ctvars, kind, backlog>>,
         pc'[p] \in {"free", "idle"}, buf'[p] = {},
         pc'[p] = "idle" => /\ pc[p] \notin {"free", "forked"}
                            /\ uid'[p] = uid[p] /\ know'[p] = know[p]
  PROVE  FlowInv'
<1>1. NoneOpens /\ SameRows
  BY SameRowsIdle DEF Others, NoneOpens
<1>2. ASSUME NEW y \in Channels
      PROVE  ChannelFlow(y)'
  <2>1. data'[y] = IF (\E q \in Pids, e \in Ends : <<y, e>> \in fds'[q]) \/ y \in backlog
                     THEN data[y] ELSE [e \in Ends |-> {}]
    BY DEF Remaining
  <2>2. Emptied(y)'
    BY <2>1 DEF Emptied, IsOpen
  <2>3. \A e \in Ends : data'[y][e] \subseteq data[y][e]
    BY <2>1
  <2>4. Info(y)' \subseteq Info(y)
    BY <2>3, InfoOthers DEF FlowStep
  <2>5. QED
    BY <1>1, <2>2, <2>4, FlowIdle
<1>3. ProcessFlow(p)'
  BY ProcessKept
<1>4. QED
  BY <1>2, <1>3, ProcessesKept DEF FlowInv

LEMMA CloseFdFlow ==
  ASSUME FlowStep, NEW p \in Pids, CloseFd(p)
  PROVE  FlowInv'
<1>1. /\ pc[p] = "closing" /\ ReturnedAs(p) /\ Others(p) /\ data' = Remaining(fds')
      /\ UNCHANGED <<revars, ctvars, kind, uid, know, backlog>>
  BY CloseFdMove DEF FlowStep
<1>2. QED
  BY <1>1, RemainingFlow DEF ReturnedAs

LEMMA ExitFlow ==
  ASSUME FlowStep, NEW p \in Pids, Exit(p)
  PROVE  FlowInv'
<1>1. /\ Others(p) /\ pc'[p] = "free" /\ buf'[p] = {} /\ data' = Remaining(fds')
      /\ UNCHANGED <<revars, ctvars, kind, backlog>>
  BY ExitMove DEF FlowStep
<1>2. QED
  BY <1>1, RemainingFlow

-----------------------------------------------------------------------------
(* fork, and files *)

LEMMA ForkFlow ==
  ASSUME FlowStep, NEW p \in Pids, NEW c \in Pids, Fork(p, c)
  PROVE  FlowInv'
<1>1. /\ p # c /\ pc[p] = "idle" /\ pc[c] = "free"
      /\ pc'[p] = "forkwait" /\ pc'[c] = "forked"
      /\ uid'[p] = uid[p] /\ know'[p] = know[p] /\ fds'[p] = fds[p] /\ fds'[c] = fds[p]
      /\ \A q \in Pids : q # p /\ q # c =>
           /\ pc'[q] = pc[q] /\ uid'[q] = uid[q] /\ on'[q] = on[q]
           /\ know'[q] = know[q] /\ fds'[q] = fds[q]
      /\ UNCHANGED <<revars, ctvars, kind, buf, data, backlog>>
  BY ForkMove DEF FlowStep
<1>2. NoneOpens /\ SameRows
  BY <1>1, SameRowsIdle DEF NoneOpens
<1>3. fds[c] = {}
  BY <1>1 DEF FlowStep, CallsInv, CallInv
<1>4. ASSUME NEW y \in Channels
      PROVE  ChannelFlow(y)'
  <2>1. \A q \in Pids : fds[q] \subseteq fds'[q]
    BY <1>1, <1>3
  <2>2. Emptied(y)'
    BY <1>1, <2>1, OpenStays, EmptiedKept DEF FlowStep
  <2>3. \A q \in Pids : On(q, y)' => On(q, y)
    BY <1>1 DEF On
  <2>4. Info(y)' \subseteq Info(y)
    BY <1>1, <2>3, InfoIdle DEF FlowStep
  <2>5. QED
    BY <1>1, <1>2, <2>2, <2>4, FlowIdle
<1>5. \A q \in Pids : ProcessFlow(q)'
  BY <1>1, ProcessKept
<1>6. QED
  BY <1>4, <1>5 DEF FlowInv

LEMMA ForkCheckFlow ==
  ASSUME FlowStep, NEW c \in Pids, ForkCheck(c), server' = "up"
  PROVE  FlowInv'
<1>1. PICK p : p = on[c][1]
  OBVIOUS
<1>2. /\ p \in Pids /\ p # c /\ pc[p] = "forkwait" /\ pc[c] = "forked"
      /\ fork_check_and_copy(uid[c], c, p)
      /\ pc'[p] = "idle" /\ pc'[c] = "idle" /\ on'[c] = Nowhere
      /\ \A q \in Pids : q # p /\ q # c => pc'[q] = pc[q]
      /\ \A q \in Pids : q # c => on'[q] = on[q]
      /\ UNCHANGED <<kind, uid, know, buf, fds, data, backlog>>
  BY <1>1, ForkCheckMove DEF FlowStep
<1>3. PICK s, t : s = Sid(p) /\ t = Sid(c)
  OBVIOUS
<1>4. /\ uid[c] = uid[p] /\ know[c] = know[p] /\ s = <<uid[c], p>> /\ t = <<uid[c], c>>
      /\ s \in DOMAIN subjects /\ t \notin DOMAIN subjects
  <2>1. uid[c] \in Users
    BY <1>2, SidType DEF FlowStep, TypeInv
  <2>2. QED
    BY <1>1, <1>2, <1>3, <2>1 DEF FlowStep, CallsInv, CallInv, Sid
<1>5. /\ subjects'[t] = subjects[s] /\ subjects'[s] = subjects[s]
      /\ all_pipe_objects' = CountedCopies(s) /\ UNCHANGED all_socket_connections
  <2>1. /\ <<uid[c], p>> \in DOMAIN subjects /\ <<uid[c], c>> \notin DOMAIN subjects
        /\ fork_check_and_copy(uid[c], c, p)
    BY <1>2, <1>4
  <2>2. /\ \A r \in DOMAIN subjects : subjects'[r] = subjects[r]
        /\ subjects'[<<uid[c], c>>] = subjects[<<uid[c], p>>]
        /\ all_pipe_objects' = CountedCopies(<<uid[c], p>>)
        /\ UNCHANGED all_socket_connections
    BY <2>1, ForkedRow, ZenonT(40)
  <2>3. QED
    BY <1>4, <2>2
<1>6. SameRows
  <2>1. TypedRows /\ CTTypeOK
    BY RowsTyped DEF FlowStep, TypeInv, TablesTyped
  <2>2. /\ CountedCopies(s) \in Seq(ChannelRow)
        /\ Len(CountedCopies(s)) = Len(all_pipe_objects)
        /\ \A i \in 1..Len(all_pipe_objects) :
             CountedCopies(s)[i].channel = all_pipe_objects[i].channel
    BY <2>1, CopiesFacts
  <2>3. \A y : InTable(all_pipe_objects', y) <=> InTable(all_pipe_objects, y)
    BY <1>5, <2>1, <2>2, ChannelsStay DEF TypedRows
  <2>4. QED
    BY <1>5, <2>3 DEF SameRows
<1>7. NoneOpens
  BY <1>2 DEF NoneOpens
<1>8. ASSUME NEW y \in Channels
      PROVE  ChannelFlow(y)'
  <2>1. Emptied(y)'
    BY <1>2, EmptiedKept DEF FlowStep, IsOpen
  <2>2. \A q \in Pids : On(q, y)' => On(q, y)
    BY <1>2 DEF On
  <2>3. Info(y)' \subseteq Info(y)
    BY <1>2, <2>2, InfoIdle DEF FlowStep
  <2>4. QED
    BY <1>2, <1>6, <1>7, <2>1, <2>3, FlowIdle
<1>9. ASSUME NEW q \in Pids
      PROVE  ProcessFlow(q)'
  <2>1. CASE q # c
    <3>1. pc'[q] \notin {"free", "forked"} => pc[q] \notin {"free", "forked"}
      BY <1>2, <2>1
    <3>2. QED
      BY <1>2, <3>1, ProcessKept
  <2>2. CASE q = c
    <3>1. Told(know[p], subjects[s].readers)
      BY <1>2, <1>3 DEF FlowStep, FlowInv, ProcessFlow
    <3>2. Sid(c)' = t
      BY <1>2, <1>3, SameSid
    <3>3. Told(know'[c], subjects'[Sid(c)'].readers)
      BY <1>2, <1>4, <1>5, <3>1, <3>2
    <3>4. QED
      BY <2>2, <3>3 DEF ProcessFlow, Told
  <2>3. QED
    BY <2>1, <2>2
<1>10. QED
  BY <1>8, <1>9 DEF FlowInv

LEMMA ReadFileFlow ==
  ASSUME FlowStep, NEW p \in Pids, NEW f \in Files, ReadFile(p, f)
  PROVE  FlowInv'
<1>1. /\ pc[p] = "idle" /\ Others(p) /\ know'[p] = know[p] \cup {f}
      /\ file_read_check(Sid(p), f, "allowed")
      /\ UNCHANGED <<ctvars, kind, pc, uid, on, buf, fds, data, backlog>>
  BY ReadFileMove DEF FlowStep
<1>2. NoneOpens /\ SameRows
  BY <1>1, SameRowsIdle DEF NoneOpens
<1>3. ASSUME NEW y \in Channels
      PROVE  ChannelFlow(y)'
  <2>1. Emptied(y)'
    BY <1>1, EmptiedKept DEF FlowStep, IsOpen
  <2>2. Info(y)' \subseteq Info(y)
    BY <1>1, InfoIdle DEF FlowStep, On
  <2>3. QED
    BY <1>1, <1>2, <2>1, <2>2, FlowIdle
<1>4. ProcessFlow(p)'
  <2>1. PICK s : s = Sid(p)
    OBVIOUS
  <2>2. /\ f \in DOMAIN objects /\ s \in DOMAIN subjects
        /\ subjects' = [subjects EXCEPT ![s] = Raise(@, objects[f])]
    BY <1>1, <2>1 DEF file_read_check
  <2>3. subjects[s] \in SubjectRow /\ objects[f].readers = ReadersOf(f)
    <3>1. REInv
      BY DEF FlowStep, TypeInv, TablesTyped
    <3>2. objects[f] = InferredObject(f)
      BY <2>2, <3>1 DEF REInv, ObjectsInferred
    <3>3. QED
      BY <2>2, <3>1, <3>2, SubjectLabel, InferredObjectType DEF ReadersOf
  <2>4. subjects'[s] = Raise(subjects[s], objects[f])
    BY <2>2
  <2>5. /\ subjects'[s].readers \subseteq subjects[s].readers
        /\ subjects'[s].readers \subseteq ReadersOf(f)
    BY <2>3, <2>4 DEF Raise, SubjectRow
  <2>6. Told(know[p], subjects[s].readers)
    BY <1>1, <2>1 DEF FlowStep, FlowInv, ProcessFlow
  <2>7. Told(know'[p], subjects'[s].readers)
    BY <1>1, <2>5, <2>6 DEF Told
  <2>8. Sid(p)' = s
    BY <1>1, <2>1, SameSid
  <2>9. Told(know'[p], subjects'[Sid(p)'].readers)
    BY <2>7, <2>8
  <2>10. QED
    BY <2>9 DEF ProcessFlow, Told
<1>5. QED
  BY <1>1, <1>3, <1>4, ProcessesKept DEF FlowInv

-----------------------------------------------------------------------------
(* All steps *)

LEMMA SameFlow ==
  ASSUME FlowInv, UNCHANGED vars
  PROVE  FlowInv'
BY DEF vars, revars, ctvars, FlowInv, ChannelFlow, Emptied, Guarded, Unwritten, ProcessFlow,
       Told, Info, On, TableOf, IsPipe, IsOpen, InTable, Opening, Sid

\* A read or write of a socket either slips by or moves nothing.
LEMMA SocketFlow ==
  ASSUME FlowInv, NEW p, NEW x, NEW e, ReadSocket(p, x, e) \/ WriteSocket(p, x, e),
         slips = {}, slips' = {}
  PROVE  FlowInv'
<1>1. CASE ReadSocket(p, x, e)
  <2>1. know' = know
    BY <1>1 DEF ReadSocket
  <2>2. QED
    BY <1>1, <2>1, SameFlow DEF ReadSocket, vars
<1>2. CASE WriteSocket(p, x, e)
  <2>1. data' = data
    BY <1>2 DEF WriteSocket
  <2>2. QED
    BY <1>2, <2>1, SameFlow DEF WriteSocket, vars
<1>3. QED
  BY <1>1, <1>2

LEMMA NextFlow ==
  ASSUME FlowStep, Races = {}, Next, server' = "up", slips = {}, slips' = {}
  PROVE  FlowInv'
<1>1. FlowInv
  BY DEF FlowStep
<1>2. QED
  BY <1>1, PipeFlow, OpenFifoFlow, ConnectFlow, AcceptFlow, OpenCheckFlow, ReadFlow,
     ReadCheckFlow, WriteFlow, WriteDataFlow, CloseFlow, CloseFdFlow, ForkFlow,
     ForkCheckFlow, ExitFlow, ReadFileFlow, SocketFlow DEF Next

LEMMA InitFlow == Init => FlowInv /\ SocketEnds
<1> SUFFICES ASSUME Init
             PROVE  FlowInv /\ SocketEnds
  OBVIOUS
<1>1. /\ all_pipe_objects = <<>> /\ all_socket_connections = <<>> /\ backlog = {}
      /\ \A p \in Pids : pc[p] \in {"idle", "free"} /\ fds[p] = {} /\ know[p] = {}
      /\ \A x \in Channels, e \in Ends : data[x][e] = {}
  BY DEF Init
<1>2. ASSUME NEW x \in Channels
      PROVE  ChannelFlow(x)
  <2>1. TableOf(x) = <<>>
    BY <1>1 DEF TableOf
  <2>2. Info(x) = {} /\ Emptied(x)
    BY <1>1 DEF Info, On, Emptied
  <2>3. Guarded(x)
    BY <2>1 DEF Guarded
  <2>4. QED
    BY <2>2, <2>3 DEF ChannelFlow, Unwritten
<1>3. \A p \in Pids : ProcessFlow(p)
  BY <1>1 DEF ProcessFlow, Told
<1>4. SocketEnds
  BY <1>1 DEF SocketEnds
<1>5. QED
  BY <1>2, <1>3, <1>4 DEF FlowInv

\* What the rows cover, the owners may read.
LEMMA FlowCovers ==
  ASSUME TypeInv, CallsInv, FlowInv
  PROVE  KnowledgeCovered
<1>1. ASSUME NEW p \in Pids, NEW f \in know[p]
      PROVE  /\ uid[p] \in ReadersOf(f)
             /\ Sid(p) \in DOMAIN subjects => subjects[Sid(p)].readers \subseteq ReadersOf(f)
  <2>1. PICK q \in Pids : /\ pc[q] \notin {"free", "forked"}
                          /\ know[q] = know[p] /\ uid[q] = uid[p]
                          /\ pc[p] # "forked" => q = p
    <3>1. pc[p] # "free"
      BY <1>1 DEF CallsInv, CallInv
    <3>2. CASE pc[p] = "forked"
      <4>1. PICK q \in Pids : q = on[p][1] /\ pc[q] = "forkwait"
        BY <3>2 DEF TypeInv, ForkInv
      <4>2. know[q] = know[p] /\ uid[q] = uid[p]
        BY <3>2, <4>1 DEF CallsInv, CallInv
      <4>3. QED
        BY <3>2, <4>1, <4>2
    <3>3. QED
      BY <3>1, <3>2
  <2>2. subjects[Sid(q)].readers \subseteq ReadersOf(f)
    BY <1>1, <2>1 DEF FlowInv, ProcessFlow, Told
  <2>3. uid[q] \in subjects[Sid(q)].readers
    <3>1. REInv /\ Sid(q) \in DOMAIN subjects
      BY <2>1 DEF TypeInv, TablesTyped, CallsInv, CallInv
    <3>2. Sid(q)[1] \in subjects[Sid(q)].readers
      BY <3>1, SubjectLabel
    <3>3. QED
      BY <3>2 DEF Sid
  <2>4. pc[p] = "forked" => Sid(p) \notin DOMAIN subjects
    <3>1. pc[p] = "forked" => uid[p] \in Users
      BY SidType DEF TypeInv
    <3>2. QED
      BY <3>1 DEF CallsInv, CallInv, Sid
  <2>5. QED
    BY <2>1, <2>2, <2>3, <2>4
<1>2. QED
  BY <1>1 DEF KnowledgeCovered

\* The invariant of the information, up to the first unchecked transfer.
Covered == /\ Races = {}
           /\ server = "up" => SocketEnds /\ (slips = {} => FlowInv)

(***************************************************************************)
(* What processes know, what waits in pipes, fifos and sockets, and what   *)
(* is on its way into or out of them is covered by the label of where it   *)
(* is, if no channel is opened while it is closed, and nobody forks or     *)
(* there is one pipe only, as long as nobody moved anything with a read()  *)
(* or write() of a socket, which make no check.  Sockets may be as many as *)
(* there are, and inherited too.                                           *)
(***************************************************************************)
THEOREM InformationCovered ==
  Spec /\ Races = {} /\ (Forkers = {} \/ OnePipe) => []Covered
<1>1. /\ TypeInv /\ TableInv /\ Ready /\ AllKnown /\ (TypeInv /\ TableInv)' /\ Covered
      /\ [Next]_vars
      => Covered'
  <2> SUFFICES ASSUME TypeInv, TableInv, Ready, AllKnown, TypeInv', Covered, [Next]_vars
               PROVE  Covered'
    OBVIOUS
  <2>1. CASE Next
    <3>1. server = "up"
      BY <2>1, KindChanges
    <3>2. CallsInv /\ Known /\ SocketEnds
      BY <3>1 DEF Ready, AllKnown, Covered
    <3>3. SocketEnds'
      BY <2>1, <3>2, NextEnds
    <3>4. ASSUME slips' = {}, server' = "up"
          PROVE  FlowInv'
      <4>1. slips = {}
        BY <3>4, SlipsGrow
      <4>2. FlowInv
        BY <3>1, <4>1 DEF Covered
      <4>3. FlowStep
        BY <3>2, <4>2, NextDone DEF FlowStep, StepOK
      <4>4. QED
        BY <2>1, <3>4, <4>1, <4>3, NextFlow DEF Covered
    <3>5. QED
      BY <3>3, <3>4 DEF Covered
  <2>2. CASE UNCHANGED vars
    <3>1. UNCHANGED <<server, slips>> /\ (SocketEnds => SocketEnds')
      BY <2>2 DEF vars, revars, SocketEnds
    <3>2. FlowInv => FlowInv'
      BY <2>2, SameFlow
    <3>3. QED
      BY <3>1, <3>2 DEF Covered
  <2>3. QED
    BY <2>1, <2>2
<1>2. Init /\ Races = {} => Covered
  BY InitFlow DEF Covered
<1>3. QED
  BY <1>1, <1>2, ChannelInvariant, ChannelCalls, PipesKnown, PTL DEF Spec

(***************************************************************************)
(* So under the same conditions, and up to the first read or write of a    *)
(* socket that moved anything, nobody knows of a file without a label that *)
(* says so, through any number of checked reads, writes, forks and         *)
(* channels; a child that the server does not know yet is covered by its   *)
(* parent.                                                                 *)
(***************************************************************************)
THEOREM KnowledgeIsCovered ==
  Spec /\ Races = {} /\ (Forkers = {} \/ OnePipe) => []KnowledgeCovered
<1>1. TypeInv /\ Ready /\ Covered => KnowledgeCovered
  BY FlowCovers DEF Ready, Covered, KnowledgeCovered
<1>2. QED
  BY <1>1, ChannelInvariant, ChannelCalls, InformationCovered, PTL
=============================================================================
