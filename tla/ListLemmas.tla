----------------------------- MODULE ListLemmas ------------------------------
(* Facts about lists, for any length: the smallest and the largest position  *)
(* that std::find_if or a later registration picks, what vector::erase moves, *)
(* and which columns remain when those of some names are left out.           *)
EXTENDS SyncColumns, WellFoundedInduction, SequenceTheorems, TLAPS

(* A set of natural numbers has a smallest element, which Min is. *)
LEMMA MinIsSmallest ==
    ASSUME NEW S \in SUBSET Nat, S # {}
    PROVE  Min(S) \in S /\ \A y \in S : Min(S) <= y
<1>1. PICK x \in S : \A y \in S : ~(<<y, x>> \in OpToRel(<, Nat))
  BY NatLessThanWellFounded, WFMin
<1>2. \A a, b \in Nat : a < b => <<a, b>> \in OpToRel(<, Nat)
  BY Zenon DEF OpToRel
<1>3. \A y \in S : ~(y < x)
  BY <1>1, <1>2, Zenon
<1>4. \A y \in S : x <= y
  BY <1>3
<1> QED
  BY <1>4 DEF Min

(* Induction up to n, with the numbers for which a formula holds as a set. *)
LEMMA InductionTo ==
    ASSUME NEW n \in Nat, NEW Good, 0 \in Good, \A i \in 1..n : i - 1 \in Good => i \in Good
    PROVE  \A i \in 0..n : i \in Good
<1> DEFINE Bad == {i \in 0..n : i \notin Good}
<1> SUFFICES ASSUME Bad # {}
             PROVE  FALSE
  OBVIOUS
<1>1. Min(Bad) \in Bad /\ \A y \in Bad : Min(Bad) <= y
  <2>1. Bad \in SUBSET Nat
    OBVIOUS
  <2> HIDE DEF Bad
  <2> QED
    BY <2>1, MinIsSmallest
<1>2. PICK b \in 0..n : b \notin Good /\ \A y \in 0..n : y \notin Good => b <= y
  BY <1>1
<1>3. b \in 1..n /\ b - 1 \in 0..n /\ ~(b <= b - 1)
  BY <1>2
<1> QED
  BY <1>2, <1>3

(* A set of natural numbers that has a bound has a largest element. *)
LEMMA MaxIsLargest ==
    ASSUME NEW n \in Nat, NEW S \in SUBSET (0..n), S # {}
    PROVE  Max(S) \in S /\ \A y \in S : Max(S) >= y
<1> DEFINE T == {n - x : x \in S}
<1>1. T \in SUBSET Nat /\ T # {}
  <2>1. \A x \in S : n - x \in Nat
    OBVIOUS
  <2> QED
    BY <2>1, Zenon
<1>2. Min(T) \in T /\ \A y \in T : Min(T) <= y
  BY <1>1, MinIsSmallest
<1>3. PICK x \in S : Min(T) = n - x
  BY <1>2
<1>4. \A y \in S : x >= y
  BY <1>2, <1>3
<1> QED
  BY <1>4 DEF Max

(* A sequence without its i-th element, which SequencesExt calls RemoveAt. *)
WithoutAt(s, i) == SubSeq(s, 1, i - 1) \o SubSeq(s, i + 1, Len(s))

(* Erasing the i-th element moves the ones behind it by one. *)
LEMMA WithoutAtProperties ==
    ASSUME NEW S, NEW s \in Seq(S), NEW i \in 1..Len(s)
    PROVE  /\ WithoutAt(s, i) \in Seq(S)
           /\ Len(WithoutAt(s, i)) = Len(s) - 1
           /\ \A j \in 1..Len(s) - 1 : WithoutAt(s, i)[j] = IF j < i THEN s[j] ELSE s[j + 1]
<1> DEFINE front == SubSeq(s, 1, i - 1)
           back == SubSeq(s, i + 1, Len(s))
<1>1. Len(s) \in Nat /\ \A j \in 1..Len(s) : s[j] \in S
  BY LenProperties, ElementOfSeq
<1>2. /\ front \in Seq(S) /\ Len(front) = i - 1
      /\ \A j \in 1..i - 1 : front[j] = s[j]
  <2>1. \A j \in 1..i - 1 : s[j] \in S
    BY <1>1
  <2> QED
    BY <1>1, <2>1, SubSeqProperties
<1>3. /\ back \in Seq(S) /\ Len(back) = Len(s) - i
      /\ \A j \in 1..Len(s) - i : back[j] = s[i + j]
  <2>1. \A j \in i + 1..Len(s) : s[j] \in S
    BY <1>1
  <2> QED
    BY <1>1, <2>1, SubSeqProperties
<1>4. /\ front \o back \in Seq(S) /\ Len(front \o back) = Len(front) + Len(back)
      /\ \A j \in 1..Len(front) + Len(back) :
            (front \o back)[j] = IF j <= Len(front) THEN front[j] ELSE back[j - Len(front)]
  BY <1>2, <1>3, ConcatProperties
<1>5. WithoutAt(s, i) = front \o back
  BY DEF WithoutAt
<1> HIDE DEF front, back
<1>6. \A j \in 1..Len(s) - 1 : (front \o back)[j] = IF j < i THEN s[j] ELSE s[j + 1]
  <2> TAKE j \in 1..Len(s) - 1
  <2>1. (front \o back)[j] = IF j <= i - 1 THEN front[j] ELSE back[j - (i - 1)]
    BY <1>1, <1>2, <1>3, <1>4
  <2>2. CASE j < i
    BY <1>2, <2>1, <2>2
  <2>3. CASE ~(j < i)
    <3>1. j - (i - 1) \in 1..Len(s) - i /\ i + (j - (i - 1)) = j + 1
      BY <1>1, <2>3
    <3> QED
      BY <1>1, <1>3, <2>1, <2>3, <3>1
  <2> QED
    BY <2>2, <2>3
<1>7. Len(front \o back) = Len(s) - 1
  BY <1>1, <1>2, <1>3, <1>4
<1> QED
  BY <1>4, <1>5, <1>6, <1>7, Zenon
------------------------------------------------------------------------------
(* Columns *)
LEMMA AppendColumns ==
    ASSUME NEW S, NEW cols \in Seq(S), NEW c \in S
    PROVE  Append(cols, c) \in Seq(S) /\ ColumnsOf(Append(cols, c)) = ColumnsOf(cols) \cup {c}
<1> DEFINE a == Append(cols, c)
           n == Len(cols)
<1>1. /\ a \in Seq(S) /\ Len(a) = n + 1 /\ n \in Nat
      /\ DOMAIN a = 1..n + 1 /\ DOMAIN cols = 1..n
      /\ \A k \in 1..n : a[k] = cols[k]
      /\ a[n + 1] = c
  BY AppendProperties, LenProperties
<1>2. 1..n + 1 = (1..n) \cup {n + 1}
  BY <1>1
<1> HIDE DEF a
<1> QED
  BY <1>1, <1>2 DEF ColumnsOf

(* The function by which Without is defined. *)
Leaves(left, cols, names, n) ==
    left = [i \in 0..n |-> IF i = 0 THEN <<>>
                           ELSE IF cols[i].name \in names THEN left[i - 1]
                           ELSE Append(left[i - 1], cols[i])]

(* There is such a function for any length: otherwise take the smallest one  *)
(* for which there is none, and extend the function of the length before.    *)
LEMMA LeavesExists ==
    ASSUME NEW cols, NEW names, NEW n \in Nat
    PROVE  \E left : Leaves(left, cols, names, n)
<1> DEFINE Lacking == {m \in Nat : ~ \E left : Leaves(left, cols, names, m)}
<1> SUFFICES ASSUME Lacking # {}
             PROVE  FALSE
  OBVIOUS
<1>1. Min(Lacking) \in Lacking /\ \A y \in Lacking : Min(Lacking) <= y
  <2>1. Lacking \in SUBSET Nat
    OBVIOUS
  <2> HIDE DEF Lacking
  <2> QED
    BY <2>1, MinIsSmallest
<1>2. PICK b \in Nat : /\ ~ \E left : Leaves(left, cols, names, b)
                       /\ \A y \in Nat : y < b => \E left : Leaves(left, cols, names, y)
  BY <1>1
<1>3. CASE b = 0
  <2>1. Leaves([i \in 0..0 |-> <<>>], cols, names, 0)
    BY DEF Leaves
  <2> QED
    BY <1>2, <1>3, <2>1
<1>4. CASE b # 0
  <2>1. PICK f : Leaves(f, cols, names, b - 1)
    BY <1>2, <1>4
  <2> DEFINE g == [i \in 0..b |-> IF i < b THEN f[i]
                                  ELSE IF cols[i].name \in names THEN f[b - 1]
                                  ELSE Append(f[b - 1], cols[b])]
             h == [i \in 0..b |-> IF i = 0 THEN <<>>
                                  ELSE IF cols[i].name \in names THEN g[i - 1]
                                  ELSE Append(g[i - 1], cols[i])]
  <2>2. ASSUME NEW i \in 0..b
        PROVE  g[i] = h[i]
    <3>1. CASE i < b
      <4>1. i \in 0..b - 1 /\ g[i] = f[i]
        BY <3>1
      <4>2. f[i] = IF i = 0 THEN <<>>
                   ELSE IF cols[i].name \in names THEN f[i - 1]
                   ELSE Append(f[i - 1], cols[i])
        BY <2>1, <4>1, Zenon DEF Leaves
      <4>3. i # 0 => g[i - 1] = f[i - 1]
        BY <3>1
      <4> QED
        BY <4>1, <4>2, <4>3
    <3>2. CASE i = b
      <4>1. g[b - 1] = f[b - 1]
        BY <1>4
      <4> QED
        BY <1>4, <3>2, <4>1
    <3> QED
      BY <3>1, <3>2
  <2>3. g = h
    BY <2>2
  <2>4. Leaves(g, cols, names, b)
    <3> HIDE DEF g
    <3> QED
      BY <2>3, Zenon DEF Leaves
  <2> QED
    BY <1>2, <2>4
<1> QED
  BY <1>3, <1>4

LEMMA WithoutLeaves ==
    ASSUME NEW cols, NEW names, Len(cols) \in Nat
    PROVE  \E left : Leaves(left, cols, names, Len(cols)) /\ Without(cols, names) = left[Len(cols)]
<1> DEFINE f == CHOOSE left : left = [i \in 0..Len(cols) |->
                    IF i = 0 THEN <<>>
                    ELSE IF cols[i].name \in names THEN left[i - 1]
                    ELSE Append(left[i - 1], cols[i])]
<1>1. PICK e : Leaves(e, cols, names, Len(cols))
  BY LeavesExists
<1>2. Leaves(f, cols, names, Len(cols))
  BY <1>1, Zenon DEF Leaves
<1>3. Without(cols, names) = f[Len(cols)]
  BY Zenon DEF Without
<1> QED
  BY <1>2, <1>3, Zenon

LEMMA LeavesStep ==
    ASSUME NEW f, NEW cols, NEW names, NEW n \in Nat, Leaves(f, cols, names, n)
    PROVE  /\ f[0] = <<>>
           /\ \A i \in 1..n : f[i] = IF cols[i].name \in names THEN f[i - 1] ELSE Append(f[i - 1], cols[i])
<1>1. ASSUME NEW i \in 0..n
      PROVE  f[i] = IF i = 0 THEN <<>>
                    ELSE IF cols[i].name \in names THEN f[i - 1] ELSE Append(f[i - 1], cols[i])
  BY DEF Leaves
<1>2. 0 \in 0..n /\ \A i \in 1..n : i \in 0..n /\ i # 0
  OBVIOUS
<1> QED
  BY <1>1, <1>2

(* What is left are the columns that have none of the names. *)
Kept(cols, names, i) == {cols[j] : j \in {k \in 1..i : cols[k].name \notin names}}

LEMMA LeavesColumns ==
    ASSUME NEW S, NEW cols \in Seq(S), NEW names, NEW f, Leaves(f, cols, names, Len(cols))
    PROVE  \A i \in 0..Len(cols) :
            /\ f[i] \in Seq(S)
            /\ ColumnsOf(f[i]) = Kept(cols, names, i)
<1> DEFINE n == Len(cols)
           Of(i) == Kept(cols, names, i)
           Good == {i \in 0..n : f[i] \in Seq(S) /\ ColumnsOf(f[i]) = Of(i)}
<1>1. n \in Nat /\ \A i \in 1..n : cols[i] \in S
  BY LenProperties, ElementOfSeq
<1>2. /\ f[0] = <<>>
      /\ \A i \in 1..n : f[i] = IF cols[i].name \in names THEN f[i - 1] ELSE Append(f[i - 1], cols[i])
  BY <1>1, LeavesStep
<1>3. 0 \in Good
  <2>1. 0 \in 0..n /\ 1..0 = {}
    BY <1>1
  <2>2. ColumnsOf(<<>>) = {} /\ <<>> \in Seq(S)
    BY DEF ColumnsOf
  <2> QED
    BY <1>2, <2>1, <2>2, Zenon DEF Kept
<1>4. ASSUME NEW i \in 1..n, i - 1 \in Good
      PROVE  i \in Good
  <2>1. i \in 0..n /\ f[i - 1] \in Seq(S) /\ ColumnsOf(f[i - 1]) = Of(i - 1)
    BY <1>4
  <2>2. 1..i = (1..i - 1) \cup {i}
    BY <1>1
  <2>3. CASE cols[i].name \in names
    <3>1. f[i] = f[i - 1] /\ Of(i) = Of(i - 1)
      BY <1>2, <2>2, <2>3 DEF Kept
    <3> QED
      BY <2>1, <3>1
  <2>4. CASE cols[i].name \notin names
    <3>1. f[i] = Append(f[i - 1], cols[i])
      BY <1>2, <2>4, Zenon
    <3>2. f[i] \in Seq(S) /\ ColumnsOf(f[i]) = ColumnsOf(f[i - 1]) \cup {cols[i]}
      BY <1>1, <2>1, <3>1, AppendColumns
    <3>3. Of(i) = Of(i - 1) \cup {cols[i]}
      BY <2>2, <2>4 DEF Kept
    <3> QED
      BY <2>1, <3>2, <3>3, Zenon
  <2> QED
    BY <2>3, <2>4
<1> HIDE DEF Good
<1>5. \A i \in 0..n : i \in Good
  BY <1>1, <1>3, <1>4, InductionTo, Zenon
<1> QED
  BY <1>5 DEF Good

LEMMA WithoutColumns ==
    ASSUME NEW S, NEW cols \in Seq(S), NEW names
    PROVE  /\ Without(cols, names) \in Seq(S)
           /\ ColumnsOf(Without(cols, names)) = {c \in ColumnsOf(cols) : c.name \notin names}
<1> DEFINE n == Len(cols)
<1>1. n \in Nat /\ n \in 0..n /\ DOMAIN cols = 1..n
  BY LenProperties
<1>2. PICK f : Leaves(f, cols, names, n) /\ Without(cols, names) = f[n]
  BY <1>1, WithoutLeaves
<1>3. /\ f[n] \in Seq(S)
      /\ ColumnsOf(f[n]) = Kept(cols, names, n)
  <2>1. Leaves(f, cols, names, Len(cols))
    BY <1>2
  <2>2. \A i \in 0..Len(cols) :
            /\ f[i] \in Seq(S)
            /\ ColumnsOf(f[i]) = Kept(cols, names, i)
    BY <2>1, LeavesColumns
  <2> QED
    BY <1>1, <2>2
<1>4. Kept(cols, names, n) = {c \in ColumnsOf(cols) : c.name \notin names}
  BY <1>1 DEF ColumnsOf, Kept
<1> QED
  BY <1>2, <1>3, <1>4

LEMMA NamesOfColumns == ASSUME NEW cols PROVE NamesOf(cols) = {c.name : c \in ColumnsOf(cols)}
BY DEF NamesOf, ColumnsOf
==============================================================================
