-------------------------- MODULE ColumnDiffProofs --------------------------
(* ColumnDiff for vectors of any columns, of any length that size_t can      *)
(* count.                                                                    *)
EXTENDS ColumnDiff, ListLemmas

(* The columns to add are the first ones of what is left of the vector, and  *)
(* the index stands behind them, or one before that, modulo SizeMod, when    *)
(* the loop is about to increment it.                                        *)
Pointers ==
    LET n == Len(columnsToAdd)
    IN  /\ columnsToAdd \in Seq(Nat) /\ Len(pushed) = n
        /\ n <= Len(storageTableInfo)
        /\ \A k \in 1..n : columnsToAdd[k] = k /\ pushed[k] = storageTableInfo[k]
        /\ index = IF pc = "step" THEN (n - 1) % SizeMod ELSE n

Vectors ==
    /\ given \in [storage : StorageInfos, db : DbInfos]
    /\ storageTableInfo \in Seq(ColumnsOf(given.storage)) /\ Len(storageTableInfo) < SizeMod
    /\ dbTableInfo \in Seq(ColumnsOf(given.db))
    /\ pushed \in Seq(ColumnsOf(given.storage))
    /\ notEqual \in BOOLEAN
    /\ pc \in {"test", "body", "step", "return"}
    /\ pc = "body" => index < Len(storageTableInfo)

(* How many columns have been erased from the vector, and how many the loop  *)
(* has dealt with.                                                           *)
Gone == Len(given.storage) - Len(storageTableInfo)
Done == Gone + Len(columnsToAdd)

(* The columns behind the ones to add are those not dealt with; those dealt  *)
(* with are equal in the database and erased there, or missing and pushed.   *)
Progress ==
    /\ Len(storageTableInfo) <= Len(given.storage)
    /\ \A j \in Len(columnsToAdd) + 1..Len(storageTableInfo) : storageTableInfo[j] = given.storage[j + Gone]
    /\ pushed = Without(SubSeq(given.storage, 1, Done), NamesOf(given.db))
    /\ dbTableInfo = Without(given.db, NamesOf(SubSeq(given.storage, 1, Done)))
    /\ \A i, j \in DOMAIN dbTableInfo : dbTableInfo[i].name = dbTableInfo[j].name => i = j
    /\ \A i \in 1..Done : ~Differ(given.storage, given.db, i)
    /\ pc # "return" => ~notEqual
    /\ pc = "return" /\ notEqual => Done < Len(given.storage) /\ Differ(given.storage, given.db, Done + 1)
    /\ pc = "return" /\ ~notEqual => Done = Len(given.storage)

DiffInv == Vectors /\ Pointers /\ Progress
------------------------------------------------------------------------------
(* What is left of a list of columns *)
(* Prefixes. *)
LEMMA PrefixAppend ==
    ASSUME NEW S, NEW cols \in Seq(S), NEW i \in 1..Len(cols)
    PROVE  /\ SubSeq(cols, 1, i - 1) \in Seq(S) /\ cols[i] \in S
           /\ Len(SubSeq(cols, 1, i - 1)) = i - 1
           /\ SubSeq(cols, 1, i) = Append(SubSeq(cols, 1, i - 1), cols[i])
<1> DEFINE p == SubSeq(cols, 1, i - 1)
           q == SubSeq(cols, 1, i)
<1>1. Len(cols) \in Nat /\ \A j \in 1..Len(cols) : cols[j] \in S
  BY LenProperties, ElementOfSeq
<1>2. p \in Seq(S) /\ Len(p) = i - 1 /\ \A j \in 1..i - 1 : p[j] = cols[j]
  <2>1. \A j \in 1..i - 1 : cols[j] \in S
    BY <1>1
  <2> QED
    BY <1>1, <2>1, SubSeqProperties
<1>3. q \in Seq(S) /\ Len(q) = i /\ \A j \in 1..i : q[j] = cols[j]
  <2>1. \A j \in 1..i : cols[j] \in S
    BY <1>1
  <2> QED
    BY <1>1, <2>1, SubSeqProperties
<1> HIDE DEF p, q
<1>4. /\ Append(p, cols[i]) \in Seq(S) /\ Len(Append(p, cols[i])) = i
      /\ \A j \in 1..i : Append(p, cols[i])[j] = IF j <= i - 1 THEN p[j] ELSE cols[i]
  BY <1>1, <1>2, AppendProperties
<1>5. \A j \in 1..i : q[j] = Append(p, cols[i])[j]
  BY <1>1, <1>2, <1>3, <1>4
<1>6. q = Append(p, cols[i])
  BY <1>3, <1>4, <1>5, SeqEqual
<1> QED
  BY <1>1, <1>2, <1>6 DEF p, q

(* What is left of a prefix depends on the prefix only, and on the names     *)
(* only as far as they are in it.                                            *)
Agree(cols, names, cols2, names2, n) ==
    \A i \in 1..n : cols[i] = cols2[i] /\ (cols[i].name \in names <=> cols[i].name \in names2)

LEMMA LeavesAgree ==
    ASSUME NEW f, NEW g, NEW cols, NEW cols2, NEW names, NEW names2, NEW n \in Nat, NEW m \in Nat, n <= m,
           Leaves(f, cols, names, n), Leaves(g, cols2, names2, m), Agree(cols, names, cols2, names2, n)
    PROVE  f[n] = g[n]
<1> DEFINE Good == {i \in 0..n : f[i] = g[i]}
<1>1. /\ f[0] = <<>>
      /\ \A i \in 1..n : f[i] = IF cols[i].name \in names THEN f[i - 1] ELSE Append(f[i - 1], cols[i])
  BY LeavesStep
<1>2. /\ g[0] = <<>>
      /\ \A i \in 1..m : g[i] = IF cols2[i].name \in names2 THEN g[i - 1] ELSE Append(g[i - 1], cols2[i])
  BY LeavesStep
<1>3. 0 \in Good
  BY <1>1, <1>2
<1>4. ASSUME NEW i \in 1..n, i - 1 \in Good
      PROVE  i \in Good
  <2>1. i \in 0..n /\ i \in 1..m /\ f[i - 1] = g[i - 1]
    BY <1>4
  <2>2. cols[i] = cols2[i] /\ (cols[i].name \in names <=> cols[i].name \in names2)
    BY DEF Agree
  <2>3. f[i] = g[i]
    BY <1>1, <1>2, <2>1, <2>2, Zenon
  <2> QED
    BY <2>1, <2>3
<1>5. \A i \in 0..n : i \in Good
  <2> HIDE DEF Good
  <2> QED
    BY <1>3, <1>4, InductionTo
<1>6. n \in 0..n
  OBVIOUS
<1> QED
  BY <1>5, <1>6

LEMMA WithoutSame ==
    ASSUME NEW S, NEW cols \in Seq(S), NEW names, NEW names2,
           \A c \in ColumnsOf(cols) : c.name \in names <=> c.name \in names2
    PROVE  Without(cols, names) = Without(cols, names2)
<1> DEFINE n == Len(cols)
<1>1. n \in Nat /\ n <= n /\ DOMAIN cols = 1..n
  BY LenProperties
<1>2. PICK f : Leaves(f, cols, names, n) /\ Without(cols, names) = f[n]
  BY <1>1, WithoutLeaves
<1>3. PICK g : Leaves(g, cols, names2, n) /\ Without(cols, names2) = g[n]
  BY <1>1, WithoutLeaves
<1>4. Agree(cols, names, cols, names2, n)
  BY <1>1 DEF Agree, ColumnsOf
<1> QED
  BY <1>1, <1>2, <1>3, <1>4, LeavesAgree

LEMMA WithoutEmpty == ASSUME NEW names PROVE Without(<<>>, names) = <<>>
<1>1. Len(<<>>) = 0 /\ 0 \in Nat
  OBVIOUS
<1>2. PICK f : Leaves(f, <<>>, names, 0) /\ Without(<<>>, names) = f[0]
  BY <1>1, WithoutLeaves
<1> QED
  BY <1>1, <1>2, LeavesStep

LEMMA WithoutAppend ==
    ASSUME NEW S, NEW cols \in Seq(S), NEW c \in S, NEW names
    PROVE  Without(Append(cols, c), names) =
            IF c.name \in names THEN Without(cols, names) ELSE Append(Without(cols, names), c)
<1> DEFINE n == Len(cols)
           a == Append(cols, c)
<1>1. /\ n \in Nat /\ n + 1 \in Nat /\ n <= n + 1 /\ n + 1 \in 1..n + 1 /\ (n + 1) - 1 = n
      /\ Len(a) = n + 1 /\ a[n + 1] = c /\ \A i \in 1..n : a[i] = cols[i]
  BY LenProperties, AppendProperties
<1> HIDE DEF a
<1>2. PICK f : Leaves(f, cols, names, n) /\ Without(cols, names) = f[n]
  BY <1>1, WithoutLeaves
<1>3. PICK g : Leaves(g, a, names, n + 1) /\ Without(a, names) = g[n + 1]
  BY <1>1, WithoutLeaves
<1>4. f[n] = g[n]
  <2>1. Agree(cols, names, a, names, n)
    BY <1>1 DEF Agree
  <2> QED
    BY <1>1, <1>2, <1>3, <2>1, LeavesAgree
<1>5. g[n + 1] = IF a[n + 1].name \in names THEN g[(n + 1) - 1] ELSE Append(g[(n + 1) - 1], a[n + 1])
  BY <1>1, <1>3, LeavesStep
<1> QED
  BY <1>1, <1>2, <1>3, <1>4, <1>5 DEF a

(* Nothing is left out when none of the names is in use. *)
LEMMA WithoutNothing ==
    ASSUME NEW S, NEW cols \in Seq(S), NEW names, \A c \in ColumnsOf(cols) : c.name \notin names
    PROVE  Without(cols, names) = cols
<1> DEFINE n == Len(cols)
           Good == {i \in 0..n : Without(SubSeq(cols, 1, i), names) = SubSeq(cols, 1, i)}
<1>1. n \in Nat /\ DOMAIN cols = 1..n /\ \A i \in 1..n : cols[i] \in S
  BY LenProperties, ElementOfSeq
<1>2. 0 \in Good
  <2>1. SubSeq(cols, 1, 0) = <<>> /\ 0 \in 0..n
    BY <1>1, SubSeqEmpty
  <2> QED
    BY <2>1, WithoutEmpty, Zenon
<1>3. ASSUME NEW i \in 1..n, i - 1 \in Good
      PROVE  i \in Good
  <2>1. SubSeq(cols, 1, i) = Append(SubSeq(cols, 1, i - 1), cols[i]) /\ SubSeq(cols, 1, i - 1) \in Seq(S)
    BY <1>1, PrefixAppend
  <2>2. cols[i] \in S /\ cols[i].name \notin names
    BY <1>1 DEF ColumnsOf
  <2>3. Without(Append(SubSeq(cols, 1, i - 1), cols[i]), names)
            = Append(Without(SubSeq(cols, 1, i - 1), names), cols[i])
    <3> DEFINE p == SubSeq(cols, 1, i - 1)
               c == cols[i]
    <3>1. p \in Seq(S) /\ c \in S /\ c.name \notin names
      BY <2>1, <2>2, Zenon
    <3> HIDE DEF p, c
    <3>2. Without(Append(p, c), names) = Append(Without(p, names), c)
      BY <3>1, WithoutAppend
    <3> QED
      BY <3>2, Zenon DEF p, c
  <2>4. Without(SubSeq(cols, 1, i - 1), names) = SubSeq(cols, 1, i - 1)
    BY <1>3
  <2>5. i \in 0..n
    BY <1>1
  <2> QED
    BY <2>1, <2>3, <2>4, <2>5, Zenon
<1>4. \A i \in 0..n : i \in Good
  <2> HIDE DEF Good
  <2> QED
    BY <1>1, <1>2, <1>3, InductionTo, Zenon
<1>5. Without(SubSeq(cols, 1, n), names) = SubSeq(cols, 1, n)
  <2>1. n \in 0..n
    BY <1>1
  <2> QED
    BY <1>4, <2>1
<1>6. SubSeq(cols, 1, n) = cols
  BY <1>1, SubSeqFull
<1> QED
  BY <1>5, <1>6, Zenon

LEMMA WithoutAtAppend ==
    ASSUME NEW S, NEW s \in Seq(S), NEW x \in S, NEW m \in 1..Len(s) + 1
    PROVE  WithoutAt(Append(s, x), m) = IF m = Len(s) + 1 THEN s ELSE Append(WithoutAt(s, m), x)
<1> DEFINE n == Len(s)
           a == Append(s, x)
           r == WithoutAt(a, m)
           t == WithoutAt(s, m)
<1>1. n \in Nat
  BY LenProperties
<1>2. a \in Seq(S) /\ Len(a) = n + 1 /\ a[n + 1] = x /\ \A j \in 1..n : a[j] = s[j]
  BY <1>1, AppendProperties
<1> HIDE DEF a
<1>3. r \in Seq(S) /\ Len(r) = n /\ \A j \in 1..n : r[j] = IF j < m THEN a[j] ELSE a[j + 1]
  <2>1. m \in 1..Len(a) /\ Len(a) - 1 = n
    BY <1>1, <1>2
  <2>2. r \in Seq(S) /\ Len(r) = Len(a) - 1 /\ \A j \in 1..Len(a) - 1 : r[j] = IF j < m THEN a[j] ELSE a[j + 1]
    BY <1>2, <2>1, WithoutAtProperties, Zenon
  <2> QED
    BY <2>1, <2>2
<1>4. CASE m = n + 1
  <2>1. \A j \in 1..n : r[j] = s[j]
    BY <1>1, <1>2, <1>3, <1>4
  <2>2. r = s
    <3> HIDE DEF r
    <3> QED
      BY <1>3, <2>1, SeqEqual
  <2> QED
    BY <1>4, <2>2 DEF a
<1>5. CASE m # n + 1
  <2>1. m \in 1..n
    BY <1>1, <1>5
  <2>2. t \in Seq(S) /\ Len(t) = n - 1 /\ \A j \in 1..n - 1 : t[j] = IF j < m THEN s[j] ELSE s[j + 1]
    BY <2>1, WithoutAtProperties
  <2> HIDE DEF t, r
  <2>3. /\ Append(t, x) \in Seq(S) /\ Len(Append(t, x)) = Len(t) + 1 /\ Append(t, x)[Len(t) + 1] = x
        /\ \A j \in 1..Len(t) : Append(t, x)[j] = t[j]
    BY <2>2, AppendProperties
  <2>4. (n - 1) + 1 = n
    BY <1>1
  <2>5. ASSUME NEW j \in 1..n
        PROVE  r[j] = Append(t, x)[j]
    <3>1. CASE j = n
      <4>1. r[j] = a[n + 1]
        BY <1>1, <1>3, <2>1, <3>1
      <4> QED
        BY <1>2, <2>2, <2>3, <2>4, <3>1, <4>1
    <3>2. CASE j # n
      <4>1. j \in 1..n - 1 /\ j + 1 \in 1..n
        BY <1>1, <3>2
      <4>2. Append(t, x)[j] = IF j < m THEN s[j] ELSE s[j + 1]
        BY <2>2, <2>3, <4>1
      <4>3. a[j] = s[j] /\ a[j + 1] = s[j + 1]
        BY <1>2, <4>1
      <4> QED
        BY <1>3, <4>2, <4>3
    <3> QED
      BY <3>1, <3>2, Zenon
  <2>6. r = Append(t, x)
    BY <1>3, <2>2, <2>3, <2>4, <2>5, SeqEqual, Zenon
  <2> QED
    BY <1>5, <2>6 DEF r, t, a
<1> QED
  BY <1>4, <1>5

(* One name more takes one column more out, where that column is. *)
OneLess(q, r, c) == \E m \in 1..Len(q) : q[m] = c /\ r = WithoutAt(q, m)

LEMMA WithoutOneMore ==
    ASSUME NEW S, NEW cols \in Seq(S), \A i, k \in 1..Len(cols) : cols[i].name = cols[k].name => i = k,
           NEW names, NEW j \in 1..Len(cols), cols[j].name \notin names
    PROVE  OneLess(Without(cols, names), Without(cols, names \cup {cols[j].name}), cols[j])
<1> DEFINE n == Len(cols)
           more == names \cup {cols[j].name}
           F(i) == Without(SubSeq(cols, 1, i), names)
           G(i) == Without(SubSeq(cols, 1, i), more)
           Good == {i \in 0..n : IF i < j THEN F(i) = G(i) ELSE OneLess(F(i), G(i), cols[j])}
<1>1. n \in Nat
  BY LenProperties
<1>2. 0 \in Good
  <2>1. SubSeq(cols, 1, 0) = <<>> /\ 0 \in 0..n /\ 0 < j
    BY <1>1, SubSeqEmpty
  <2>2. F(0) = <<>> /\ G(0) = <<>>
    BY <2>1, WithoutEmpty, Zenon
  <2> QED
    BY <2>1, <2>2
<1>3. ASSUME NEW i \in 1..n, i - 1 \in Good
      PROVE  i \in Good
  <2> DEFINE p == SubSeq(cols, 1, i - 1)
             x == cols[i]
  <2>1. p \in Seq(S) /\ x \in S /\ SubSeq(cols, 1, i) = Append(p, x)
    BY PrefixAppend
  <2>2. /\ F(i) = IF x.name \in names THEN F(i - 1) ELSE Append(F(i - 1), x)
        /\ G(i) = IF x.name \in more THEN G(i - 1) ELSE Append(G(i - 1), x)
    <3> HIDE DEF p, x, more
    <3>1. /\ Without(Append(p, x), names) = IF x.name \in names THEN Without(p, names) ELSE Append(Without(p, names), x)
          /\ Without(Append(p, x), more) = IF x.name \in more THEN Without(p, more) ELSE Append(Without(p, more), x)
      BY <2>1, WithoutAppend
    <3> QED
      BY <2>1, <3>1, Zenon DEF p
  <2>3. F(i - 1) \in Seq(S) /\ G(i - 1) \in Seq(S) /\ Len(F(i - 1)) \in Nat
    BY <2>1, WithoutColumns, LenProperties, Zenon
  <2>4. x.name = cols[j].name <=> i = j
    OBVIOUS
  <2>5. i \in 0..n
    BY <1>1
  <2>6. (IF i - 1 < j THEN F(i - 1) = G(i - 1) ELSE OneLess(F(i - 1), G(i - 1), cols[j]))
    BY <1>3
  <2> HIDE DEF F, G, Good, x
  <2>7. CASE i < j
    <3>1. F(i - 1) = G(i - 1) /\ (x.name \in names <=> x.name \in more)
      BY <2>4, <2>6, <2>7
    <3>2. F(i) = G(i)
      BY <2>2, <3>1
    <3> QED
      BY <2>5, <2>7, <3>2 DEF Good
  <2>8. CASE i = j
    <3>1. F(i - 1) = G(i - 1)
      BY <2>6, <2>8
    <3>2. F(i) = Append(F(i - 1), x) /\ G(i) = F(i - 1) /\ x = cols[j]
      BY <2>2, <2>8, <3>1 DEF x
    <3> DEFINE m == Len(F(i - 1)) + 1
    <3>3. m \in 1..m /\ Len(F(i)) = m /\ F(i)[m] = x
      BY <2>1, <2>3, <3>2, AppendProperties
    <3>4. WithoutAt(F(i), m) = F(i - 1)
      <4>1. m \in 1..Len(F(i - 1)) + 1
        BY <2>3
      <4> DEFINE f == F(i - 1)
      <4>2. f \in Seq(S) /\ x \in S /\ m = Len(f) + 1
        BY <2>1, <2>3
      <4> HIDE DEF f, m
      <4>3. WithoutAt(Append(f, x), m) = f
        BY <4>1, <4>2, WithoutAtAppend DEF f
      <4> QED
        BY <3>2, <4>3 DEF f
    <3>5. OneLess(F(i), G(i), cols[j])
      BY <3>2, <3>3, <3>4 DEF OneLess
    <3>6. ~(i < j)
      BY <2>8
    <3> QED
      BY <2>5, <3>5, <3>6 DEF Good
  <2>9. CASE i > j
    <3>1. PICK m \in 1..Len(F(i - 1)) : F(i - 1)[m] = cols[j] /\ G(i - 1) = WithoutAt(F(i - 1), m)
      BY <2>6, <2>9 DEF OneLess
    <3>2. x.name \in names <=> x.name \in more
      BY <2>4, <2>9
    <3>3. CASE x.name \in names
      BY <2>2, <2>5, <2>9, <3>1, <3>2, <3>3 DEF Good, OneLess
    <3>4. CASE x.name \notin names
      <4>1. F(i) = Append(F(i - 1), x) /\ G(i) = Append(G(i - 1), x)
        BY <2>2, <3>2, <3>4
      <4>2. Len(F(i)) = Len(F(i - 1)) + 1 /\ F(i)[m] = F(i - 1)[m]
        BY <2>1, <2>3, <4>1, AppendProperties
      <4>3. m \in 1..Len(F(i)) /\ m \in 1..Len(F(i - 1)) + 1 /\ m # Len(F(i - 1)) + 1
        BY <2>3, <4>2
      <4>4. WithoutAt(F(i), m) = Append(WithoutAt(F(i - 1), m), x)
        <5> DEFINE f == F(i - 1)
        <5>1. f \in Seq(S) /\ x \in S /\ m \in 1..Len(f) + 1 /\ m # Len(f) + 1
          BY <2>1, <2>3, <4>3
        <5> HIDE DEF f
        <5>2. WithoutAt(Append(f, x), m) = Append(WithoutAt(f, m), x)
          BY <5>1, WithoutAtAppend
        <5> QED
          BY <4>1, <5>2 DEF f
      <4>5. OneLess(F(i), G(i), cols[j])
        BY <3>1, <4>1, <4>2, <4>3, <4>4 DEF OneLess
      <4>6. ~(i < j)
        BY <2>9
      <4> QED
        BY <2>5, <4>5, <4>6 DEF Good
    <3> QED
      BY <3>3, <3>4
  <2> QED
    BY <2>7, <2>8, <2>9
<1>4. \A i \in 0..n : i \in Good
  <2> HIDE DEF Good
  <2> QED
    BY <1>1, <1>2, <1>3, InductionTo, Zenon
<1>5. OneLess(F(n), G(n), cols[j])
  <2>1. n \in 0..n /\ ~(n < j)
    BY <1>1
  <2> QED
    BY <1>4, <2>1, Zenon
<1>6. SubSeq(cols, 1, n) = cols
  BY SubSeqFull
<1> QED
  BY <1>5, <1>6, Zenon

LEMMA PrefixNames ==
    ASSUME NEW S, NEW cols \in Seq(S), NEW n \in 0..Len(cols)
    PROVE  NamesOf(SubSeq(cols, 1, n)) = {cols[i].name : i \in 1..n}
<1>1. Len(cols) \in Nat /\ \A i \in 1..Len(cols) : cols[i] \in S
  BY LenProperties, ElementOfSeq
<1>2. \A i \in 1..n : cols[i] \in S
  BY <1>1
<1>3. /\ SubSeq(cols, 1, n) \in Seq(S) /\ Len(SubSeq(cols, 1, n)) = n
      /\ \A i \in 1..n : SubSeq(cols, 1, n)[i] = cols[i]
  BY <1>1, <1>2, SubSeqProperties
<1>4. DOMAIN SubSeq(cols, 1, n) = 1..n
  BY <1>3, LenProperties
<1> QED
  BY <1>3, <1>4, Zenon DEF NamesOf
------------------------------------------------------------------------------
(* The loop *)
(* vector::erase, as the model has it. *)
LEMMA Erasing ==
    ASSUME NEW s, NEW i
    PROVE  Erase(s, i) = WithoutAt(s, i)
BY DEF Erase, WithoutAt

LEMMA Remainders ==
    ASSUME NEW n \in Nat, n < SizeMod
    PROVE  /\ n % SizeMod = n
           /\ (((n - 1) % SizeMod) + 1) % SizeMod = n
           /\ (n - 1) % SizeMod \in 0..SizeMod - 1
BY SizeAssumption

(* The lengths and the counts are numbers. *)
LEMMA Counts ==
    ASSUME DiffInv
    PROVE  /\ Len(storageTableInfo) \in Nat /\ Len(dbTableInfo) \in Nat
           /\ Len(columnsToAdd) \in Nat /\ Len(given.storage) \in Nat
           /\ DOMAIN storageTableInfo = 1..Len(storageTableInfo)
           /\ DOMAIN dbTableInfo = 1..Len(dbTableInfo) /\ DOMAIN pushed = 1..Len(columnsToAdd)
           /\ DOMAIN given.storage = 1..Len(given.storage)
           /\ Gone \in Nat /\ Done \in 0..Len(given.storage)
<1>1. given.storage \in Seq(ColumnsOf(given.storage))
  BY ColumnsAssumption DEF DiffInv, Vectors
<1>2. /\ Len(storageTableInfo) \in Nat /\ Len(dbTableInfo) \in Nat
      /\ Len(columnsToAdd) \in Nat /\ Len(given.storage) \in Nat
      /\ DOMAIN storageTableInfo = 1..Len(storageTableInfo)
      /\ DOMAIN dbTableInfo = 1..Len(dbTableInfo) /\ DOMAIN pushed = 1..Len(pushed)
      /\ DOMAIN given.storage = 1..Len(given.storage)
  BY <1>1, LenProperties DEF DiffInv, Vectors, Pointers
<1>3. /\ Len(pushed) = Len(columnsToAdd) /\ Len(columnsToAdd) <= Len(storageTableInfo)
      /\ Len(storageTableInfo) <= Len(given.storage)
  BY DEF DiffInv, Pointers, Progress
<1> QED
  BY <1>2, <1>3 DEF Gone, Done

(* The names of the columns dealt with, and the columns that are left in the *)
(* database's vector.                                                        *)
LEMMA NamesDone ==
    ASSUME DiffInv
    PROVE  /\ NamesOf(SubSeq(given.storage, 1, Done)) = {given.storage[i].name : i \in 1..Done}
           /\ ColumnsOf(dbTableInfo) = {c \in ColumnsOf(given.db) : \A i \in 1..Done : given.storage[i].name # c.name}
           /\ ColumnsOf(dbTableInfo) \subseteq ColumnsOf(given.db)
<1>1. given.storage \in Seq(ColumnsOf(given.storage)) /\ given.db \in Seq(ColumnsOf(given.db))
  BY ColumnsAssumption DEF DiffInv, Vectors
<1>2. NamesOf(SubSeq(given.storage, 1, Done)) = {given.storage[i].name : i \in 1..Done}
  BY <1>1, Counts, PrefixNames
<1>3. ColumnsOf(dbTableInfo)
        = {c \in ColumnsOf(given.db) : c.name \notin NamesOf(SubSeq(given.storage, 1, Done))}
  BY <1>1, WithoutColumns DEF DiffInv, Progress
<1> QED
  BY <1>2, <1>3

(* In the body of the loop the column is the first not dealt with. *)
LEMMA BodyColumn ==
    ASSUME DiffInv, pc = "body"
    PROVE  /\ index = Len(columnsToAdd) /\ index + 1 \in 1..Len(storageTableInfo)
           /\ Done + 1 \in 1..Len(given.storage)
           /\ Column = given.storage[Done + 1] /\ Column \in ColumnsOf(given.storage)
<1>1. index = Len(columnsToAdd) /\ index < Len(storageTableInfo)
  BY DEF DiffInv, Vectors, Pointers
<1>2. index + 1 \in 1..Len(storageTableInfo) /\ index + 1 \in Len(columnsToAdd) + 1..Len(storageTableInfo)
  BY <1>1, Counts
<1>3. Column = given.storage[(index + 1) + Gone]
  BY <1>2 DEF DiffInv, Progress, Column
<1>4. (index + 1) + Gone = Done + 1 /\ Done + 1 \in 1..Len(given.storage)
  <2>1. /\ Len(storageTableInfo) \in Nat /\ Len(columnsToAdd) \in Nat /\ Len(given.storage) \in Nat
        /\ Len(storageTableInfo) <= Len(given.storage)
    BY Counts DEF DiffInv, Progress
  <2>2. \A s, t, n \in Nat : n < t /\ t <= s => /\ (n + 1) + (s - t) = ((s - t) + n) + 1
                                                 /\ ((s - t) + n) + 1 \in 1..s
    OBVIOUS
  <2> QED
    BY <1>1, <2>1, <2>2, Zenon DEF Done, Gone
<1> QED
  BY <1>1, <1>2, <1>3, <1>4, Counts DEF ColumnsOf

LEMMA FirstFound ==
    ASSUME DiffInv, Found # {}
    PROVE  /\ Min(Found) \in 1..Len(dbTableInfo)
           /\ dbTableInfo[Min(Found)].name = Column.name
           /\ dbTableInfo[Min(Found)] \in ColumnsOf(dbTableInfo)
<1>1. Found \in SUBSET Nat
  BY Counts DEF Found
<1>2. Min(Found) \in Found
  BY <1>1, MinIsSmallest
<1> QED
  BY <1>2, Counts, Zenon DEF Found, ColumnsOf

LEMMA TestStep ==
    ASSUME DiffInv, Test
    PROVE  DiffInv'
<1> USE DEF Test
<1>1. Vectors' /\ Pointers'
  BY Counts DEF DiffInv, Vectors, Pointers
<1>2. Gone' = Gone /\ Done' = Done /\ notEqual = FALSE
  BY DEF Gone, Done, DiffInv, Progress, Vectors
<1>3. ~(index < Len(storageTableInfo)) => Done = Len(given.storage)
  BY Counts DEF DiffInv, Pointers, Done, Gone
<1>4. Progress'
  BY <1>2, <1>3 DEF DiffInv, Progress
<1> QED
  BY <1>1, <1>4 DEF DiffInv

LEMMA IncrementStep ==
    ASSUME DiffInv, Increment
    PROVE  DiffInv'
<1> USE DEF Increment
<1>1. index' = Len(columnsToAdd)
  <2> DEFINE n == Len(columnsToAdd)
  <2>1. n \in Nat /\ n < SizeMod
    BY Counts, SizeAssumption DEF DiffInv, Vectors, Pointers
  <2>2. index' = (((n - 1) % SizeMod) + 1) % SizeMod
    BY DEF DiffInv, Pointers
  <2> QED
    BY <2>1, <2>2, Remainders
<1>2. Vectors' /\ Pointers'
  BY <1>1 DEF DiffInv, Vectors, Pointers
<1>3. Gone' = Gone /\ Done' = Done
  BY DEF Gone, Done
<1>4. Progress'
  BY <1>3 DEF DiffInv, Progress
<1> QED
  BY <1>2, <1>4 DEF DiffInv

LEMMA DiffersStep ==
    ASSUME DiffInv, Differs
    PROVE  DiffInv'
<1> USE DEF Differs
<1>1. Vectors' /\ Pointers'
  BY DEF DiffInv, Vectors, Pointers
<1>2. Gone' = Gone /\ Done' = Done
  BY DEF Gone, Done
<1>3. Done < Len(given.storage) /\ Differ(given.storage, given.db, Done + 1)
  <2>1. dbTableInfo[Min(Found)] \in ColumnsOf(given.db)
    BY FirstFound, NamesDone
  <2>2. /\ dbTableInfo[Min(Found)].name = Column.name
        /\ ~ColumnsAreEqual(dbTableInfo[Min(Found)], Column)
        /\ Done + 1 \in 1..Len(given.storage) /\ Column = given.storage[Done + 1]
    BY FirstFound, BodyColumn
  <2>3. Done < Len(given.storage)
    BY <2>2, Counts
  <2>4. Differ(given.storage, given.db, Done + 1)
    BY <2>1, <2>2, Zenon DEF Differ
  <2> QED
    BY <2>3, <2>4
<1>4. Progress'
  BY <1>2, <1>3 DEF DiffInv, Progress
<1> QED
  BY <1>1, <1>4 DEF DiffInv

(* No column of the database that has been dealt with has the name of the    *)
(* next one: those of that name are in what is left of the vector.           *)
LEMMA NameIsNew ==
    ASSUME DiffInv, pc = "body", NEW c \in ColumnsOf(given.db), c.name = Column.name
    PROVE  c \in ColumnsOf(dbTableInfo)
<1>1. ASSUME NEW i \in 1..Done
      PROVE  given.storage[i].name # c.name
  <2>1. i \in DOMAIN given.storage /\ Done + 1 \in DOMAIN given.storage /\ i # Done + 1
    BY BodyColumn, Counts
  <2>2. given.storage \in StorageInfos
    BY DEF DiffInv, Vectors
  <2> QED
    BY <2>1, <2>2, BodyColumn, ColumnsAssumption
<1> QED
  BY <1>1, NamesDone

LEMMA MissingStep ==
    ASSUME DiffInv, Missing
    PROVE  DiffInv'
<1> DEFINE n == Len(columnsToAdd)
           S == given.storage
           D == given.db
<1>1. /\ pc = "body" /\ Found = {} /\ pc' = "step"
      /\ columnsToAdd' = Append(columnsToAdd, index + 1) /\ pushed' = Append(pushed, Column)
      /\ UNCHANGED <<given, storageTableInfo, dbTableInfo, notEqual, index>>
  BY DEF Missing
<1>2. /\ n \in Nat /\ Len(storageTableInfo) \in Nat /\ index = n /\ Column = storageTableInfo[n + 1]
      /\ n + 1 <= Len(storageTableInfo) /\ Len(storageTableInfo) < SizeMod /\ Len(pushed) = n
      /\ columnsToAdd \in Seq(Nat) /\ pushed \in Seq(ColumnsOf(S))
  BY <1>1, BodyColumn, Counts DEF DiffInv, Vectors, Pointers, Column
<1>3. Column \in ColumnsOf(S) /\ Column = S[Done + 1] /\ Done + 1 \in 1..Len(S)
  BY <1>1, BodyColumn
<1>4. /\ columnsToAdd' \in Seq(Nat) /\ Len(columnsToAdd') = n + 1
      /\ \A k \in 1..n + 1 : columnsToAdd'[k] = IF k <= n THEN columnsToAdd[k] ELSE n + 1
  BY <1>1, <1>2, AppendProperties
<1>5. /\ pushed' \in Seq(ColumnsOf(S)) /\ Len(pushed') = n + 1 /\ DOMAIN pushed' = 1..n + 1
      /\ \A k \in 1..n + 1 : pushed'[k] = IF k <= n THEN pushed[k] ELSE Column
  BY <1>1, <1>2, <1>3, AppendProperties, LenProperties
<1>6. Vectors'
  BY <1>1, <1>5 DEF DiffInv, Vectors
<1>7. Pointers'
  <2>1. \A k \in 1..n + 1 : columnsToAdd'[k] = k /\ pushed'[k] = storageTableInfo[k]
    <3> TAKE k \in 1..n + 1
    <3>1. CASE k <= n
      <4>1. columnsToAdd'[k] = columnsToAdd[k] /\ pushed'[k] = pushed[k] /\ k \in 1..n
        BY <1>2, <1>4, <1>5, <3>1
      <4>2. \A i \in 1..n : columnsToAdd[i] = i /\ pushed[i] = storageTableInfo[i]
        BY DEF DiffInv, Pointers
      <4> QED
        BY <4>1, <4>2, Zenon
    <3>2. CASE k = n + 1
      <4>1. n + 1 \in 1..n + 1 /\ ~(n + 1 <= n)
        BY <1>2
      <4>2. columnsToAdd'[n + 1] = n + 1 /\ pushed'[n + 1] = Column
        BY <1>4, <1>5, <4>1, Zenon
      <4> QED
        BY <1>2, <3>2, <4>2, Zenon
    <3> QED
      BY <1>2, <3>1, <3>2
  <2>2. index' = ((n + 1) - 1) % SizeMod
    <3>1. n < SizeMod /\ (n + 1) - 1 = n /\ index' = n
      BY <1>1, <1>2, SizeAssumption
    <3>2. n % SizeMod = n
      BY <1>2, <3>1, Remainders
    <3> QED
      BY <3>1, <3>2, Zenon
  <2> QED
    BY <1>1, <1>2, <1>4, <1>5, <2>1, <2>2 DEF Pointers
<1>8. Gone' = Gone /\ Done' = Done + 1 /\ Done \in Nat
  <2>1. Gone' = Gone /\ Gone \in Nat /\ Done \in Nat
    BY <1>1, Counts DEF Gone
  <2> QED
    BY <1>2, <1>4, <2>1 DEF Done
<1>9. \A c \in ColumnsOf(D) : c.name # Column.name
  <2> SUFFICES ASSUME NEW c \in ColumnsOf(D), c.name = Column.name
               PROVE  FALSE
    OBVIOUS
  <2>1. c \in ColumnsOf(dbTableInfo)
    BY <1>1, NameIsNew
  <2> QED
    BY <1>1, <2>1 DEF ColumnsOf, Found
<1>10. 1..Done + 1 = (1..Done) \cup {Done + 1}
  BY <1>8
<1>11. Progress'
  <2>1. S \in Seq(ColumnsOf(S)) /\ D \in Seq(ColumnsOf(D)) /\ Done \in 0..Len(S) /\ Done + 1 \in 0..Len(S)
    BY <1>3, Counts, ColumnsAssumption DEF DiffInv, Vectors
  <2>2. S[Done + 1].name \notin NamesOf(D)
    BY <1>3, <1>9 DEF NamesOf, ColumnsOf
  <2>3. pushed' = Without(SubSeq(S, 1, Done + 1), NamesOf(D))
    <3>1. pushed = Without(SubSeq(S, 1, Done), NamesOf(D))
      BY DEF DiffInv, Progress
    <3>2. SubSeq(S, 1, Done) \in Seq(ColumnsOf(S)) /\ SubSeq(S, 1, Done + 1) = Append(SubSeq(S, 1, Done), Column)
      <4>1. (Done + 1) - 1 = Done
        BY <1>8
      <4> QED
        BY <1>3, <2>1, <4>1, PrefixAppend
    <3> QED
      <4>1. Without(Append(SubSeq(S, 1, Done), Column), NamesOf(D)) =
                IF Column.name \in NamesOf(D) THEN Without(SubSeq(S, 1, Done), NamesOf(D))
                ELSE Append(Without(SubSeq(S, 1, Done), NamesOf(D)), Column)
        <5> DEFINE cols == SubSeq(S, 1, Done)
                   names == NamesOf(D)
                   C == ColumnsOf(S)
        <5>1. cols \in Seq(C) /\ Column \in C
          BY <1>3, <3>2
        <5> HIDE DEF cols, names, C
        <5>2. Without(Append(cols, Column), names) =
                IF Column.name \in names THEN Without(cols, names) ELSE Append(Without(cols, names), Column)
          BY <5>1, WithoutAppend
        <5> QED
          BY <5>2 DEF cols, names
      <4> QED
        BY <1>1, <1>3, <2>2, <3>1, <3>2, <4>1, Zenon
  <2>4. dbTableInfo = Without(D, NamesOf(SubSeq(S, 1, Done + 1)))
    <3>1. dbTableInfo = Without(D, NamesOf(SubSeq(S, 1, Done)))
      BY DEF DiffInv, Progress
    <3>2. /\ NamesOf(SubSeq(S, 1, Done)) = {S[i].name : i \in 1..Done}
          /\ NamesOf(SubSeq(S, 1, Done + 1)) = {S[i].name : i \in 1..Done + 1}
      BY <2>1, PrefixNames, Zenon
    <3>3. \A c \in ColumnsOf(D) : c.name \in NamesOf(SubSeq(S, 1, Done)) <=> c.name \in NamesOf(SubSeq(S, 1, Done + 1))
      BY <1>3, <1>9, <1>10, <3>2
    <3> QED
      BY <2>1, <3>1, <3>3, WithoutSame
  <2>5. \A i \in 1..Done + 1 : ~Differ(S, D, i)
    <3>1. ~Differ(S, D, Done + 1)
      BY <1>3, <1>9 DEF Differ
    <3> QED
      BY <1>10, <3>1 DEF DiffInv, Progress
  <2>6. \A j \in (n + 1) + 1..Len(storageTableInfo) : storageTableInfo[j] = S[j + Gone]
    <3>1. \A j \in (n + 1) + 1..Len(storageTableInfo) : j \in n + 1..Len(storageTableInfo)
      BY <1>2
    <3> QED
      BY <3>1 DEF DiffInv, Progress
  <2> QED
    BY <1>1, <1>4, <1>8, <2>3, <2>4, <2>5, <2>6 DEF DiffInv, Progress
<1> QED
  BY <1>6, <1>7, <1>11 DEF DiffInv

LEMMA EqualStep ==
    ASSUME DiffInv, Equal
    PROVE  DiffInv'
<1> DEFINE n == Len(columnsToAdd)
           S == given.storage
           D == given.db
           m == Min(Found)
           d == dbTableInfo
           t == storageTableInfo
<1>1. /\ pc = "body" /\ Found # {} /\ ColumnsAreEqual(d[m], Column) /\ pc' = "step"
      /\ d' = Erase(d, m) /\ t' = Erase(t, index + 1) /\ index' = (index - 1) % SizeMod
      /\ UNCHANGED <<given, columnsToAdd, notEqual, pushed>>
  BY DEF Equal, Erased, StepBack
<1>2. /\ n \in Nat /\ Len(t) \in Nat /\ index = n /\ n + 1 \in 1..Len(t) /\ n + 1 <= Len(t)
      /\ Len(t) < SizeMod /\ t \in Seq(ColumnsOf(S)) /\ d \in Seq(ColumnsOf(D)) /\ Len(d) \in Nat
  BY <1>1, BodyColumn, Counts DEF DiffInv, Vectors, Pointers
<1>3. Column = S[Done + 1] /\ Done + 1 \in 1..Len(S) /\ m \in 1..Len(d) /\ d[m].name = Column.name
  BY <1>1, BodyColumn, FirstFound
<1> HIDE DEF m
<1>4. /\ t' \in Seq(ColumnsOf(S)) /\ Len(t') = Len(t) - 1
      /\ \A j \in 1..Len(t) - 1 : t'[j] = IF j < n + 1 THEN t[j] ELSE t[j + 1]
  BY <1>1, <1>2, Erasing, WithoutAtProperties, Zenon
<1>5. /\ d' \in Seq(ColumnsOf(D)) /\ Len(d') = Len(d) - 1
      /\ \A j \in 1..Len(d) - 1 : d'[j] = IF j < m THEN d[j] ELSE d[j + 1]
  BY <1>1, <1>2, <1>3, Erasing, WithoutAtProperties, Zenon
<1>6. Vectors'
  BY <1>1, <1>2, <1>4, <1>5, SizeAssumption DEF DiffInv, Vectors
<1>7. Pointers'
  <2>1. \A k \in 1..n : columnsToAdd[k] = k /\ pushed[k] = t'[k]
    <3> TAKE k \in 1..n
    <3>1. t'[k] = t[k]
      BY <1>2, <1>4
    <3> QED
      BY <3>1 DEF DiffInv, Pointers
  <2> QED
    BY <1>1, <1>2, <1>4, <2>1 DEF DiffInv, Pointers
<1>8. Gone' = Gone + 1 /\ Done' = Done + 1 /\ Done \in Nat /\ Gone \in Nat
  <2>1. Gone \in Nat /\ Done \in Nat /\ Len(S) \in Nat
    BY Counts
  <2>2. Gone' = Len(S) - (Len(t) - 1) /\ Gone = Len(S) - Len(t)
    BY <1>1, <1>4, Zenon DEF Gone
  <2>3. Gone' = Gone + 1
    BY <1>2, <2>1, <2>2
  <2>4. Done' = (Gone + 1) + n /\ Done = Gone + n
    BY <1>1, <2>3 DEF Done
  <2> QED
    BY <1>2, <2>1, <2>3, <2>4
<1>9. 1..Done + 1 = (1..Done) \cup {Done + 1}
  BY <1>8
<1>10. /\ ColumnsOf(d) = {d[j] : j \in 1..Len(d)}
       /\ DOMAIN d' = 1..Len(d) - 1 /\ ColumnsOf(d') = {d'[j] : j \in 1..Len(d) - 1}
  BY <1>5, Counts, LenProperties, Zenon DEF ColumnsOf
<1>11. \A i, j \in 1..Len(d) : d[i].name = d[j].name => i = j
  BY Counts DEF DiffInv, Progress
<1>12. ColumnsOf(d') = {c \in ColumnsOf(d) : c.name # Column.name}
  <2>1. ASSUME NEW j \in 1..Len(d) - 1
        PROVE  \E k \in 1..Len(d) : k # m /\ d'[j] = d[k]
    <3>1. PICK k \in 1..Len(d) : k = IF j < m THEN j ELSE j + 1
      BY <1>2, <1>3
    <3>2. k # m
      BY <1>2, <1>3, <3>1
    <3>3. d'[j] = d[k]
      BY <1>5, <3>1
    <3> QED
      BY <3>2, <3>3
  <2>2. ASSUME NEW k \in 1..Len(d), k # m
        PROVE  \E j \in 1..Len(d) - 1 : d'[j] = d[k]
    <3>1. PICK j \in 1..Len(d) - 1 : j = IF k < m THEN k ELSE k - 1
      BY <1>2, <1>3, <2>2
    <3>2. k = IF j < m THEN j ELSE j + 1
      BY <1>2, <1>3, <2>2, <3>1
    <3> QED
      BY <1>5, <3>2
  <2>3. \A k \in 1..Len(d) : k # m <=> d[k].name # Column.name
    BY <1>3, <1>11
  <2>4. ColumnsOf(d') \subseteq {c \in ColumnsOf(d) : c.name # Column.name}
    BY <1>10, <2>1, <2>3
  <2>5. {c \in ColumnsOf(d) : c.name # Column.name} \subseteq ColumnsOf(d')
    BY <1>10, <2>2, <2>3
  <2> QED
    BY <2>4, <2>5
<1>13. ~Differ(S, D, Done + 1)
  <2> SUFFICES ASSUME NEW c \in ColumnsOf(D), c.name = Column.name
               PROVE  ColumnsAreEqual(c, Column)
    BY <1>3 DEF Differ
  <2>1. c \in ColumnsOf(d)
    BY <1>1, NameIsNew
  <2>2. c = d[m]
    BY <1>3, <1>10, <1>11, <2>1
  <2> QED
    BY <1>1, <2>2
<1>14. /\ S \in Seq(ColumnsOf(S)) /\ D \in Seq(ColumnsOf(D)) /\ Done \in 0..Len(S) /\ Done + 1 \in 0..Len(S)
       /\ SubSeq(S, 1, Done) \in Seq(ColumnsOf(S)) /\ Column \in ColumnsOf(S)
       /\ SubSeq(S, 1, Done + 1) = Append(SubSeq(S, 1, Done), Column)
  <2>1. S \in Seq(ColumnsOf(S)) /\ D \in Seq(ColumnsOf(D)) /\ Done \in 0..Len(S) /\ Done + 1 \in 0..Len(S)
    BY <1>3, Counts, ColumnsAssumption DEF DiffInv, Vectors
  <2>2. (Done + 1) - 1 = Done
    BY <1>8
  <2> QED
    BY <1>3, <2>1, <2>2, PrefixAppend
<1>15. Progress'
  <2>1. \A j \in n + 1..Len(t) - 1 : t'[j] = S[j + (Gone + 1)]
    <3> TAKE j \in n + 1..Len(t) - 1
    <3>1. t'[j] = t[j + 1] /\ j + 1 \in n + 1..Len(t)
      BY <1>2, <1>4
    <3>2. t[j + 1] = S[(j + 1) + Gone]
      BY <3>1 DEF DiffInv, Progress
    <3>3. (j + 1) + Gone = j + (Gone + 1)
      BY <1>2, <1>8
    <3> QED
      BY <3>1, <3>2, <3>3
  <2>2. pushed = Without(SubSeq(S, 1, Done + 1), NamesOf(D))
    <3>1. pushed = Without(SubSeq(S, 1, Done), NamesOf(D))
      BY DEF DiffInv, Progress
    <3>2. d[m] \in ColumnsOf(D)
      BY <1>1, FirstFound, NamesDone DEF m
    <3>3. S[Done + 1].name \in NamesOf(D)
      BY <1>3, <3>2 DEF NamesOf, ColumnsOf
    <3> QED
      <4> DEFINE cols == SubSeq(S, 1, Done)
                 names == NamesOf(D)
                 C == Column
                 K == ColumnsOf(S)
      <4>1. /\ cols \in Seq(K) /\ C \in K /\ C.name \in names
            /\ pushed = Without(cols, names) /\ SubSeq(S, 1, Done + 1) = Append(cols, C)
        BY <1>3, <1>14, <3>1, <3>3, Zenon
      <4> HIDE DEF cols, names, C, K
      <4>2. Without(Append(cols, C), names) = Without(cols, names)
        BY <4>1, WithoutAppend
      <4> QED
        BY <4>1, <4>2, Zenon DEF names
  <2>3. d' = Without(D, NamesOf(SubSeq(S, 1, Done + 1)))
    <3> DEFINE names == NamesOf(SubSeq(S, 1, Done))
    <3>1. d = Without(D, names)
      BY DEF DiffInv, Progress
    <3>2. NamesOf(SubSeq(S, 1, Done + 1)) = names \cup {Column.name}
      <4>1. NamesOf(SubSeq(S, 1, Done + 1)) = {S[i].name : i \in 1..Done + 1}
        BY <1>14, PrefixNames
      <4>2. names = {S[i].name : i \in 1..Done}
        BY NamesDone
      <4> QED
        BY <1>3, <1>9, <4>1, <4>2
    <3>3. PICK j \in 1..Len(D) : d[m] = D[j]
      <4>1. d[m] \in ColumnsOf(D)
        BY <1>1, FirstFound, NamesDone DEF m
      <4> QED
        BY <1>14, <4>1, LenProperties, Zenon DEF ColumnsOf
    <3>4. D[j].name \notin names /\ D[j].name = Column.name
      <4>1. d[m] \in ColumnsOf(d)
        BY <1>3, <1>10
      <4>2. names = {S[i].name : i \in 1..Done} /\ \A i \in 1..Done : S[i].name # d[m].name
        BY <4>1, NamesDone
      <4> QED
        BY <1>3, <3>3, <4>2
    <3>5. \A i, k \in 1..Len(D) : D[i].name = D[k].name => i = k
      BY <1>14, ColumnsAssumption, LenProperties DEF DiffInv, Vectors
    <3> HIDE DEF names
    <3>6. OneLess(d, Without(D, names \cup {D[j].name}), D[j])
      BY <1>14, <3>1, <3>4, <3>5, WithoutOneMore, Zenon
    <3>7. PICK k \in 1..Len(d) : d[k] = D[j] /\ Without(D, names \cup {D[j].name}) = Erase(d, k)
      BY <3>6, Erasing DEF OneLess
    <3>8. k = m
      BY <1>3, <1>11, <3>3, <3>7
    <3> QED
      BY <1>1, <3>2, <3>4, <3>7, <3>8, Zenon
  <2>4. \A i, j \in DOMAIN d' : d'[i].name = d'[j].name => i = j
    <3> SUFFICES ASSUME NEW i \in 1..Len(d) - 1, NEW j \in 1..Len(d) - 1, d'[i].name = d'[j].name
                 PROVE  i = j
      BY <1>10
    <3> DEFINE a == IF i < m THEN i ELSE i + 1
               b == IF j < m THEN j ELSE j + 1
    <3>1. /\ a \in 1..Len(d) /\ a = IF i < m THEN i ELSE i + 1
          /\ b \in 1..Len(d) /\ b = IF j < m THEN j ELSE j + 1
      BY <1>2, <1>3
    <3>2. d'[i] = d[a] /\ d'[j] = d[b]
      BY <1>5
    <3> HIDE DEF a, b
    <3>3. a = b
      BY <1>11, <3>1, <3>2
    <3> QED
      BY <1>2, <1>3, <3>1, <3>3
  <2>5. \A i \in 1..Done + 1 : ~Differ(S, D, i)
    BY <1>9, <1>13 DEF DiffInv, Progress
  <2>6. Len(t') <= Len(S) /\ ~notEqual
    <3>1. Len(t) <= Len(S) /\ ~notEqual
      BY <1>1 DEF DiffInv, Progress
    <3> QED
      BY <1>2, <1>4, <3>1, Counts
  <2> QED
    BY <1>1, <1>4, <1>8, <2>1, <2>2, <2>3, <2>4, <2>5, <2>6 DEF Progress
<1> QED
  BY <1>6, <1>7, <1>15 DEF DiffInv
-----------------------------------------------------------------------------
LEMMA DiffStep == DiffInv /\ [Next]_vars => DiffInv'
<1> SUFFICES ASSUME DiffInv, [Next]_vars
             PROVE  DiffInv'
  OBVIOUS
<1>1. CASE Next
  BY <1>1, TestStep, DiffersStep, EqualStep, MissingStep, IncrementStep DEF Next
<1>2. CASE UNCHANGED vars
  <2>1. Gone' = Gone /\ Done' = Done
    BY <1>2 DEF vars, Gone, Done
  <2> QED
    BY <1>2, <2>1 DEF vars, DiffInv, Vectors, Pointers, Progress
<1> QED
  BY <1>1, <1>2

LEMMA DiffInit == Init => DiffInv
<1> SUFFICES ASSUME Init
             PROVE  DiffInv
  OBVIOUS
<1>1. /\ given.storage \in StorageInfos /\ given.db \in DbInfos
      /\ given.storage \in Seq(ColumnsOf(given.storage)) /\ given.db \in Seq(ColumnsOf(given.db))
      /\ Len(given.storage) < SizeMod /\ Len(given.storage) \in Nat
  BY ColumnsAssumption, SizeAssumption, LenProperties DEF Init
<1>2. Vectors
  <2>1. pushed \in Seq(ColumnsOf(given.storage))
    BY DEF Init
  <2> QED
    BY <1>1, <2>1, Zenon DEF Init, Vectors
<1>3. Pointers
  BY <1>1 DEF Init, Pointers
<1>4. Gone = 0 /\ Done = 0
  BY <1>1 DEF Init, Gone, Done
<1>5. Progress
  <2>1. pushed = Without(SubSeq(given.storage, 1, Done), NamesOf(given.db))
    <3>1. SubSeq(given.storage, 1, Done) = <<>>
      BY <1>4, SubSeqEmpty
    <3> QED
      BY <3>1, WithoutEmpty, Zenon DEF Init
  <2>2. 1..Done = {} /\ Len(columnsToAdd) = 0 /\ \A j \in 1..Len(given.storage) : j + Gone = j
    BY <1>1, <1>4 DEF Init
  <2>3. \A i, j \in DOMAIN dbTableInfo : dbTableInfo[i].name = dbTableInfo[j].name => i = j
    BY <1>1, ColumnsAssumption DEF Init
  <2>4. dbTableInfo = Without(given.db, NamesOf(SubSeq(given.storage, 1, Done)))
    <3>1. SubSeq(given.storage, 1, Done) = <<>>
      BY <1>4, SubSeqEmpty
    <3>2. NamesOf(<<>>) = {}
      BY DEF NamesOf
    <3> QED
      BY <1>1, <3>1, <3>2, WithoutNothing, Zenon DEF Init
  <2> QED
    BY <1>1, <2>1, <2>2, <2>3, <2>4 DEF Init, Progress
<1> QED
  BY <1>2, <1>3, <1>5 DEF DiffInv

(* What is left of the storage's vector are the columns to add and those not *)
(* dealt with.                                                               *)
LEMMA RestIsLeft ==
    ASSUME DiffInv
    PROVE  storageTableInfo = pushed \o SubSeq(given.storage, Done + 1, Len(given.storage))
<1> DEFINE S == given.storage
           n == Len(columnsToAdd)
           t == storageTableInfo
           rest == SubSeq(S, Done + 1, Len(S))
<1>1. /\ S \in Seq(ColumnsOf(S)) /\ t \in Seq(ColumnsOf(S)) /\ pushed \in Seq(ColumnsOf(S))
      /\ Len(pushed) = n /\ n <= Len(t) /\ Len(t) <= Len(S)
      /\ n \in Nat /\ Len(t) \in Nat /\ Len(S) \in Nat
  BY Counts, ColumnsAssumption DEF DiffInv, Vectors, Pointers, Progress
<1>2. Gone = Len(S) - Len(t) /\ Done = Gone + n /\ Gone \in Nat /\ Done \in Nat
  BY Counts DEF Gone, Done
<1>3. /\ rest \in Seq(ColumnsOf(S)) /\ Len(rest) = Len(t) - n
      /\ \A i \in 1..Len(t) - n : rest[i] = S[Done + i]
  <2>1. \A i \in Done + 1..Len(S) : S[i] \in ColumnsOf(S)
    BY <1>1, <1>2, ElementOfSeq
  <2>2. /\ rest \in Seq(ColumnsOf(S))
        /\ Len(rest) = IF Done + 1 <= Len(S) THEN Len(S) - (Done + 1) + 1 ELSE 0
        /\ \A i \in 1..Len(S) - (Done + 1) + 1 : rest[i] = S[(Done + 1) + i - 1]
    BY <1>1, <1>2, <2>1, SubSeqProperties
  <2>3. Len(S) - (Done + 1) + 1 = Len(t) - n /\ (~(Done + 1 <= Len(S)) => Len(t) - n = 0)
    <3>1. \A a, b, c \in Nat : c <= b /\ b <= a =>
            /\ a - (((a - b) + c) + 1) + 1 = b - c
            /\ ~(((a - b) + c) + 1 <= a) => b - c = 0
      OBVIOUS
    <3> QED
      <4>1. Done = (Len(S) - Len(t)) + n
        BY <1>2
      <4> QED
        BY <1>1, <3>1, <4>1
  <2>4. \A i \in 1..Len(t) - n : (Done + 1) + i - 1 = Done + i
    BY <1>2
  <2> HIDE DEF rest
  <2> QED
    BY <2>2, <2>3, <2>4, Zenon
<1> HIDE DEF rest
<1>4. /\ pushed \o rest \in Seq(ColumnsOf(S)) /\ Len(pushed \o rest) = n + (Len(t) - n)
      /\ \A i \in 1..n + (Len(t) - n) : (pushed \o rest)[i] = IF i <= n THEN pushed[i] ELSE rest[i - n]
  <2>1. /\ pushed \o rest \in Seq(ColumnsOf(S)) /\ Len(pushed \o rest) = Len(pushed) + Len(rest)
        /\ \A i \in 1..Len(pushed) + Len(rest) :
                (pushed \o rest)[i] = IF i <= Len(pushed) THEN pushed[i] ELSE rest[i - Len(pushed)]
    <3>1. pushed \in Seq(ColumnsOf(S)) /\ rest \in Seq(ColumnsOf(S))
      BY <1>1, <1>3
    <3> HIDE DEF S
    <3> QED
      BY <3>1, ConcatProperties
  <2> QED
    BY <1>1, <1>3, <2>1, Zenon
<1>5. n + (Len(t) - n) = Len(t)
  BY <1>1
<1>6. ASSUME NEW i \in 1..Len(t)
      PROVE  t[i] = (pushed \o rest)[i]
  <2>1. CASE i <= n
    <3>1. i \in 1..n
      BY <1>1, <2>1
    <3>2. pushed[i] = t[i]
      BY <3>1 DEF DiffInv, Pointers
    <3> QED
      BY <1>4, <1>5, <2>1, <3>2
  <2>2. CASE ~(i <= n)
    <3>1. i \in n + 1..Len(t) /\ i - n \in 1..Len(t) - n /\ Done + (i - n) = i + Gone
      BY <1>1, <1>2, <2>2
    <3>2. t[i] = S[i + Gone]
      BY <3>1 DEF DiffInv, Progress
    <3> QED
      BY <1>3, <1>4, <1>5, <2>2, <3>1, <3>2
  <2> QED
    BY <2>1, <2>2, Zenon
<1>7. t = pushed \o rest
  BY <1>1, <1>4, <1>5, <1>6, SeqEqual, Zenon
<1> QED
  BY <1>7 DEF rest

LEMMA DiffAlways == Spec => []DiffInv
BY DiffInit, DiffStep, PTL DEF Spec

(* The loop of calculate_remove_add_columns keeps to its vectors: what it    *)
(* leaves in them was there, its index fits size_t also when it has stepped  *)
(* below zero, and its body never reads behind the end.                      *)
THEOREM LoopStaysInVectors == Spec => []TypeOK
<1>1. DiffInv => TypeOK
  <2> SUFFICES ASSUME DiffInv
               PROVE  TypeOK
    OBVIOUS
  <2>1. /\ ColumnsOf(storageTableInfo) \subseteq ColumnsOf(given.storage)
        /\ ColumnsOf(dbTableInfo) \subseteq ColumnsOf(given.db)
    BY ElementOfSeq, Counts DEF ColumnsOf, DiffInv, Vectors
  <2>2. index \in 0..SizeMod - 1
    <3>1. Len(columnsToAdd) \in Nat /\ Len(columnsToAdd) < SizeMod
      BY Counts, SizeAssumption DEF DiffInv, Vectors, Pointers
    <3>2. (Len(columnsToAdd) - 1) % SizeMod \in 0..SizeMod - 1
      BY <3>1, Remainders
    <3>3. Len(columnsToAdd) \in 0..SizeMod - 1
      BY <3>1, SizeAssumption
    <3> QED
      BY <3>2, <3>3 DEF DiffInv, Pointers
  <2> QED
    BY <2>1, <2>2 DEF DiffInv, Vectors, Pointers, TypeOK
<1> QED
  BY <1>1, DiffAlways, PTL

(* The erasures never move a column that is to be added: sync_table may read *)
(* through the pointers it is given.                                         *)
THEOREM PointersStay == Spec => []PointersStayValid
<1>1. DiffInv => PointersStayValid
  <2> SUFFICES ASSUME DiffInv, NEW k \in DOMAIN columnsToAdd
               PROVE  columnsToAdd[k] \in DOMAIN storageTableInfo /\ storageTableInfo[columnsToAdd[k]] = pushed[k]
    BY DEF PointersStayValid
  <2>1. k \in 1..Len(columnsToAdd)
    BY LenProperties DEF DiffInv, Pointers
  <2>2. columnsToAdd[k] = k /\ pushed[k] = storageTableInfo[k] /\ Len(columnsToAdd) <= Len(storageTableInfo)
    BY <2>1 DEF DiffInv, Pointers
  <2> QED
    BY <2>1, <2>2, Counts
<1> QED
  BY <1>1, DiffAlways, PTL

(* calculate_remove_add_columns computes what CalculateRemoveAddColumns      *)
(* defines, although it erases from the vectors it walks and from under its  *)
(* own index: it tells whether a column differs, and up to the first that    *)
(* does it returns the missing columns, in their order, and leaves the       *)
(* excess ones.                                                              *)
THEOREM DifferenceIsComputed == Spec => []ComputesDifference
<1>1. DiffInv => ComputesDifference
  <2> SUFFICES ASSUME DiffInv, pc = "return"
               PROVE  ComputesDifference
    BY DEF ComputesDifference
  <2> DEFINE S == given.storage
             D == given.db
             differing == {i \in DOMAIN S : Differ(S, D, i)}
             stop == IF differing = {} THEN Len(S) + 1 ELSE Min(differing)
             rest == SubSeq(S, Done + 1, Len(S))
  <2>1. /\ Done \in Nat /\ Len(S) \in Nat /\ Done <= Len(S) /\ DOMAIN S = 1..Len(S)
        /\ notEqual \in BOOLEAN /\ \A i \in 1..Done : ~Differ(S, D, i)
        /\ notEqual => Done + 1 \in DOMAIN S /\ Differ(S, D, Done + 1)
        /\ ~notEqual => Done = Len(S)
    <3>1. /\ notEqual \in BOOLEAN /\ \A i \in 1..Done : ~Differ(S, D, i)
          /\ notEqual => Done < Len(S) /\ Differ(S, D, Done + 1)
          /\ ~notEqual => Done = Len(S)
      BY Zenon DEF DiffInv, Progress, Vectors
    <3>2. /\ Done \in Nat /\ Len(S) \in Nat /\ Done <= Len(S) /\ DOMAIN S = 1..Len(S)
          /\ Done < Len(S) => Done + 1 \in DOMAIN S
      BY Counts
    <3> QED
      BY <3>1, <3>2, Zenon
  <2>2. notEqual <=> differing # {}
    BY <2>1
  <2>3. stop = Done + 1
    <3>1. CASE notEqual
      <4>1. differing \in SUBSET Nat /\ differing # {} /\ Done + 1 \in differing
        BY <2>1, <2>2, <3>1
      <4>2. Min(differing) \in differing /\ \A y \in differing : Min(differing) <= y
        <5> HIDE DEF differing
        <5> QED
          BY <4>1, MinIsSmallest
      <4>3. \A i \in differing : i \in Nat /\ Done + 1 <= i
        BY <2>1
      <4>4. Min(differing) <= Done + 1 /\ Done + 1 <= Min(differing) /\ Min(differing) \in Nat
        BY <4>1, <4>2, <4>3
      <4> QED
        BY <2>1, <4>1, <4>4
    <3>2. CASE ~notEqual
      BY <2>1, <2>2, <3>2
    <3> QED
      BY <2>1, <3>1, <3>2
  <2>4. stop - 1 = Done
    BY <2>1, <2>3
  <2>5. /\ pushed = Without(SubSeq(S, 1, Done), NamesOf(D))
        /\ dbTableInfo = Without(D, NamesOf(SubSeq(S, 1, Done)))
    BY DEF DiffInv, Progress
  <2>6. storageTableInfo = pushed \o rest
    BY RestIsLeft, Zenon
  <2> HIDE DEF stop, differing
  <2>7. CalculateRemoveAddColumns(S, D) =
            [notEqual |-> differing # {}, columnsToAdd |-> pushed,
             storageTableInfo |-> storageTableInfo, dbTableInfo |-> dbTableInfo]
    BY <2>3, <2>4, <2>5, <2>6, Zenon DEF CalculateRemoveAddColumns, stop, differing
  <2>8. notEqual = (differing # {})
    BY <2>1, <2>2, Zenon
  <2> QED
    BY <2>7, <2>8 DEF ComputesDifference
<1> QED
  BY <1>1, DiffAlways, PTL
=============================================================================
