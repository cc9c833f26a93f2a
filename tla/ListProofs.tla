----------------------------- MODULE ListProofs -----------------------------
(***************************************************************************)
(* The lists of include/list.h as sequences: which elements a list has and *)
(* what the list operations do to them.  For the proofs about the modules  *)
(* that keep lists.                                                        *)
(***************************************************************************)
EXTENDS Integers, Sequences, SequencesExt, FiniteSetsExt, SequenceTheorems, FiniteSetTheorems,
        WellFoundedInduction, TLAPS

\* The sequence s has every element of S, and every one of them once.
Lists(s, S) ==
    /\ s \in Seq(S)
    /\ \A i, j \in 1 .. Len(s) : s[i] = s[j] => i = j
    /\ \A t \in S : \E i \in 1 .. Len(s) : s[i] = t
-----------------------------------------------------------------------------
(* Induction, for a set. *)

\* The naturals are the least set with 0 and the successor of each member.
LEMMA SetInduction ==
    ASSUME NEW S \in SUBSET Nat, 0 \in S, \A n \in S : n + 1 \in S
    PROVE  S = Nat
<1> DEFINE R == OpToRel(<, Nat)
           T == Nat \ S
<1>1. IsWellFoundedOn(R, Nat)
  BY NatLessThanWellFounded, Zenon
<1>2. \A x, y \in Nat : y < x => <<y, x>> \in R
  BY DEF OpToRel
<1> HIDE DEF R
<1>3. SUFFICES ASSUME T # {} PROVE FALSE
  OBVIOUS
<1>4. T \subseteq Nat
  OBVIOUS
<1> HIDE DEF T
<1>5. PICK x \in T : \A y \in T : <<y, x>> \notin R
  BY <1>1, <1>3, <1>4, WFMin
<1> USE DEF T
<1>6. x \in Nat /\ x - 1 \in Nat /\ x - 1 < x
  BY <1>5
<1>7. <<x - 1, x>> \in R
  BY <1>2, <1>6
<1>8. x - 1 \notin T
  BY <1>5, <1>7, Zenon
<1>9. QED
  BY <1>5, <1>6, <1>8

\* A set of naturals has a least element.
LEMMA LeastElement ==
    ASSUME NEW S \in SUBSET Nat, S # {}
    PROVE  Min(S) \in S /\ \A x \in S : Min(S) <= x
<1> DEFINE R == OpToRel(<, Nat)
<1>1. IsWellFoundedOn(R, Nat)
  BY NatLessThanWellFounded, Zenon
<1>2. \A x, y \in Nat : y < x => <<y, x>> \in R
  BY DEF OpToRel
<1> HIDE DEF R
<1>3. PICK x \in S : \A y \in S : <<y, x>> \notin R
  BY <1>1, WFMin
<1>4. \A y \in S : ~(y < x)
  BY <1>2, <1>3
<1>5. \E m \in S : \A y \in S : m <= y
  BY <1>4
<1>6. QED
  BY <1>5 DEF Min

\* A bounded set of naturals has a greatest element.
LEMMA GreatestElement ==
    ASSUME NEW n \in Nat, NEW S \in SUBSET (0 .. n), S # {}
    PROVE  Max(S) \in S /\ \A x \in S : x <= Max(S)
<1> DEFINE T == {n - p : p \in S}
<1>1. T \in SUBSET Nat /\ T # {}
  <2>1. \A p \in S : n - p \in Nat
    OBVIOUS
  <2>2. QED
    BY <2>1
<1>2. Min(T) \in T /\ \A x \in T : Min(T) <= x
  BY <1>1, LeastElement
<1>3. PICK p \in S : Min(T) = n - p
  BY <1>2
<1>4. \A q \in S : n - p <= n - q
  BY <1>2, <1>3
<1>5. \A q \in S : p >= q
  BY <1>4
<1>6. QED
  BY <1>5 DEF Max

\* r is s with e before its k-th element.
Inserts(r, s, k, e, S) ==
    /\ r \in Seq(S)
    /\ Len(r) = Len(s) + 1
    /\ r[k] = e
    /\ \A i \in 1 .. k - 1 : r[i] = s[i]
    /\ \A i \in k .. Len(s) : r[i + 1] = s[i]
    /\ \A i \in 1 .. Len(r) : r[i] = IF i < k THEN s[i] ELSE IF i = k THEN e ELSE s[i - 1]

\* What InsertAt does.
LEMMA InsertsAt ==
    ASSUME NEW S, NEW s \in Seq(S), NEW k \in 1 .. Len(s) + 1, NEW e \in S, NEW r,
           r = InsertAt(s, k, e)
    PROVE  Inserts(r, s, k, e, S)
<1> DEFINE s1 == SubSeq(s, 1, k - 1)
           s2 == SubSeq(s, k, Len(s))
           h == s1 \o <<e>>
<1>1. Len(s) \in Nat /\ k \in Nat /\ \A i \in 1 .. Len(s) : s[i] \in S
  OBVIOUS
<1>2. s1 \in Seq(S) /\ Len(s1) = k - 1 /\ \A i \in 1 .. k - 1 : s1[i] = s[i]
  BY <1>1, SubSeqProperties
<1>3. s2 \in Seq(S) /\ Len(s2) = Len(s) - k + 1 /\ \A i \in 1 .. Len(s) - k + 1 : s2[i] = s[k + i - 1]
  BY <1>1, SubSeqProperties
<1>4. /\ h \in Seq(S) /\ Len(h) = k
      /\ \A i \in 1 .. k : h[i] = IF i <= k - 1 THEN s1[i] ELSE e
  <2>1. <<e>> \in Seq(S) /\ Len(<<e>>) = 1 /\ <<e>>[1] = e
    OBVIOUS
  <2> HIDE DEF s1
  <2>2. QED
    BY <1>1, <1>2, <2>1, ConcatProperties
<1>5. r = h \o s2
  BY DEF InsertAt
<1> HIDE DEF s1, s2, h
<1>6. /\ r \in Seq(S) /\ Len(r) = k + Len(s2)
      /\ \A i \in 1 .. k + Len(s2) : r[i] = IF i <= k THEN h[i] ELSE s2[i - k]
  <2>1. /\ h \o s2 \in Seq(S) /\ Len(h \o s2) = Len(h) + Len(s2)
        /\ \A i \in 1 .. Len(h) + Len(s2) : (h \o s2)[i] = IF i <= Len(h) THEN h[i] ELSE s2[i - Len(h)]
    BY <1>3, <1>4, ConcatProperties
  <2>2. QED
    BY ONLY <1>4, <1>5, <2>1
<1>7. Len(r) = Len(s) + 1
  BY <1>1, <1>3, <1>6
<1>8. ASSUME NEW i \in 1 .. Len(r)
      PROVE  r[i] = IF i < k THEN s[i] ELSE IF i = k THEN e ELSE s[i - 1]
  <2>1. r[i] = IF i <= k THEN h[i] ELSE s2[i - k]
    BY <1>1, <1>6
  <2>2. CASE i < k
    BY <1>1, <1>2, <1>4, <2>1, <2>2
  <2>3. CASE i = k
    BY <1>1, <1>4, <2>1, <2>3
  <2>4. CASE i > k
    <3>1. i - k \in 1 .. Len(s) - k + 1 /\ k + (i - k) - 1 = i - 1
      BY <1>1, <1>7, <2>4
    <3>2. s2[i - k] = s[k + (i - k) - 1]
      BY <1>3, <3>1
    <3>3. QED
      BY <1>1, <2>1, <2>4, <3>1, <3>2
  <2>5. QED
    BY <1>1, <2>2, <2>3, <2>4
<1>9. \A i \in k .. Len(s) : i + 1 \in 1 .. Len(r) /\ (i + 1) - 1 = i /\ i + 1 > k
  BY <1>1, <1>7
<1>10. /\ r[k] = e
       /\ \A i \in 1 .. k - 1 : r[i] = s[i]
       /\ \A i \in k .. Len(s) : r[i + 1] = s[i]
  BY <1>1, <1>7, <1>8, <1>9
<1>11. QED
  BY ONLY <1>6, <1>7, <1>8, <1>10 DEF Inserts

\* The same, spelt out.
LEMMA InsertAtProperties ==
    ASSUME NEW S, NEW s \in Seq(S), NEW k \in 1 .. Len(s) + 1, NEW e \in S, NEW r,
           r = InsertAt(s, k, e)
    PROVE  /\ r \in Seq(S)
           /\ Len(r) = Len(s) + 1
           /\ r[k] = e
           /\ \A i \in 1 .. k - 1 : r[i] = s[i]
           /\ \A i \in k .. Len(s) : r[i + 1] = s[i]
           /\ \A i \in 1 .. Len(r) : r[i] = IF i < k THEN s[i] ELSE IF i = k THEN e ELSE s[i - 1]
<1>1. Inserts(r, s, k, e, S)
  BY InsertsAt
<1>2. QED
  BY ONLY <1>1 DEF Inserts
-----------------------------------------------------------------------------
(* What the operations on sequences do to what a sequence lists. *)

\* Nobody is listed by the empty sequence.
LEMMA ListsEmpty ==
    ASSUME NEW s, NEW S, Lists(s, S)
    PROVE  s = <<>> <=> S = {}
<1>1. CASE s = <<>>
  BY <1>1 DEF Lists
<1>2. CASE s # <<>>
  <2>1. s \in Seq(S) /\ Len(s) \in Nat /\ Len(s) # 0
    BY <1>2 DEF Lists
  <2>2. s[1] \in S
    BY <2>1
  <2>3. QED
    BY <1>2, <2>2
<1>3. QED
  BY <1>1, <1>2

\* list_add_tail.
LEMMA ListsAppend ==
    ASSUME NEW s, NEW S, Lists(s, S), NEW t, t \notin S
    PROVE  Lists(Append(s, t), S \cup {t})
<1> DEFINE r == Append(s, t)
<1>1. s \in Seq(S \cup {t}) /\ Len(s) \in Nat /\ \A i \in 1 .. Len(s) : s[i] \in S
  BY DEF Lists
<1>2. /\ r \in Seq(S \cup {t})
      /\ Len(r) = Len(s) + 1
      /\ \A i \in 1 .. Len(s) : r[i] = s[i]
      /\ r[Len(s) + 1] = t
  BY <1>1, AppendProperties
<1> HIDE DEF r
<1>3. ASSUME NEW i \in 1 .. Len(r), NEW j \in 1 .. Len(r), r[i] = r[j] PROVE i = j
  <2>1. \A k \in 1 .. Len(r) : k = Len(s) + 1 \/ (k \in 1 .. Len(s) /\ r[k] = s[k])
    BY <1>1, <1>2
  <2>2. CASE i = Len(s) + 1 \/ j = Len(s) + 1
    BY <1>1, <1>2, <1>3, <2>1, <2>2
  <2>3. CASE i \in 1 .. Len(s) /\ j \in 1 .. Len(s)
    BY <1>2, <1>3, <2>3 DEF Lists
  <2>4. QED
    BY <2>1, <2>2, <2>3
<1>4. ASSUME NEW u \in S \cup {t} PROVE \E i \in 1 .. Len(r) : r[i] = u
  <2>1. CASE u = t
    <3>1. Len(s) + 1 \in 1 .. Len(r)
      BY <1>1, <1>2
    <3>2. QED
      BY <1>2, <2>1, <3>1
  <2>2. CASE u \in S
    <3>1. PICK i \in 1 .. Len(s) : s[i] = u
      BY <2>2 DEF Lists
    <3>2. i \in 1 .. Len(r) /\ r[i] = u
      BY <1>1, <1>2, <3>1
    <3>3. QED
      BY <3>2
  <2>3. QED
    BY <2>1, <2>2
<1>5. Lists(r, S \cup {t})
  BY <1>2, <1>3, <1>4 DEF Lists
<1>6. QED
  BY <1>5 DEF r

\* list_add_head.
LEMMA ListsCons ==
    ASSUME NEW s, NEW S, Lists(s, S), NEW t, t \notin S
    PROVE  Lists(<<t>> \o s, S \cup {t})
<1> DEFINE r == <<t>> \o s
<1>1. s \in Seq(S \cup {t}) /\ Len(s) \in Nat /\ \A i \in 1 .. Len(s) : s[i] \in S
  BY DEF Lists
<1>2. <<t>> \in Seq(S \cup {t}) /\ Len(<<t>>) = 1 /\ <<t>>[1] = t
  OBVIOUS
<1>3. /\ r \in Seq(S \cup {t})
      /\ Len(r) = Len(s) + 1
      /\ r[1] = t
      /\ \A i \in 1 .. Len(s) : r[i + 1] = s[i]
  <2>1. /\ r \in Seq(S \cup {t})
        /\ Len(r) = 1 + Len(s)
        /\ \A i \in 1 .. 1 + Len(s) : r[i] = IF i <= 1 THEN <<t>>[i] ELSE s[i - 1]
    BY <1>1, <1>2, ConcatProperties
  <2> HIDE DEF r
  <2>2. ASSUME NEW i \in 1 .. Len(s) PROVE r[i + 1] = s[i]
    <3>1. i + 1 \in 1 .. 1 + Len(s) /\ ~(i + 1 <= 1) /\ (i + 1) - 1 = i
      BY <1>1
    <3>2. QED
      BY <2>1, <3>1
  <2>3. QED
    BY <1>1, <1>2, <2>1, <2>2
<1> HIDE DEF r
<1>4. ASSUME NEW i \in 1 .. Len(r), i # 1
      PROVE  i - 1 \in 1 .. Len(s) /\ r[i] = s[i - 1]
  <2>1. i - 1 \in 1 .. Len(s) /\ (i - 1) + 1 = i
    BY <1>1, <1>3, <1>4
  <2>2. QED
    BY <1>3, <2>1
<1>5. ASSUME NEW i \in 1 .. Len(r), NEW j \in 1 .. Len(r), r[i] = r[j] PROVE i = j
  <2>1. CASE i = 1 \/ j = 1
    <3>1. ASSUME NEW n \in 1 .. Len(r), n # 1 PROVE r[n] # r[1]
      <4>1. n - 1 \in 1 .. Len(s) /\ r[n] = s[n - 1]
        BY ONLY <1>4, <3>1
      <4>2. s[n - 1] \in S
        BY ONLY <1>1, <4>1
      <4>3. QED
        BY <1>3, <4>1, <4>2
    <3>2. QED
      BY <1>5, <2>1, <3>1
  <2>2. CASE i # 1 /\ j # 1
    <3>1. /\ i - 1 \in 1 .. Len(s) /\ j - 1 \in 1 .. Len(s)
          /\ s[i - 1] = s[j - 1]
      BY <1>4, <1>5, <2>2
    <3>2. i - 1 = j - 1
      BY <3>1 DEF Lists
    <3>3. QED
      BY <3>2
  <2>3. QED
    BY <2>1, <2>2
<1>6. ASSUME NEW u \in S \cup {t} PROVE \E i \in 1 .. Len(r) : r[i] = u
  <2>1. CASE u = t
    <3>1. 1 \in 1 .. Len(r)
      BY <1>1, <1>3
    <3>2. QED
      BY <1>3, <2>1, <3>1
  <2>2. CASE u \in S
    <3>1. PICK i \in 1 .. Len(s) : s[i] = u
      BY <2>2 DEF Lists
    <3>2. i + 1 \in 1 .. Len(r) /\ r[i + 1] = u
      BY <1>1, <1>3, <3>1
    <3>3. QED
      BY <3>2
  <2>3. QED
    BY <2>1, <2>2
<1>7. Lists(r, S \cup {t})
  BY <1>3, <1>5, <1>6 DEF Lists
<1>8. QED
  BY <1>7 DEF r

\* list_delete.
LEMMA ListsRemoveAt ==
    ASSUME NEW s, NEW S, Lists(s, S), NEW k \in DOMAIN s
    PROVE  /\ s[k] \in S /\ Lists(RemoveAt(s, k), S \ {s[k]})
           /\ Len(RemoveAt(s, k)) = Len(s) - 1
<1> DEFINE r == RemoveAt(s, k)
           s1 == SubSeq(s, 1, k - 1)
           s2 == SubSeq(s, k + 1, Len(s))
<1>1. s \in Seq(S) /\ Len(s) \in Nat /\ k \in 1 .. Len(s) /\ \A i \in 1 .. Len(s) : s[i] \in S
  BY DEF Lists
<1>2. /\ s1 \in Seq(S)
      /\ Len(s1) = k - 1
      /\ \A i \in 1 .. k - 1 : s1[i] = s[i]
  BY <1>1, SubSeqProperties
<1>3. /\ s2 \in Seq(S)
      /\ Len(s2) = Len(s) - k
      /\ \A i \in 1 .. Len(s) - k : s2[i] = s[k + i]
  BY <1>1, SubSeqProperties
<1>4. /\ s1 \o s2 \in Seq(S)
      /\ Len(s1 \o s2) = Len(s1) + Len(s2)
      /\ \A i \in 1 .. Len(s1) + Len(s2) :
            (s1 \o s2)[i] = IF i <= Len(s1) THEN s1[i] ELSE s2[i - Len(s1)]
  BY <1>2, <1>3, ConcatProperties
<1>5. r = s1 \o s2
  BY DEF RemoveAt
<1> HIDE DEF r, s1, s2
<1>6. r \in Seq(S) /\ Len(r) = Len(s) - 1
  <2>1. Len(s1) + Len(s2) = Len(s) - 1
    BY <1>1, <1>2, <1>3
  <2>2. QED
    BY <1>4, <1>5, <2>1
<1> DEFINE old(n) == IF n < k THEN n ELSE n + 1
<1>7. ASSUME NEW i \in 1 .. Len(r)
      PROVE  old(i) \in 1 .. Len(s) /\ old(i) # k /\ r[i] = s[old(i)]
  <2>1. r[i] = IF i <= k - 1 THEN s1[i] ELSE s2[i - (k - 1)]
    BY <1>1, <1>2, <1>3, <1>4, <1>5, <1>6
  <2>2. CASE i < k
    BY <2>1, <2>2, <1>1, <1>2
  <2>3. CASE ~(i < k)
    <3>1. i - (k - 1) \in 1 .. Len(s) - k /\ k + (i - (k - 1)) = i + 1
      BY <2>3, <1>1, <1>6
    <3>2. s2[i - (k - 1)] = s[k + (i - (k - 1))]
      BY <3>1, <1>3
    <3>3. QED
      BY <2>1, <2>3, <3>1, <3>2, <1>1, <1>6
  <2>4. QED
    BY <2>2, <2>3
<1>8. \A i, j \in 1 .. Len(r) : old(i) = old(j) => i = j
  BY <1>1, <1>6
<1>9. ASSUME NEW u \in S, u # s[k] PROVE \E i \in 1 .. Len(r) : r[i] = u
  <2>1. PICK m \in 1 .. Len(s) : s[m] = u
    BY DEF Lists
  <2> DEFINE i == IF m < k THEN m ELSE m - 1
  <2>2. i \in 1 .. Len(r) /\ old(i) = m
    BY <1>1, <1>6, <1>9, <2>1
  <2>3. r[i] = u
    BY <1>7, <2>1, <2>2
  <2>4. QED
    BY <2>2, <2>3
<1>10. \A i, j \in 1 .. Len(s) : s[i] = s[j] => i = j
  BY DEF Lists
<1> HIDE DEF old
<1>11. \A i, j \in 1 .. Len(r) : r[i] = r[j] => i = j
  BY <1>7, <1>8, <1>10
<1>12. \A i \in 1 .. Len(r) : r[i] \in S \ {s[k]}
  BY <1>1, <1>7, <1>10
<1>13. r \in Seq(S \ {s[k]})
  BY <1>6, <1>12
<1>14. Lists(r, S \ {s[k]})
  BY <1>9, <1>11, <1>13 DEF Lists
<1>15. QED
  BY <1>1, <1>6, <1>14 DEF r

\* The first n elements, and the others.
LEMMA ListsSplit ==
    ASSUME NEW s, NEW S, Lists(s, S), NEW n \in 0 .. Len(s)
    PROVE  \E W \in SUBSET S :
              /\ Lists(SubSeq(s, 1, n), W)
              /\ ToSet(SubSeq(s, 1, n)) = W
              /\ Lists(SubSeq(s, n + 1, Len(s)), S \ W)
              /\ Len(SubSeq(s, n + 1, Len(s))) = Len(s) - n
<1> DEFINE a == SubSeq(s, 1, n)
           b == SubSeq(s, n + 1, Len(s))
           W == {s[i] : i \in 1 .. n}
<1>1. s \in Seq(S) /\ Len(s) \in Nat /\ n \in Nat /\ \A i \in 1 .. Len(s) : s[i] \in S
  BY DEF Lists
<1>2. \A i, j \in 1 .. Len(s) : s[i] = s[j] => i = j
  BY DEF Lists
<1>3. /\ a \in Seq(S) /\ Len(a) = n
      /\ \A i \in 1 .. n : a[i] = s[i]
  BY <1>1, SubSeqProperties
<1>4. /\ b \in Seq(S) /\ Len(b) = Len(s) - n
      /\ \A i \in 1 .. Len(s) - n : b[i] = s[n + i]
  BY <1>1, SubSeqProperties
<1> HIDE DEF a, b
<1>5. W \in SUBSET S
  BY <1>1
<1>6. Lists(a, W)
  <2>1. a \in Seq(W)
    BY <1>1, <1>3
  <2>2. \A i, j \in 1 .. Len(a) : a[i] = a[j] => i = j
    BY <1>1, <1>2, <1>3
  <2>3. \A t \in W : \E i \in 1 .. Len(a) : a[i] = t
    BY <1>1, <1>3
  <2>4. QED
    BY <2>1, <2>2, <2>3 DEF Lists
<1>7. ToSet(a) = W
  BY <1>3 DEF ToSet
<1>8. Lists(b, S \ W)
  <2>1. ASSUME NEW i \in 1 .. Len(b)
        PROVE  n + i \in 1 .. Len(s) /\ n + i \notin 1 .. n /\ b[i] = s[n + i]
    BY <1>1, <1>4
  <2>2. \A i \in 1 .. Len(b) : b[i] \in S \ W
    BY <1>1, <1>2, <2>1
  <2>3. b \in Seq(S \ W)
    BY <1>4, <2>2
  <2>4. ASSUME NEW i \in 1 .. Len(b), NEW j \in 1 .. Len(b), b[i] = b[j] PROVE i = j
    <3>1. n + i = n + j
      BY <1>2, <2>1, <2>4
    <3>2. QED
      BY <1>1, <3>1
  <2>5. ASSUME NEW t \in S \ W PROVE \E i \in 1 .. Len(b) : b[i] = t
    <3>1. PICK m \in 1 .. Len(s) : s[m] = t
      BY <2>5 DEF Lists
    <3>2. m \notin 1 .. n
      BY <2>5, <3>1
    <3>3. m - n \in 1 .. Len(b) /\ n + (m - n) = m
      BY <1>1, <1>4, <3>1, <3>2
    <3>4. b[m - n] = t
      BY <2>1, <3>1, <3>3
    <3>5. QED
      BY <3>3, <3>4
  <2>6. QED
    BY <2>3, <2>4, <2>5 DEF Lists
<1> HIDE DEF W
<1>9. QED
  BY <1>4, <1>5, <1>6, <1>7, <1>8 DEF a, b
=============================================================================
