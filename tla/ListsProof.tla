----------------------------- MODULE ListsProof -----------------------------
(***************************************************************************)
(* Lemmas about the operators of Lists, cited by the proofs about the      *)
(* scheduler and about the objects whose waiters are in lists.             *)
(***************************************************************************)
EXTENDS Lists, SequenceTheorems, FiniteSetTheorems, WellFoundedInduction, TLAPS

-----------------------------------------------------------------------------
(* A list stays a list, and its cursor in it *)


\* A set of naturals that is not empty has a least element.
LEMMA LeastNatural ==
  ASSUME NEW S \in SUBSET Nat, S # {}
  PROVE  \E n \in S : \A m \in S : n <= m
<1>1. \E n \in S : \A m \in S : <<m, n>> \notin OpToRel(<, Nat)
  BY NatLessThanWellFounded, WFMin, Zenon
<1>2. PICK n \in S : \A m \in S : <<m, n>> \notin OpToRel(<, Nat)
  BY <1>1
<1>3. \A m \in S : ~(m < n)
  BY <1>2, Zenon DEF OpToRel
<1>. QED  BY <1>3

\* The position of an element of a sequence is one of its indices.
LEMMA PositionType ==
  ASSUME NEW S, NEW s \in Seq(S), NEW x, Contains(s, x)
  PROVE  PositionIn(s, x) \in 1 .. Len(s)
BY DEF PositionIn, Contains

\* To take an element out of a sequence leaves a sequence.
LEMMA WithoutType ==
  ASSUME NEW S, NEW s \in Seq(S), NEW x
  PROVE  /\ Without(s, x) \in Seq(S)
         /\ Contains(s, x) => Len(Without(s, x)) = Len(s) - 1
<1>1. CASE ~Contains(s, x)
  BY <1>1 DEF Without
<1>2. CASE Contains(s, x)
  <2>. DEFINE i == PositionIn(s, x)
  <2>1. i \in 1 .. Len(s)
    BY <1>2, PositionType
  <2>2. SubSeq(s, 1, i - 1) \in Seq(S) /\ Len(SubSeq(s, 1, i - 1)) = i - 1
    BY <2>1, ElementOfSeq, SubSeqProperties
  <2>3. SubSeq(s, i + 1, Len(s)) \in Seq(S) /\ Len(SubSeq(s, i + 1, Len(s))) = Len(s) - i
    BY <2>1, ElementOfSeq, SubSeqProperties
  <2>. DEFINE before == SubSeq(s, 1, i - 1)
              after  == SubSeq(s, i + 1, Len(s))
  <2>4. before \o after \in Seq(S) /\ Len(before \o after) = Len(before) + Len(after)
    BY <2>2, <2>3, ConcatProperties
  <2>5. Without(s, x) = before \o after
    BY <1>2 DEF Without, RemoveAt
  <2>6. Len(before) + Len(after) = Len(s) - 1
    BY <2>1, <2>2, <2>3
  <2>. QED  BY <2>4, <2>5, <2>6
<1>. QED  BY <1>1, <1>2

\* To put an element into a sequence, at any place, leaves a sequence.
LEMMA InsertAtType ==
  ASSUME NEW S, NEW s \in Seq(S), NEW x \in S, NEW i \in 1 .. Len(s) + 1
  PROVE  InsertAt(s, i, x) \in Seq(S) /\ Len(InsertAt(s, i, x)) = Len(s) + 1
<1>1. /\ SubSeq(s, 1, i - 1) \in Seq(S) /\ Len(SubSeq(s, 1, i - 1)) = i - 1
      /\ SubSeq(s, i, Len(s)) \in Seq(S) /\ Len(SubSeq(s, i, Len(s))) = Len(s) - i + 1
  BY ElementOfSeq, SubSeqProperties
<1>2. <<x>> \in Seq(S) /\ Len(<<x>>) = 1
  OBVIOUS
<1>. DEFINE before == SubSeq(s, 1, i - 1)
            after  == SubSeq(s, i, Len(s))
<1>3. before \o <<x>> \in Seq(S) /\ Len(before \o <<x>>) = Len(before) + 1
  BY <1>1, <1>2, ConcatProperties
<1>4. /\ (before \o <<x>>) \o after \in Seq(S)
      /\ Len((before \o <<x>>) \o after) = Len(before \o <<x>>) + Len(after)
  BY <1>1, <1>3, ConcatProperties
<1>5. InsertAt(s, i, x) = (before \o <<x>>) \o after
  BY DEF InsertAt
<1>6. Len(before \o <<x>>) + Len(after) = Len(s) + 1
  BY <1>1, <1>3
<1>. QED  BY <1>4, <1>5, <1>6

\* A list whose cursor points at one of its items or at the end marker.
ListOf(S) == {l \in [items : Seq(S), pxIndex : Nat] : l.pxIndex <= Len(l.items)}

\* uxListRemove keeps the cursor in the list.
LEMMA RemoveType ==
  ASSUME NEW S, NEW l \in ListOf(S), NEW x
  PROVE  uxListRemove(l, x) \in ListOf(S)
<1>1. CASE ~Contains(l.items, x)
  BY <1>1 DEF uxListRemove
<1>2. CASE Contains(l.items, x)
  <2>1. PositionIn(l.items, x) \in 1 .. Len(l.items)
    BY <1>2, PositionType DEF ListOf
  <2>2. Without(l.items, x) \in Seq(S) /\ Len(Without(l.items, x)) = Len(l.items) - 1
    BY <1>2, WithoutType DEF ListOf
  <2>. QED  BY <1>2, <2>1, <2>2 DEF uxListRemove, ListOf
<1>. QED  BY <1>1, <1>2

\* vListInsertEnd keeps the cursor in the list, wherever it stands.
LEMMA InsertEndType ==
  ASSUME NEW S, NEW l \in ListOf(S), NEW x \in S
  PROVE  vListInsertEnd(l, x) \in ListOf(S)
<1>1. CASE l.pxIndex = 0
  BY <1>1, AppendProperties DEF vListInsertEnd, ListOf
<1>2. CASE l.pxIndex # 0
  <2>1. InsertAt(l.items, l.pxIndex, x) \in Seq(S)
        /\ Len(InsertAt(l.items, l.pxIndex, x)) = Len(l.items) + 1
    BY <1>2, InsertAtType DEF ListOf
  <2>. QED  BY <1>2, <2>1 DEF vListInsertEnd, ListOf
<1>. QED  BY <1>1, <1>2

\* vListInsert, whatever the values it sorts by.
LEMMA InsertType ==
  ASSUME NEW S, NEW s \in Seq(S), NEW x \in S, NEW value
  PROVE  vListInsert(s, x, value) \in Seq(S)
<1>. DEFINE greater == {i \in DOMAIN s : value[s[i]] > value[x]}
<1>1. greater \in SUBSET (1 .. Len(s)) /\ greater \in SUBSET Nat
  OBVIOUS
<1>2. greater # {} => Min(greater) \in greater
  BY <1>1, LeastNatural DEF Min
<1>3. (IF greater = {} THEN Len(s) + 1 ELSE Min(greater)) \in 1 .. Len(s) + 1
  BY <1>1, <1>2
<1>. QED  BY <1>3, InsertAtType DEF vListInsert

-----------------------------------------------------------------------------
(* The operations of list.c as operations on the set of the items *)

\* Contains and ToSet speak of the same elements.
LEMMA Members ==
  ASSUME NEW S, NEW s \in Seq(S)
  PROVE  /\ \A x : Contains(s, x) <=> x \in ToSet(s)
         /\ ToSet(s) \subseteq S
         /\ s = <<>> <=> ToSet(s) = {}
<1>1. DOMAIN s = 1 .. Len(s) /\ Len(s) \in Nat /\ \A i \in 1 .. Len(s) : s[i] \in S
  OBVIOUS
<1>2. \A x : Contains(s, x) <=> x \in ToSet(s)
  BY <1>1 DEF Contains, ToSet
<1>3. ToSet(s) \subseteq S
  BY <1>1 DEF ToSet
<1>4. CASE s = <<>>
  <2>1. \A x : x \notin ToSet(s)
    BY <1>1, <1>4 DEF ToSet
  <2>. QED  BY <1>2, <1>3, <1>4, <2>1
<1>5. CASE s # <<>>
  <2>1. 1 \in DOMAIN s
    BY <1>1, <1>5
  <2>2. s[1] \in ToSet(s)
    BY <2>1 DEF ToSet
  <2>. QED  BY <1>2, <1>3, <1>5, <2>2
<1>. QED  BY <1>4, <1>5

\* The element at the position of x is x.
LEMMA PositionHolds ==
  ASSUME NEW S, NEW s \in Seq(S), NEW x, Contains(s, x)
  PROVE  PositionIn(s, x) \in 1 .. Len(s) /\ s[PositionIn(s, x)] = x
BY DEF PositionIn, Contains

\* The elements left, and their order, when one is taken out.
LEMMA WithoutElements ==
  ASSUME NEW S, NEW s \in Seq(S), NEW x, Contains(s, x)
  PROVE  \A j \in 1 .. Len(s) - 1 :
           Without(s, x)[j] = IF j < PositionIn(s, x) THEN s[j] ELSE s[j + 1]
<1>. DEFINE i == PositionIn(s, x)
            before == SubSeq(s, 1, i - 1)
            after  == SubSeq(s, i + 1, Len(s))
<1>1. i \in 1 .. Len(s) /\ Len(s) \in Nat
  BY PositionHolds
<1>. HIDE DEF i
<1>2. /\ before \in Seq(S) /\ Len(before) = i - 1
      /\ \A j \in 1 .. i - 1 : before[j] = s[j]
  BY <1>1, ElementOfSeq, SubSeqProperties
<1>3. /\ after \in Seq(S) /\ Len(after) = Len(s) - i
      /\ \A j \in 1 .. Len(s) - i : after[j] = s[i + j]
  BY <1>1, ElementOfSeq, SubSeqProperties
<1>. HIDE DEF before, after
<1>4. \A j \in 1 .. Len(before) + Len(after) :
        (before \o after)[j] = IF j <= Len(before) THEN before[j] ELSE after[j - Len(before)]
  BY <1>2, <1>3, ConcatProperties
<1>5. \A j \in 1 .. Len(s) - 1 : (before \o after)[j] = IF j < i THEN s[j] ELSE s[j + 1]
  BY <1>1, <1>2, <1>3, <1>4
<1>6. Without(s, x) = before \o after
  BY DEF Without, RemoveAt, i, before, after
<1>. QED  BY <1>5, <1>6 DEF i

\* To take x out of a sequence that holds nothing twice takes it out of its set.
LEMMA WithoutSet ==
  ASSUME NEW S, NEW s \in Seq(S), NEW x, IsInjective(s)
  PROVE  /\ Without(s, x) \in Seq(S)
         /\ ToSet(Without(s, x)) = ToSet(s) \ {x}
         /\ IsInjective(Without(s, x))
<1>. DEFINE r == Without(s, x)
<1>0. r \in Seq(S)
  BY WithoutType
<1>1. CASE ~Contains(s, x)
  BY <1>1, Members DEF Without
<1>2. CASE Contains(s, x)
  <2>. DEFINE i == PositionIn(s, x)
  <2>1. i \in 1 .. Len(s) /\ s[i] = x /\ Len(s) \in Nat
    BY <1>2, PositionHolds
  <2>2. Len(r) = Len(s) - 1 /\ \A j \in 1 .. Len(s) - 1 : r[j] = IF j < i THEN s[j] ELSE s[j + 1]
    BY <1>2, WithoutType, WithoutElements
  <2>3. DOMAIN s = 1 .. Len(s) /\ DOMAIN r = 1 .. Len(s) - 1
    BY <1>0, <2>2
  <2>. HIDE DEF i, r
  <2>4. ASSUME NEW y \in ToSet(r) PROVE y \in ToSet(s) /\ y # x
    <3>1. PICK j \in 1 .. Len(s) - 1 : y = r[j]
      BY <2>3 DEF ToSet
    <3>2. PICK k \in 1 .. Len(s) : y = s[k] /\ k # i
      BY <2>1, <2>2, <3>1
    <3>. QED  BY <2>1, <2>3, <3>2 DEF ToSet, IsInjective
  <2>5. ASSUME NEW y \in ToSet(s), y # x PROVE y \in ToSet(r)
    <3>1. PICK k \in 1 .. Len(s) : y = s[k]
      BY <2>3 DEF ToSet
    <3>2. CASE k < i
      BY <2>1, <2>2, <2>3, <3>1, <3>2 DEF ToSet
    <3>3. CASE k > i
      <4>1. k - 1 \in 1 .. Len(s) - 1 /\ r[k - 1] = s[k]
        BY <2>1, <2>2, <3>3
      <4>. QED  BY <2>3, <3>1, <4>1 DEF ToSet
    <3>. QED  BY <2>1, <2>5, <3>1, <3>2, <3>3
  <2>6. IsInjective(r)
    <3>. SUFFICES ASSUME NEW j \in 1 .. Len(s) - 1, NEW k \in 1 .. Len(s) - 1, r[j] = r[k]
                  PROVE  j = k
      BY <2>3 DEF IsInjective
    <3>. QED  BY <2>1, <2>2, <2>3, SMTT(30) DEF IsInjective
  <2>. QED  BY <1>0, <2>4, <2>5, <2>6 DEF r
<1>. QED  BY <1>0, <1>1, <1>2

\* What InsertAt makes of the elements.
LEMMA InsertAtElements ==
  ASSUME NEW S, NEW s \in Seq(S), NEW x \in S, NEW i \in 1 .. Len(s) + 1
  PROVE  /\ InsertAt(s, i, x) \in Seq(S) /\ Len(InsertAt(s, i, x)) = Len(s) + 1
         /\ \A j \in 1 .. Len(s) + 1 :
              InsertAt(s, i, x)[j] = IF j < i THEN s[j] ELSE IF j = i THEN x ELSE s[j - 1]
<1>. DEFINE before == SubSeq(s, 1, i - 1)
            after  == SubSeq(s, i, Len(s))
            r == InsertAt(s, i, x)
<1>1. /\ before \in Seq(S) /\ Len(before) = i - 1
      /\ \A j \in 1 .. i - 1 : before[j] = s[j]
  BY ElementOfSeq, SubSeqProperties
<1>2. /\ after \in Seq(S) /\ Len(after) = Len(s) - i + 1
      /\ \A j \in 1 .. Len(s) - i + 1 : after[j] = s[i + j - 1]
  BY ElementOfSeq, SubSeqProperties
<1>3. r = (before \o <<x>>) \o after
  BY DEF InsertAt
<1>. HIDE DEF before, after, r
<1>4. <<x>> \in Seq(S) /\ Len(<<x>>) = 1 /\ <<x>>[1] = x
  OBVIOUS
<1>5. /\ before \o <<x>> \in Seq(S) /\ Len(before \o <<x>>) = i
      /\ \A j \in 1 .. i : (before \o <<x>>)[j] = IF j < i THEN s[j] ELSE x
  BY <1>1, <1>4, ConcatProperties
<1>6. /\ r \in Seq(S) /\ Len(r) = Len(s) + 1
      /\ \A j \in 1 .. Len(s) + 1 :
           r[j] = IF j <= i THEN (before \o <<x>>)[j] ELSE after[j - i]
  <2>1. PICK p : p = before \o <<x>>
    OBVIOUS
  <2>2. p \in Seq(S) /\ after \in Seq(S) /\ Len(p) = i /\ Len(after) = Len(s) - i + 1
    BY <1>2, <1>5, <2>1
  <2>3. /\ p \o after \in Seq(S) /\ Len(p \o after) = Len(p) + Len(after)
        /\ \A j \in 1 .. Len(p) + Len(after) :
             (p \o after)[j] = IF j <= Len(p) THEN p[j] ELSE after[j - Len(p)]
    BY <2>2, ConcatProperties
  <2>4. Len(p) + Len(after) = Len(s) + 1
    BY <2>2
  <2>. QED  BY <1>3, <2>1, <2>2, <2>3, <2>4
<1>7. \A j \in 1 .. Len(s) + 1 :
        r[j] = IF j < i THEN s[j] ELSE IF j = i THEN x ELSE s[j - 1]
  <2>. SUFFICES ASSUME NEW j \in 1 .. Len(s) + 1
                PROVE  r[j] = IF j < i THEN s[j] ELSE IF j = i THEN x ELSE s[j - 1]
    OBVIOUS
  <2>1. CASE j <= i
    BY <1>5, <1>6, <2>1
  <2>2. CASE j > i
    <3>1. j - i \in 1 .. Len(s) - i + 1 /\ i + (j - i) - 1 = j - 1
      BY <2>2
    <3>2. r[j] = after[j - i] /\ after[j - i] = s[i + (j - i) - 1]
      BY <1>2, <1>6, <2>2, <3>1
    <3>. QED  BY <2>2, <3>1, <3>2
  <2>. QED  BY <2>1, <2>2
<1>. QED  BY <1>6, <1>7 DEF r

\* The members of the list, once, and the one put in.
LEMMA InsertAtSet ==
  ASSUME NEW S, NEW s \in Seq(S), NEW x \in S, NEW i \in 1 .. Len(s) + 1
  PROVE  /\ ToSet(InsertAt(s, i, x)) = ToSet(s) \cup {x}
         /\ IsInjective(s) /\ x \notin ToSet(s) => IsInjective(InsertAt(s, i, x))
<1>. DEFINE r == InsertAt(s, i, x)
<1>6. r \in Seq(S) /\ Len(r) = Len(s) + 1
  BY InsertAtElements
<1>7. \A j \in 1 .. Len(s) + 1 :
        r[j] = IF j < i THEN s[j] ELSE IF j = i THEN x ELSE s[j - 1]
  BY InsertAtElements
<1>. HIDE DEF r
<1>8. DOMAIN s = 1 .. Len(s) /\ DOMAIN r = 1 .. Len(s) + 1 /\ Len(s) \in Nat
  BY <1>6
<1>9. ASSUME NEW y \in ToSet(r) PROVE y \in ToSet(s) \cup {x}
  <2>1. PICK k \in 1 .. Len(s) + 1 : y = r[k]
    BY <1>8 DEF ToSet
  <2>2. CASE k < i
    <3>1. k \in 1 .. Len(s) /\ y = s[k]
      BY <1>7, <1>8, <2>1, <2>2
    <3>. QED  BY <1>8, <3>1 DEF ToSet
  <2>3. CASE k = i
    BY <1>7, <2>1, <2>3
  <2>4. CASE k > i
    <3>1. k - 1 \in 1 .. Len(s) /\ y = s[k - 1]
      BY <1>7, <1>8, <2>1, <2>4
    <3>. QED  BY <1>8, <3>1 DEF ToSet
  <2>. QED  BY <1>8, <2>2, <2>3, <2>4
<1>10. x \in ToSet(r)
  <2>1. i \in 1 .. Len(s) + 1 /\ r[i] = x
    BY <1>7
  <2>. QED  BY <1>8, <2>1 DEF ToSet
<1>11. ASSUME NEW y \in ToSet(s) PROVE y \in ToSet(r)
  <2>1. PICK k \in 1 .. Len(s) : y = s[k]
    BY <1>8 DEF ToSet
  <2>2. CASE k < i
    <3>1. k \in 1 .. Len(s) + 1 /\ r[k] = s[k]
      BY <1>7, <1>8, <2>2
    <3>. QED  BY <1>8, <2>1, <3>1 DEF ToSet
  <2>3. CASE k >= i
    <3>1. k + 1 \in 1 .. Len(s) + 1 /\ r[k + 1] = s[k]
      BY <1>7, <1>8, <2>3
    <3>. QED  BY <1>8, <2>1, <3>1 DEF ToSet
  <2>. QED  BY <2>2, <2>3
<1>12. ASSUME IsInjective(s), x \notin ToSet(s) PROVE IsInjective(r)
  <2>1. \A j \in 1 .. Len(s) : s[j] # x
    BY <1>8, <1>12 DEF ToSet
  <2>2. \A j, k \in 1 .. Len(s) : s[j] = s[k] => j = k
    BY <1>8, <1>12 DEF IsInjective
  <2>. SUFFICES ASSUME NEW j \in 1 .. Len(s) + 1, NEW k \in 1 .. Len(s) + 1, r[j] = r[k]
                PROVE  j = k
    BY <1>8 DEF IsInjective
  <2>3. CASE j = i \/ k = i
    BY <1>7, <1>8, <2>1, <2>3
  <2>4. CASE j # i /\ k # i
    <3>. DEFINE down(n) == IF n < i THEN n ELSE n - 1
    <3>1. down(j) \in 1 .. Len(s) /\ down(k) \in 1 .. Len(s)
      BY <1>8, <2>4
    <3>2. s[down(j)] = s[down(k)]
      BY <1>7, <2>4
    <3>3. down(j) = down(k)
      BY <2>2, <3>1, <3>2
    <3>. QED  BY <1>8, <2>4, <3>3
  <2>. QED  BY <2>3, <2>4
<1>. QED  BY <1>9, <1>10, <1>11, <1>12 DEF r

\* The same of Append.
LEMMA AppendSet ==
  ASSUME NEW S, NEW s \in Seq(S), NEW x \in S
  PROVE  /\ Append(s, x) \in Seq(S)
         /\ ToSet(Append(s, x)) = ToSet(s) \cup {x}
         /\ IsInjective(s) /\ x \notin ToSet(s) => IsInjective(Append(s, x))
<1>. DEFINE r == Append(s, x)
<1>1. /\ r \in Seq(S) /\ Len(r) = Len(s) + 1 /\ Len(s) \in Nat
      /\ \A i \in 1 .. Len(s) : r[i] = s[i]
      /\ r[Len(s) + 1] = x
  BY AppendProperties
<1>2. DOMAIN s = 1 .. Len(s) /\ DOMAIN r = 1 .. Len(s) + 1
  BY <1>1
<1>. HIDE DEF r
<1>3. ASSUME NEW y \in ToSet(r) PROVE y \in ToSet(s) \cup {x}
  BY <1>1, <1>2 DEF ToSet
<1>4. x \in ToSet(r)
  BY <1>1, <1>2 DEF ToSet
<1>5. ASSUME NEW y \in ToSet(s) PROVE y \in ToSet(r)
  BY <1>1, <1>2 DEF ToSet
<1>6. ASSUME IsInjective(s), x \notin ToSet(s) PROVE IsInjective(r)
  <2>1. \A j \in 1 .. Len(s) : s[j] # x
    BY <1>2, <1>6 DEF ToSet
  <2>. SUFFICES ASSUME NEW j \in 1 .. Len(s) + 1, NEW k \in 1 .. Len(s) + 1, r[j] = r[k]
                PROVE  j = k
    BY <1>2 DEF IsInjective
  <2>. QED  BY <1>1, <1>2, <1>6, <2>1 DEF IsInjective
<1>. QED  BY <1>1, <1>3, <1>4, <1>5, <1>6 DEF r

\* The first element and the rest.
LEMMA HeadAndRest ==
  ASSUME NEW S, NEW s \in Seq(S), s # <<>>
  PROVE  /\ Head(s) \in S /\ Tail(s) \in Seq(S)
         /\ ToSet(s) = {Head(s)} \cup ToSet(Tail(s))
         /\ IsInjective(s) => IsInjective(Tail(s)) /\ Head(s) \notin ToSet(Tail(s))
<1>. DEFINE r == Tail(s)
<1>1. /\ Head(s) \in S /\ r \in Seq(S) /\ Len(s) \in Nat /\ Len(r) = Len(s) - 1
      /\ Len(s) > 0 /\ Head(s) = s[1]
      /\ \A i \in 1 .. Len(s) - 1 : r[i] = s[i + 1]
  BY HeadTailProperties
<1>2. DOMAIN s = 1 .. Len(s) /\ DOMAIN r = 1 .. Len(s) - 1
  BY <1>1
<1>. HIDE DEF r
<1>3. ToSet(s) \subseteq {s[1]} \cup ToSet(r)
  <2>. SUFFICES ASSUME NEW k \in 1 .. Len(s), k # 1 PROVE s[k] \in ToSet(r)
    BY <1>2 DEF ToSet
  <2>1. k - 1 \in 1 .. Len(s) - 1 /\ r[k - 1] = s[k]
    BY <1>1
  <2>. QED  BY <1>2, <2>1 DEF ToSet
<1>4. {s[1]} \cup ToSet(r) \subseteq ToSet(s)
  BY <1>1, <1>2, SMTT(30) DEF ToSet
<1>5. ASSUME IsInjective(s) PROVE IsInjective(r) /\ s[1] \notin ToSet(r)
  <2>1. \A j, k \in 1 .. Len(s) : s[j] = s[k] => j = k
    BY <1>2, <1>5 DEF IsInjective
  <2>2. \A j \in 1 .. Len(s) - 1 : s[1] # r[j]
    BY <1>1, <2>1
  <2>3. \A j, k \in 1 .. Len(s) - 1 : r[j] = r[k] => j = k
    BY <1>1, <2>1
  <2>4. s[1] \notin ToSet(r)
    BY <1>2, <2>2 DEF ToSet
  <2>. QED  BY <1>2, <2>3, <2>4 DEF IsInjective
<1>. QED  BY <1>1, <1>3, <1>4, <1>5 DEF r

\* The empty list.
LEMMA EmptySet == ToSet(<<>>) = {} /\ IsInjective(<<>>)
BY DEF ToSet, IsInjective

\* vListInsert puts in one item, whatever the values it sorts by.
LEMMA InsertSet ==
  ASSUME NEW S, NEW s \in Seq(S), NEW x \in S, NEW value
  PROVE  /\ vListInsert(s, x, value) \in Seq(S)
         /\ ToSet(vListInsert(s, x, value)) = ToSet(s) \cup {x}
         /\ IsInjective(s) /\ x \notin ToSet(s) => IsInjective(vListInsert(s, x, value))
<1>. DEFINE greater == {i \in DOMAIN s : value[s[i]] > value[x]}
            at == IF greater = {} THEN Len(s) + 1 ELSE Min(greater)
<1>1. greater \in SUBSET (1 .. Len(s)) /\ greater \in SUBSET Nat
  OBVIOUS
<1>2. greater # {} => Min(greater) \in greater
  BY <1>1, LeastNatural DEF Min
<1>3. at \in 1 .. Len(s) + 1
  BY <1>1, <1>2
<1>4. vListInsert(s, x, value) = InsertAt(s, at, x)
  BY DEF vListInsert
<1>. HIDE DEF at
<1>. QED  BY <1>3, <1>4, InsertAtType, InsertAtSet

\* vListInsertEnd puts in one item, wherever the cursor stands.
LEMMA InsertEndSet ==
  ASSUME NEW S, NEW l \in ListOf(S), NEW x \in S
  PROVE  /\ ToSet(vListInsertEnd(l, x).items) = ToSet(l.items) \cup {x}
         /\ IsInjective(l.items) /\ x \notin ToSet(l.items)
              => IsInjective(vListInsertEnd(l, x).items)
<1>. DEFINE s == l.items
<1>0. s \in Seq(S) /\ l.pxIndex \in 0 .. Len(s)
  BY DEF ListOf
<1>1. CASE l.pxIndex = 0
  BY <1>0, <1>1, AppendSet DEF vListInsertEnd
<1>2. CASE l.pxIndex # 0
  <2>1. l.pxIndex \in 1 .. Len(s) + 1
    BY <1>0, <1>2
  <2>2. vListInsertEnd(l, x).items = InsertAt(s, l.pxIndex, x)
    BY <1>2 DEF vListInsertEnd
  <2>. QED  BY <1>0, <2>1, <2>2, InsertAtSet
<1>. QED  BY <1>1, <1>2

\* uxListRemove takes the item out.
LEMMA RemoveSet ==
  ASSUME NEW S, NEW l \in ListOf(S), NEW x, IsInjective(l.items)
  PROVE  /\ ToSet(uxListRemove(l, x).items) = ToSet(l.items) \ {x}
         /\ IsInjective(uxListRemove(l, x).items)
<1>0. l.items \in Seq(S)
  BY DEF ListOf
<1>1. CASE ~Contains(l.items, x)
  BY <1>0, <1>1, Members DEF uxListRemove
<1>2. CASE Contains(l.items, x)
  BY <1>0, <1>2, WithoutSet DEF uxListRemove
<1>. QED  BY <1>1, <1>2

-----------------------------------------------------------------------------
(* Several items unlinked at once *)

\* Induction up to n, the property being the membership in a set.
LEMMA UpTo ==
  ASSUME NEW n \in Nat, NEW P, 0 \in P, \A i \in 0 .. n - 1 : i \in P => i + 1 \in P
  PROVE  \A i \in 0 .. n : i \in P
<1>. DEFINE bad == {i \in 0 .. n : i \notin P}
<1>. SUFFICES ASSUME bad # {} PROVE FALSE
  OBVIOUS
<1>1. PICK i \in bad : \A j \in bad : i <= j
  <2>. bad \in SUBSET Nat
    OBVIOUS
  <2>. HIDE DEF bad
  <2>. QED  BY LeastNatural
<1>2. i - 1 \in 0 .. n - 1 /\ i - 1 \notin bad
  BY <1>1
<1>. QED  BY <1>1, <1>2

\* WithoutAll keeps the elements that are not in the set, each as often as it was.
LEMMA WithoutAllSet ==
  ASSUME NEW S, NEW s \in Seq(S), NEW gone
  PROVE  /\ WithoutAll(s, gone) \in Seq(S)
         /\ ToSet(WithoutAll(s, gone)) = ToSet(s) \ gone
         /\ IsInjective(s) => IsInjective(WithoutAll(s, gone))
<1>. DEFINE n == Len(s)
            Is(f, i) == f[i] = IF i = 0 THEN <<>>
                               ELSE IF s[i] \in gone THEN f[i - 1] ELSE Append(f[i - 1], s[i])
            Exists(m) == \E f : f = [i \in 0 .. m |->
                                       IF i = 0 THEN <<>>
                                       ELSE IF s[i] \in gone THEN f[i - 1]
                                                             ELSE Append(f[i - 1], s[i])]
            P == {m \in 0 .. n : Exists(m)}
<1>0. n \in Nat /\ \A i \in 1 .. n : s[i] \in S
  OBVIOUS
<1>1. 0 \in P
  <2>1. [i \in 0 .. 0 |-> <<>>] = [i \in 0 .. 0 |->
           IF i = 0 THEN <<>>
           ELSE IF s[i] \in gone THEN [j \in 0 .. 0 |-> <<>>][i - 1]
                                 ELSE Append([j \in 0 .. 0 |-> <<>>][i - 1], s[i])]
    OBVIOUS
  <2>2. Exists(0)
    BY <2>1
  <2>. QED  BY <1>0, <2>2
<1>2. ASSUME NEW m \in 0 .. n - 1, m \in P PROVE m + 1 \in P
  <2>1. PICK f : f = [i \in 0 .. m |->
                        IF i = 0 THEN <<>>
                        ELSE IF s[i] \in gone THEN f[i - 1] ELSE Append(f[i - 1], s[i])]
    BY <1>2
  <2>. DEFINE g == [i \in 0 .. m + 1 |->
                      IF i <= m THEN f[i]
                      ELSE IF s[i] \in gone THEN f[m] ELSE Append(f[m], s[i])]
  <2>2. ASSUME NEW i \in 0 .. m + 1
        PROVE  g[i] = IF i = 0 THEN <<>>
                      ELSE IF s[i] \in gone THEN g[i - 1] ELSE Append(g[i - 1], s[i])
    <3>1. CASE i <= m
      <4>1. g[i] = f[i] /\ (i # 0 => g[i - 1] = f[i - 1])
        BY <1>0, <3>1
      <4>2. i \in 0 .. m
        BY <1>0, <3>1
      <4>3. f[i] = IF i = 0 THEN <<>>
                   ELSE IF s[i] \in gone THEN f[i - 1] ELSE Append(f[i - 1], s[i])
        BY <2>1, <4>2
      <4>. QED  BY <4>1, <4>3
    <3>2. CASE i = m + 1
      <4>1. i # 0 /\ i - 1 = m /\ ~(i <= m) /\ m \in 0 .. m + 1 /\ m <= m
        BY <1>0, <3>2
      <4>2. g[i - 1] = f[m]
        BY <4>1
      <4>. QED  BY <4>1, <4>2
    <3>. QED  BY <1>0, <3>1, <3>2
  <2>3. g = [i \in 0 .. m + 1 |->
               IF i = 0 THEN <<>>
               ELSE IF s[i] \in gone THEN g[i - 1] ELSE Append(g[i - 1], s[i])]
    BY <2>2
  <2>4. Exists(m + 1)
    <3>. HIDE DEF g
    <3>. QED  BY <2>3
  <2>. QED  BY <1>0, <2>4
<1>3. n \in P
  <2>. HIDE DEF P
  <2>1. \A i \in 0 .. n - 1 : i \in P => i + 1 \in P
    BY <1>2
  <2>2. \A i \in 0 .. n : i \in P
    <3>. HIDE DEF n
    <3>. QED  BY <1>0, <1>1, <2>1, UpTo, SMTT(30)
  <2>. QED  BY <1>0, <2>2
<1>. DEFINE kept == CHOOSE f : f = [i \in 0 .. n |->
                                      IF i = 0 THEN <<>>
                                      ELSE IF s[i] \in gone THEN f[i - 1]
                                                            ELSE Append(f[i - 1], s[i])]
<1>4. kept = [i \in 0 .. n |-> IF i = 0 THEN <<>>
                               ELSE IF s[i] \in gone THEN kept[i - 1]
                                                     ELSE Append(kept[i - 1], s[i])]
  <2>1. Exists(n)
    BY <1>3
  <2>. QED  BY <2>1, Zenon
<1>5. WithoutAll(s, gone) = kept[n]
  BY DEF WithoutAll
<1>. HIDE DEF kept, P
<1>. DEFINE Q == {i \in 0 .. n :
                    /\ kept[i] \in Seq(S)
                    /\ ToSet(kept[i]) = {s[k] : k \in 1 .. i} \ gone
                    /\ IsInjective(s) => IsInjective(kept[i])}
<1>6. 0 \in Q
  BY <1>0, <1>4, EmptySet
<1>7. ASSUME NEW i \in 0 .. n - 1, i \in Q PROVE i + 1 \in Q
  <2>. DEFINE x == s[i + 1]
  <2>1. x \in S /\ i + 1 \in 1 .. n
    BY <1>0
  <2>2. kept[i + 1] = IF x \in gone THEN kept[i] ELSE Append(kept[i], x)
    <3>1. i + 1 \in 0 .. n /\ i + 1 # 0 /\ (i + 1) - 1 = i
      BY <1>0
    <3>. QED  BY <1>4, <3>1
  <2>3. {s[k] : k \in 1 .. i + 1} = {s[k] : k \in 1 .. i} \cup {x}
    BY <1>0
  <2>4. IsInjective(s) => x \notin ToSet(kept[i])
    <3>1. ASSUME IsInjective(s), x \in ToSet(kept[i]) PROVE FALSE
      <4>1. PICK k \in 1 .. i : x = s[k]
        BY <1>7, <3>1
      <4>. QED  BY <1>0, <3>1, <4>1 DEF IsInjective
    <3>. QED  BY <3>1
  <2>5. kept[i] \in Seq(S) /\ ToSet(kept[i]) = {s[k] : k \in 1 .. i} \ gone
        /\ (IsInjective(s) => IsInjective(kept[i]))
    BY <1>7
  <2>6. CASE x \in gone
    <3>1. kept[i + 1] = kept[i]
      BY <2>2, <2>6
    <3>2. {s[k] : k \in 1 .. i + 1} \ gone = {s[k] : k \in 1 .. i} \ gone
      BY <2>3, <2>6
    <3>. QED  BY <1>0, <2>5, <3>1, <3>2
  <2>7. CASE x \notin gone
    <3>1. kept[i + 1] = Append(kept[i], x)
      BY <2>2, <2>7
    <3>2. {s[k] : k \in 1 .. i + 1} \ gone = ({s[k] : k \in 1 .. i} \ gone) \cup {x}
      BY <2>3, <2>7
    <3>3. /\ kept[i + 1] \in Seq(S)
          /\ ToSet(kept[i + 1]) = ToSet(kept[i]) \cup {x}
          /\ IsInjective(s) => IsInjective(kept[i + 1])
      <4>. HIDE DEF x
      <4>. QED  BY <2>1, <2>4, <2>5, <3>1, AppendSet, AppendProperties
    <3>. QED  BY <1>0, <2>5, <3>2, <3>3
  <2>. QED  BY <2>6, <2>7
<1>8. n \in Q
  <2>. HIDE DEF Q
  <2>1. \A i \in 0 .. n - 1 : i \in Q => i + 1 \in Q
    BY <1>7
  <2>2. \A i \in 0 .. n : i \in Q
    <3>. HIDE DEF n
    <3>. QED  BY <1>0, <1>6, <2>1, UpTo, SMTT(30)
  <2>. QED  BY <1>0, <2>2
<1>9. ToSet(s) = {s[k] : k \in 1 .. n}
  BY <1>0 DEF ToSet
<1>. QED  BY <1>5, <1>8, <1>9

\* A list that holds nothing twice is as long as the set of its elements is large.
LEMMA ListCardinality ==
  ASSUME NEW S, NEW s \in Seq(S), IsInjective(s)
  PROVE  IsFiniteSet(ToSet(s)) /\ Cardinality(ToSet(s)) = Len(s)
<1>1. DOMAIN s = 1 .. Len(s) /\ Len(s) \in Nat
  OBVIOUS
<1>2. s \in Surjection(1 .. Len(s), ToSet(s))
  BY <1>1 DEF Surjection, ToSet
<1>3. s \in Injection(1 .. Len(s), ToSet(s))
  BY <1>1, <1>2 DEF Injection, Surjection
<1>4. IsFiniteSet(1 .. Len(s)) /\ Cardinality(1 .. Len(s)) = Len(s)
  <2>1. PICK n \in Nat : n = Len(s)
    BY <1>1
  <2>2. IsFiniteSet(1 .. n) /\ Cardinality(1 .. n) = IF 1 > n THEN 0 ELSE n - 1 + 1
    BY FS_Interval
  <2>3. IsFiniteSet(1 .. n) /\ Cardinality(1 .. n) = n
    BY <2>2
  <2>. QED  BY <2>1, <2>3
<1>. QED  BY <1>2, <1>3, <1>4, FS_Surjection

\* The first n elements of a list, and the rest of it.
LEMMA FirstAndRest ==
  ASSUME NEW S, NEW s \in Seq(S), IsInjective(s), NEW n \in 0 .. Len(s)
  PROVE  LET first == SubSeq(s, 1, n)
             rest  == SubSeq(s, n + 1, Len(s))
         IN  /\ first \in Seq(S) /\ Len(first) = n /\ IsInjective(first)
             /\ rest \in Seq(S) /\ Len(rest) = Len(s) - n /\ IsInjective(rest)
             /\ ToSet(first) \subseteq ToSet(s)
             /\ ToSet(rest) = ToSet(s) \ ToSet(first)
<1>. DEFINE first == SubSeq(s, 1, n)
            rest  == SubSeq(s, n + 1, Len(s))
<1>0. Len(s) \in Nat /\ DOMAIN s = 1 .. Len(s) /\ \A i \in 1 .. Len(s) : s[i] \in S
  OBVIOUS
<1>1. first \in Seq(S) /\ Len(first) = n /\ \A i \in 1 .. n : first[i] = s[i]
  BY <1>0, SubSeqProperties
<1>2. /\ rest \in Seq(S) /\ Len(rest) = Len(s) - n
      /\ \A i \in 1 .. Len(s) - n : rest[i] = s[n + i]
  <2>1. /\ n + 1 \in Int /\ \A i \in n + 1 .. Len(s) : s[i] \in S
    BY <1>0
  <2>2. /\ rest \in Seq(S) /\ Len(rest) = IF n + 1 <= Len(s) THEN Len(s) - (n + 1) + 1 ELSE 0
        /\ \A i \in 1 .. Len(s) - (n + 1) + 1 : rest[i] = s[(n + 1) + i - 1]
    BY <1>0, <2>1, SubSeqProperties
  <2>. HIDE DEF rest
  <2>3. ASSUME NEW i \in 1 .. Len(s) - n PROVE rest[i] = s[n + i]
    <3>1. i \in 1 .. Len(s) - (n + 1) + 1 /\ (n + 1) + i - 1 = n + i
      BY <1>0
    <3>2. rest[i] = s[(n + 1) + i - 1]
      BY <2>2, <3>1
    <3>. QED  BY <3>1, <3>2
  <2>4. Len(rest) = Len(s) - n
    BY <1>0, <2>2
  <2>. QED  BY <2>2, <2>3, <2>4
<1>. HIDE DEF first, rest
<1>3. DOMAIN first = 1 .. n /\ DOMAIN rest = 1 .. Len(s) - n
  BY <1>0, <1>1, <1>2
<1>4. ToSet(first) = {s[i] : i \in 1 .. n}
  BY <1>1, <1>3 DEF ToSet
<1>5. ToSet(rest) = {s[i] : i \in n + 1 .. Len(s)}
  <2>1. ASSUME NEW i \in n + 1 .. Len(s) PROVE s[i] \in ToSet(rest)
    <3>1. i - n \in 1 .. Len(s) - n /\ n + (i - n) = i
      BY <1>0
    <3>2. rest[i - n] = s[i]
      BY <1>2, <3>1
    <3>. QED  BY <1>3, <3>1, <3>2 DEF ToSet
  <2>2. ASSUME NEW i \in 1 .. Len(s) - n PROVE rest[i] = s[n + i] /\ n + i \in n + 1 .. Len(s)
    BY <1>0, <1>2
  <2>3. ToSet(rest) = {rest[i] : i \in 1 .. Len(s) - n}
    BY <1>3 DEF ToSet
  <2>. QED  BY <2>1, <2>2, <2>3, SMTT(30)
<1>6. IsInjective(first) /\ IsInjective(rest)
  <2>1. IsInjective(first)
    BY <1>0, <1>1, <1>3 DEF IsInjective
  <2>2. ASSUME NEW i \in 1 .. Len(s) - n, NEW j \in 1 .. Len(s) - n, rest[i] = rest[j]
        PROVE  i = j
    <3>1. s[n + i] = s[n + j] /\ n + i \in 1 .. Len(s) /\ n + j \in 1 .. Len(s)
      BY <1>0, <1>2, <2>2
    <3>2. n + i = n + j
      BY <1>0, <3>1 DEF IsInjective
    <3>. QED  BY <3>2
  <2>. QED  BY <1>3, <2>1, <2>2 DEF IsInjective
<1>7. \A i \in 1 .. n, j \in n + 1 .. Len(s) : s[i] # s[j]
  BY <1>0 DEF IsInjective
<1>8. ToSet(s) = {s[i] : i \in 1 .. Len(s)}
  BY <1>0 DEF ToSet
<1>9. ToSet(rest) = ToSet(s) \ ToSet(first) /\ ToSet(first) \subseteq ToSet(s)
  BY <1>0, <1>4, <1>5, <1>7, <1>8
<1>. QED  BY <1>1, <1>2, <1>6, <1>9 DEF first, rest
=============================================================================
