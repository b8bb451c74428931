---------------------------- MODULE PagingProofs ----------------------------
(***************************************************************************)
(* Whatever is written between two pages, a caller of getPageCondition     *)
(* reads in order, no row twice, and skips no row that stays: for every    *)
(* number of fields, every set of values and every page size.              *)
(***************************************************************************)
EXTENDS Paging, SequenceTheorems, TLAPS

LastSeen == seen[Len(seen)]

(* The token is the last row the caller was given.                         *)
TokenIsLast ==
  /\ seen = <<>> => pagingState = <<>>
  /\ seen # <<>> => pagingState = TokenOf(LastSeen)

(* A stable row has been seen, or lies beyond the token.                   *)
NothingMissed ==
  \A r \in stable :
    \/ \E i \in DOMAIN seen : seen[i] = r
    \/ ~finished /\ (seen = <<>> \/ Before(LastSeen, r))

IInv == TypeOK /\ TokenIsLast /\ SeenInOrder /\ NothingMissed

-----------------------------------------------------------------------------
(* The order of the rows is transitive: the smaller of the two fields that *)
(* decide decides.                                                         *)
LEMMA BeforeTransitive ==
  ASSUME NEW a \in Rows, NEW b \in Rows, NEW c \in Rows, Before(a, b), Before(b, c)
  PROVE  Before(a, c)
<1>0. \A k \in Fields : a[k] \in Int /\ b[k] \in Int /\ c[k] \in Int
  BY ValuesAssumption DEF Rows
<1>1. PICK k \in Fields : /\ \A j \in 1..(k - 1) : a[j] = b[j]
                          /\ IF sortDirection = "ASC" THEN a[k] < b[k] ELSE a[k] > b[k]
  BY DEF Before
<1>2. PICK l \in Fields : /\ \A j \in 1..(l - 1) : b[j] = c[j]
                          /\ IF sortDirection = "ASC" THEN b[l] < c[l] ELSE b[l] > c[l]
  BY DEF Before
<1>3. k \in Int /\ l \in Int
  BY DEF Fields
<1>4. CASE k <= l
  <2>1. \A j \in 1..(k - 1) : a[j] = c[j]
    BY <1>1, <1>2, <1>3, <1>4
  <2>2. b[k] = c[k] \/ k = l
    BY <1>2, <1>3, <1>4 DEF Fields
  <2>3. IF sortDirection = "ASC" THEN a[k] < c[k] ELSE a[k] > c[k]
    BY <1>0, <1>1, <1>2, <2>2
  <2>4. QED
    BY <2>1, <2>3 DEF Before
<1>5. CASE l < k
  <2>1. \A j \in 1..(l - 1) : a[j] = c[j]
    BY <1>1, <1>2, <1>3, <1>5
  <2>2. a[l] = b[l]
    BY <1>1, <1>3, <1>5 DEF Fields
  <2>3. IF sortDirection = "ASC" THEN a[l] < c[l] ELSE a[l] > c[l]
    BY <1>2, <2>2
  <2>4. QED
    BY <2>1, <2>3 DEF Before
<1>6. QED
  BY <1>3, <1>4, <1>5

(* No row is before itself: a caller that is given rows in order is given  *)
(* none of them twice.                                                     *)
LEMMA BeforeIrreflexive ==
  ASSUME NEW a \in Rows
  PROVE  ~Before(a, a)
<1>1. \A k \in Fields : a[k] \in Int
  BY ValuesAssumption DEF Rows
<1>2. QED
  BY <1>1 DEF Before

(* The condition holds of the rows beyond the row of the token.            *)
LEMMA ConditionLemma ==
  ASSUME TypeOK, NEW s \in Rows, NEW r \in Rows, pagingState = TokenOf(s)
  PROVE  getPageCondition(r) <=> Before(s, r)
<1>1. DOMAIN pagingState = Fields /\ \A k \in Fields : extractor[pagingState[k]] = s[k]
  BY FormatAssumption DEF TokenOf, Rows
<1>2. \A k \in Fields : \A j \in 1..(k - 1) : j \in Fields
  BY WidthAssumption DEF Fields
<1>3. \A k \in Fields : s[k] \in Int /\ r[k] \in Int
  BY ValuesAssumption DEF Rows
<1>4. \A k \in Fields :
        Beyond(r, k) <=> IF sortDirection = "ASC" THEN s[k] < r[k] ELSE s[k] > r[k]
  BY <1>1, <1>3 DEF Beyond, lt, gt, TypeOK, SortDirection
<1>5. \A k \in Fields : (\A j \in 1..(k - 1) : eq(r, j)) <=> \A j \in 1..(k - 1) : s[j] = r[j]
  BY <1>1, <1>2 DEF eq
<1>6. QED
  BY <1>1, <1>4, <1>5 DEF getPageCondition, Before

LEMMA PagingInit == Init => IInv
<1> SUFFICES ASSUME Init PROVE IInv
  OBVIOUS
<1>1. <<>> \in Seq(Rows) /\ DOMAIN seen = {}
  BY DEF Init
<1>2. TypeOK
  <2>1. table \subseteq Rows /\ stable \subseteq table /\ sortDirection \in SortDirection
    BY DEF Init
  <2>2. writes \in 0..MaxWrites
    BY LimitAssumption DEF Init
  <2>3. pagingState = <<>> /\ seen \in Seq(Rows) /\ finished \in BOOLEAN
    BY <1>1 DEF Init
  <2>4. QED
    BY <2>1, <2>2, <2>3 DEF TypeOK
<1>3. TokenIsLast /\ SeenInOrder /\ NothingMissed
  BY <1>1 DEF Init, TokenIsLast, SeenInOrder, NothingMissed
<1>4. QED
  BY <1>2, <1>3 DEF IInv

(* One page more.                                                          *)
LEMMA ReadLemma ==
  ASSUME IInv, ReadPage
  PROVE  IInv'
<1> USE DEF IInv
<1>1. PICK n \in 0..PageSize : \E page \in [1..n -> Matching] :
         /\ IsPage(page)
         /\ seen' = seen \o page
         /\ pagingState' = IF n = 0 THEN pagingState ELSE TokenOf(page[n])
         /\ finished' = (n < PageSize)
  BY DEF ReadPage
<1>2. PICK page \in [1..n -> Matching] :
         /\ IsPage(page)
         /\ seen' = seen \o page
         /\ pagingState' = IF n = 0 THEN pagingState ELSE TokenOf(page[n])
         /\ finished' = (n < PageSize)
  BY <1>1
<1>3. UNCHANGED <<table, sortDirection, stable, writes>> /\ ~finished
  BY DEF ReadPage
<1>4. Matching \subseteq Rows
  BY DEF Matching, TypeOK
<1>5. n \in Nat /\ page \in Seq(Rows) /\ Len(page) = n /\ DOMAIN page = 1..n
  <2>1. n \in Nat
    BY LimitAssumption
  <2>2. page \in [1..n -> Rows]
    BY <1>2, <1>4
  <2>3. page \in Seq(Rows)
    BY <2>1, <2>2
  <2>4. QED
    BY <2>1, <2>2, <2>3
<1>6. seen \in Seq(Rows) /\ Len(seen) \in Nat /\ DOMAIN seen = 1..Len(seen)
  BY DEF TypeOK
<1>7. /\ seen' \in Seq(Rows) /\ Len(seen') = Len(seen) + n /\ DOMAIN seen' = 1..(Len(seen) + n)
      /\ \A i \in 1..Len(seen) : seen'[i] = seen[i]
      /\ \A i \in 1..n : seen'[Len(seen) + i] = page[i]
  <2>1. seen' = seen \o page
    BY <1>2
  <2>2. /\ seen \o page \in Seq(Rows) /\ Len(seen \o page) = Len(seen) + Len(page)
        /\ \A i \in 1..(Len(seen) + Len(page)) :
             (seen \o page)[i] = IF i <= Len(seen) THEN seen[i] ELSE page[i - Len(seen)]
    BY <1>5, <1>6, ConcatProperties
  <2>3. DOMAIN seen' = 1..(Len(seen) + n)
    BY <1>5, <2>1, <2>2
  <2>4. QED
    BY <1>5, <1>6, <2>1, <2>2, <2>3
<1>8. \A i \in 1..Len(seen) : seen[i] \in Rows
  BY <1>6
<1>9. \A i \in 1..n : page[i] \in Matching /\ page[i] \in Rows
  BY <1>2, <1>4
<1>10. seen # <<>> => /\ Len(seen) >= 1 /\ LastSeen \in Rows
                      /\ \A r \in Rows : getPageCondition(r) <=> Before(LastSeen, r)
                      /\ pagingState # <<>>
  <2>1. ASSUME seen # <<>> PROVE Len(seen) >= 1 /\ LastSeen \in Rows
    BY <1>6, <2>1 DEF LastSeen
  <2>2. ASSUME seen # <<>> PROVE pagingState = TokenOf(LastSeen)
    BY <2>2 DEF TokenIsLast
  <2>3. ASSUME seen # <<>>, pagingState = <<>> PROVE FALSE
    <3>1. DOMAIN pagingState = Fields /\ 1 \in Fields
      BY <2>2, <2>3, WidthAssumption DEF TokenOf, Fields
    <3>2. QED
      BY <2>3, <3>1
  <2>4. QED
    BY <2>1, <2>2, <2>3, ConditionLemma
<1>11. ASSUME seen # <<>>, NEW r \in Matching PROVE Before(LastSeen, r)
  BY <1>4, <1>10, <1>11 DEF Matching
<1>12. \A r, s : Before(r, s)' <=> Before(r, s)
  BY <1>3 DEF Before
<1>13. TypeOK'
  <2>1. pagingState' \in {<<>>} \cup [Fields -> Texts]
    <3>1. CASE n = 0
      BY <1>2, <3>1 DEF TypeOK
    <3>2. CASE n # 0
      <4>1. page[n] \in Rows /\ pagingState' = TokenOf(page[n])
        BY <1>2, <1>5, <1>9, <3>2
      <4>2. QED
        BY <4>1, FormatAssumption DEF TokenOf, Rows
    <3>3. QED
      BY <3>1, <3>2
  <2>2. QED
    BY <1>2, <1>3, <1>7, <2>1 DEF TypeOK
<1>14. TokenIsLast'
  <2>1. CASE n = 0
    <3>1. seen' = seen
      BY <1>5, <1>6, <1>7, <2>1
    <3>2. QED
      BY <1>2, <2>1, <3>1 DEF TokenIsLast, LastSeen, TokenOf
  <2>2. CASE n # 0
    <3>1. seen' # <<>> /\ seen'[Len(seen')] = page[n]
      BY <1>5, <1>6, <1>7, <2>2
    <3>2. QED
      BY <1>2, <2>2, <3>1 DEF TokenIsLast, LastSeen, TokenOf
  <2>3. QED
    BY <2>1, <2>2
<1>15. SeenInOrder'
  <2>1. ASSUME NEW i \in 1..(Len(seen) + n), NEW j \in 1..(Len(seen) + n), i < j
        PROVE  Before(seen'[i], seen'[j])
    <3>1. CASE j <= Len(seen)
      BY <1>5, <1>6, <1>7, <2>1, <3>1 DEF SeenInOrder
    <3>2. CASE i > Len(seen)
      <4>1. PICK k \in 1..n, l \in 1..n : i = Len(seen) + k /\ j = Len(seen) + l /\ k < l
        <5>1. i - Len(seen) \in 1..n /\ j - Len(seen) \in 1..n
          BY <1>5, <1>6, <2>1, <3>2
        <5>2. QED
          BY <1>5, <1>6, <2>1, <5>1
      <4>2. QED
        BY <1>2, <1>5, <1>7, <4>1 DEF IsPage
    <3>3. CASE i <= Len(seen) /\ j > Len(seen)
      <4>1. PICK l \in 1..n : j = Len(seen) + l
        <5>1. j - Len(seen) \in 1..n
          BY <1>5, <1>6, <2>1, <3>3
        <5>2. QED
          BY <1>5, <1>6, <5>1
      <4>2. seen'[j] = page[l] /\ seen'[i] = seen[i] /\ seen # <<>>
        BY <1>5, <1>6, <1>7, <2>1, <3>3, <4>1
      <4>3. Before(LastSeen, page[l])
        BY <1>9, <1>11, <4>2
      <4>4. CASE i = Len(seen)
        BY <4>2, <4>3, <4>4 DEF LastSeen
      <4>5. CASE i # Len(seen)
        <5>1. Before(seen[i], LastSeen)
          <6>1. i \in DOMAIN seen /\ Len(seen) \in DOMAIN seen /\ i < Len(seen)
            <7>1. Len(seen) \in Nat /\ n \in Nat
              BY <1>5, <1>6
            <7>2. i \in Nat /\ 1 <= i /\ i <= Len(seen) /\ i # Len(seen)
              BY <2>1, <3>3, <4>5, <7>1
            <7>3. i \in 1..Len(seen) /\ Len(seen) \in 1..Len(seen) /\ i < Len(seen)
              BY <7>1, <7>2
            <7>4. QED
              BY <1>6, <7>3
          <6>2. QED
            BY <6>1 DEF SeenInOrder, LastSeen
        <5>2. seen[i] \in Rows /\ LastSeen \in Rows /\ page[l] \in Rows
          BY <1>6, <1>8, <1>9, <1>10, <2>1, <3>3, <4>2
        <5>3. QED
          BY <4>2, <4>3, <5>1, <5>2, BeforeTransitive
      <4>6. QED
        BY <4>4, <4>5
    <3>4. QED
      BY <1>5, <1>6, <2>1, <3>1, <3>2, <3>3
  <2>2. QED
    BY <1>7, <1>12, <2>1 DEF SeenInOrder
<1>16. NothingMissed'
  <2>1. ASSUME NEW r \in stable
        PROVE  \/ \E i \in DOMAIN seen' : seen'[i] = r
               \/ ~finished' /\ (seen' = <<>> \/ Before(seen'[Len(seen')], r))
    <3>1. CASE \E i \in DOMAIN seen : seen[i] = r
      BY <1>5, <1>6, <1>7, <3>1
    <3>2. CASE seen = <<>> \/ Before(LastSeen, r)
      <4>1. r \in Matching
        BY <1>10, <3>2 DEF Matching, TypeOK, TokenIsLast
      <4>2. CASE \E i \in 1..n : page[i] = r
        <5>1. PICK i \in 1..n : page[i] = r
          BY <4>2
        <5>2. seen'[Len(seen) + i] = r /\ Len(seen) + i \in DOMAIN seen'
          BY <1>5, <1>6, <1>7, <5>1
        <5>3. QED
          BY <5>2
      <4>3. CASE ~\E i \in 1..n : page[i] = r
        <5>1. n = PageSize /\ Before(page[n], r)
          BY <1>2, <1>5, <4>1, <4>3 DEF IsPage
        <5>2. ~finished' /\ n # 0
          <6>1. PageSize \in Nat /\ n # 0 /\ ~(n < PageSize)
            BY <5>1, LimitAssumption
          <6>2. QED
            BY <1>2, <6>1
        <5>3. seen'[Len(seen')] = page[n]
          BY <1>5, <1>6, <1>7, <5>2
        <5>4. QED
          BY <5>1, <5>2, <5>3
      <4>4. QED
        BY <4>2, <4>3
    <3>3. QED
      BY <3>1, <3>2 DEF NothingMissed
  <2>2. QED
    BY <1>3, <1>12, <2>1 DEF NothingMissed, LastSeen
<1>17. QED
  BY <1>13, <1>14, <1>15, <1>16

LEMMA PagingStep == IInv /\ [Next]_vars => IInv'
<1> SUFFICES ASSUME IInv, [Next]_vars PROVE IInv'
  OBVIOUS
<1>1. CASE ReadPage
  BY <1>1, ReadLemma
<1>2. ASSUME NEW row \in Rows, Insert(row) \/ Delete(row) PROVE IInv'
  <2>1. UNCHANGED <<sortDirection, pagingState, seen, finished>> /\ stable' \subseteq stable
    BY <1>2 DEF Insert, Delete
  <2>2. TypeOK'
    BY <1>2, LimitAssumption DEF Insert, Delete, IInv, TypeOK
  <2>3. TokenIsLast' /\ SeenInOrder' /\ NothingMissed'
    BY <2>1 DEF IInv, TokenIsLast, SeenInOrder, NothingMissed, LastSeen, TokenOf, Before
  <2>4. QED
    BY <2>2, <2>3 DEF IInv
<1>3. CASE UNCHANGED vars
  BY <1>3 DEF vars, IInv, TypeOK, TokenIsLast, SeenInOrder, NothingMissed, LastSeen, TokenOf, Before
<1>4. QED
  BY <1>1, <1>2, <1>3 DEF Next

LEMMA PagingInvariance == Spec => []IInv
  BY PagingInit, PagingStep, PTL DEF Spec

(* Inserts and deletes between two pages do not make a caller read a row   *)
(* twice, or out of order.                                                 *)
THEOREM InOrder == Spec => []SeenInOrder
<1>1. IInv => SeenInOrder
  BY DEF IInv
<1>2. QED
  BY PagingInvariance, <1>1, PTL

(* A caller that has read its last page has read every row that was there  *)
(* all along.                                                              *)
THEOREM Complete == Spec => []NoRowSkipped
<1>1. IInv => NoRowSkipped
  BY DEF IInv, NothingMissed, NoRowSkipped
<1>2. QED
  BY PagingInvariance, <1>1, PTL

(* The state keeps its types.                                              *)
THEOREM TypeCorrect == Spec => []TypeOK
<1>1. IInv => TypeOK
  BY DEF IInv
<1>2. QED
  BY PagingInvariance, <1>1, PTL
=============================================================================
