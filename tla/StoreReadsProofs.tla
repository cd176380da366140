--------------------------- MODULE StoreReadsProofs ---------------------------
(***************************************************************************)
(* Proofs about StoreReads, for any readers, sources and page sizes, over  *)
(* the store of IngestStore with any writers, batches and finite set of    *)
(* keys.                                                                   *)
(***************************************************************************)
EXTENDS StoreReads, IngestStoreProofs, FunctionTheorems

---------------------------------------------------------------------------
(* Finite sets of numbers.                                                 *)

LEMMA Least ==
    ASSUME NEW A \in SUBSET Nat, IsFiniteSet(A), A # {}
    PROVE  \E i \in A : \A j \in A : i <= j
<1> DEFINE Below(i) == {j \in A : j <= i}
           T == {Below(i) : i \in A}
<1>1. IsWellFoundedOn(StrictSubsetOrdering(A), FiniteSubsetsOf(A))
  BY FS_StrictSubsetOrderingWellFounded
<1>2. T \subseteq FiniteSubsetsOf(A) /\ T # {}
  <2>1. T \subseteq SUBSET A /\ T # {}
    OBVIOUS
  <2> QED
    BY <2>1, FS_FiniteSubsetsOfFinite
<1>3. PICK x \in T : \A y \in T : <<y, x>> \notin StrictSubsetOrdering(A)
  BY <1>1, <1>2, WFMin
<1>4. PICK i \in A : x = Below(i)
  OBVIOUS
<1>5. ASSUME NEW j \in A, j < i PROVE FALSE
  <2>1. Below(j) \subseteq Below(i) /\ i \notin Below(j) /\ i \in Below(i)
    <3>1. i \in Nat /\ j \in Nat /\ \A m \in A : m \in Nat
      OBVIOUS
    <3>2. \A m \in Below(j) : m \in Below(i)
      BY <1>5, <3>1
    <3>3. i \in Below(i) /\ i \notin Below(j)
      BY <1>5, <3>1
    <3> HIDE DEF Below
    <3> QED
      BY <3>2, <3>3
  <2>2. <<Below(j), Below(i)>> \in StrictSubsetOrdering(A)
    BY <2>1 DEF StrictSubsetOrdering
  <2> QED
    BY <1>3, <1>4, <2>2
<1> QED
  BY <1>5

LEMMA Greatest ==
    ASSUME NEW A \in SUBSET Nat, IsFiniteSet(A), A # {}
    PROVE  \E i \in A : \A j \in A : j <= i
<1> DEFINE Above(i) == {j \in A : i <= j}
           T == {Above(i) : i \in A}
<1>1. IsWellFoundedOn(StrictSubsetOrdering(A), FiniteSubsetsOf(A))
  BY FS_StrictSubsetOrderingWellFounded
<1>2. T \subseteq FiniteSubsetsOf(A) /\ T # {}
  <2>1. T \subseteq SUBSET A /\ T # {}
    OBVIOUS
  <2> QED
    BY <2>1, FS_FiniteSubsetsOfFinite
<1>3. PICK x \in T : \A y \in T : <<y, x>> \notin StrictSubsetOrdering(A)
  BY <1>1, <1>2, WFMin
<1>4. PICK i \in A : x = Above(i)
  OBVIOUS
<1>5. ASSUME NEW j \in A, i < j PROVE FALSE
  <2>1. Above(j) \subseteq Above(i) /\ i \notin Above(j) /\ i \in Above(i)
    <3>1. i \in Nat /\ j \in Nat /\ \A m \in A : m \in Nat
      OBVIOUS
    <3>2. \A m \in Above(j) : m \in Above(i)
      BY <1>5, <3>1
    <3>3. i \in Above(i) /\ i \notin Above(j)
      BY <1>5, <3>1
    <3> HIDE DEF Above
    <3> QED
      BY <3>2, <3>3
  <2>2. <<Above(j), Above(i)>> \in StrictSubsetOrdering(A)
    BY <2>1 DEF StrictSubsetOrdering
  <2> QED
    BY <1>3, <1>4, <2>2
<1> QED
  BY <1>5

---------------------------------------------------------------------------
(* A keyset page.                                                          *)

(* A page holds ids after the cursor, without gaps, and a page that is not  *)
(* filled holds all of them.                                                *)
LEMMA PageOfIds ==
    ASSUME NEW ids \in SUBSET Nat, IsFiniteSet(ids), NEW after \in Nat, NEW cap \in Nat \ {0}
    PROVE  LET page == FirstAfter(ids, after, cap)
           IN  /\ page \subseteq ids
               /\ IsFiniteSet(page) /\ Cardinality(page) \in Nat
               /\ \A i \in page : i > after
               /\ \A i \in page, j \in ids : j > after /\ j <= i => j \in page
               /\ Cardinality(page) # cap => \A i \in ids : i > after => i \in page
               /\ Cardinality(page) = cap => page # {}
<1> DEFINE page == FirstAfter(ids, after, cap)
           UpTo(i) == {j \in ids : j > after /\ j <= i}
<1>1. page = {i \in ids : i > after /\ Cardinality(UpTo(i)) <= cap}
  BY DEF FirstAfter
<1>2. page \subseteq ids /\ \A i \in page : i > after
  BY <1>1
<1>3. IsFiniteSet(page) /\ Cardinality(page) \in Nat
  BY <1>2, FS_Subset, FS_CardinalityType
<1>4. \A i \in ids : IsFiniteSet(UpTo(i)) /\ Cardinality(UpTo(i)) \in Nat
  <2> SUFFICES ASSUME NEW i \in ids PROVE IsFiniteSet(UpTo(i)) /\ Cardinality(UpTo(i)) \in Nat
    OBVIOUS
  <2>1. UpTo(i) \in SUBSET ids
    OBVIOUS
  <2> QED
    BY <2>1, FS_Subset, FS_CardinalityType
<1>5. ASSUME NEW i \in page, NEW j \in ids, j > after, j <= i PROVE j \in page
  <2>1. UpTo(j) \in SUBSET UpTo(i)
    <3>1. i \in Nat /\ j \in Nat /\ \A m \in ids : m \in Nat
      BY <1>2
    <3>2. \A m \in UpTo(j) : m \in UpTo(i)
      BY <1>5, <3>1
    <3> HIDE DEF UpTo
    <3> QED
      BY <3>2
  <2>2. Cardinality(UpTo(j)) <= Cardinality(UpTo(i))
    BY <1>2, <1>4, <2>1, FS_Subset
  <2>3. Cardinality(UpTo(i)) <= cap
    BY <1>1
  <2> HIDE DEF UpTo
  <2>4. Cardinality(UpTo(j)) <= cap
    <3>1. Cardinality(UpTo(i)) \in Nat /\ Cardinality(UpTo(j)) \in Nat
      BY <1>2, <1>4
    <3> QED
      BY <3>1, <2>2, <2>3
  <2> QED
    BY <1>1, <1>5, <2>4
<1>6. Cardinality(page) <= cap
  <2>1. CASE page = {}
    BY <2>1, FS_EmptySet
  <2>2. CASE page # {}
    <3>1. PICK m \in page : \A j \in page : j <= m
      BY <1>2, <1>3, <2>2, Greatest
    <3>2. page \in SUBSET UpTo(m)
      BY <1>2, <3>1
    <3>3. Cardinality(page) <= Cardinality(UpTo(m))
      BY <1>2, <1>4, <3>2, FS_Subset
    <3>4. Cardinality(UpTo(m)) <= cap
      BY <1>1
    <3> HIDE DEF page, UpTo
    <3> QED
      BY <1>2, <1>3, <1>4, <3>3, <3>4
  <2> QED
    BY <2>1, <2>2
<1>7. ASSUME Cardinality(page) # cap, NEW i \in ids, i > after, i \notin page PROVE FALSE
  <2> DEFINE missed == {j \in ids : j > after /\ j \notin page}
  <2>1. IsFiniteSet(missed) /\ missed \subseteq Nat /\ missed # {}
    BY <1>7, FS_Subset
  <2>2. PICK m \in missed : \A j \in missed : m <= j
    BY <2>1, Least
  <2>3. UpTo(m) \ {m} = page
    <3>1. m \in ids /\ m > after /\ m \notin page /\ \A j \in ids : j \in Nat
      BY <2>2
    <3>2. ASSUME NEW j \in UpTo(m) \ {m} PROVE j \in page
      <4>1. ~(m <= j)
        BY <3>1
      <4> QED
        BY <2>2, <4>1
    <3>3. ASSUME NEW j \in page PROVE j \in UpTo(m) \ {m}
      <4>1. j \in ids /\ j > after /\ ~(m <= j)
        BY <1>2, <1>5, <3>1
      <4> QED
        BY <3>1, <4>1
    <3> HIDE DEF page, UpTo
    <3> QED
      BY <3>2, <3>3
  <2>4. m \in UpTo(m)
    OBVIOUS
  <2>5. Cardinality(page) = Cardinality(UpTo(m)) - 1
    <3> HIDE DEF UpTo, page
    <3> QED
      BY <1>4, <2>3, <2>4, FS_RemoveElement
  <2>6. ~(Cardinality(UpTo(m)) <= cap)
    <3> HIDE DEF UpTo
    <3> QED
      BY <1>1
  <2> HIDE DEF UpTo, page
  <2> QED
    BY <1>3, <1>4, <1>6, <1>7, <2>5, <2>6
<1>8. Cardinality(page) = cap => page # {}
  BY FS_EmptySet
<1>9. Cardinality(page) # cap => \A i \in ids : i > after => i \in page
  BY <1>7
<1>10. \A i \in page, j \in ids : j > after /\ j <= i => j \in page
  BY <1>5
<1> HIDE DEF UpTo
<1> QED
  BY <1>2, <1>3, <1>8, <1>9, <1>10

LEMMA LastIsLast ==
    ASSUME NEW page \in SUBSET Nat, IsFiniteSet(page), page # {}
    PROVE  LastOf(page) \in page /\ \A j \in page : j <= LastOf(page)
BY Greatest DEF LastOf

---------------------------------------------------------------------------
(* Ids of a committed store.                                               *)

LEMMA CountOK ==
    ASSUME NEW s
    PROVE  IsFiniteSet(Rows(s)) /\ Count(s) \in Nat
BY StoreConstantsOK, FS_Subset, FS_CardinalityType DEF Rows, Count

(* No id up to the number of posts is unused.                              *)
LEMMA EveryIdIsUsed ==
    ASSUME NEW s \in Store, Numbered(s), NEW i \in 1..Count(s)
    PROVE  \E k \in Rows(s) : s[k].id = i
<1> DEFINE f == [k \in Rows(s) |-> s[k].id]
           T == 1..Count(s)
<1>1. IsFiniteSet(Rows(s)) /\ Count(s) \in Nat
  BY CountOK
<1>2. IsFiniteSet(T) /\ Cardinality(T) = Cardinality(Rows(s))
  BY <1>1, FS_Interval DEF Count
<1>3. f \in [Rows(s) -> T]
  BY DEF Numbered, Count
<1>4. \A j, k \in Rows(s) : f[j] = f[k] => j = k
  BY DEF Numbered, Unique
<1>5. f \in Injection(Rows(s), T)
  <2> HIDE DEF f, T
  <2> QED
    BY <1>3, <1>4, Fun_IsInj
<1>6. f \in Surjection(Rows(s), T)
  <2> HIDE DEF f, T
  <2> QED
    BY <1>2, <1>5, FS_Injection
<1>7. \E k \in Rows(s) : f[k] = i
  <2> HIDE DEF f
  <2> QED
    BY <1>6 DEF Surjection
<1> QED
  BY <1>7

LEMMA IdsOK ==
    ASSUME NEW s \in Store, Numbered(s), NEW src
    PROVE  /\ Ids(s, src) \in SUBSET Nat
           /\ IsFiniteSet(Ids(s, src))
           /\ Ids(s, src) \subseteq Ids(s, AnySource)
           /\ \A i \in Ids(s, src) : 0 < i /\ i <= Count(s)
<1>1. Count(s) \in Nat
  BY CountOK
<1>2. \A i \in Ids(s, src) : i \in 1..Count(s)
  BY DEF Ids, Of, Numbered, Count
<1>3. IsFiniteSet(1..Count(s))
  BY <1>1, FS_Interval
<1>4. IsFiniteSet(Ids(s, src))
  BY <1>2, <1>3, FS_Subset
<1>5. Ids(s, src) \subseteq Ids(s, AnySource)
  BY DEF Ids, Of
<1> QED
  BY <1>1, <1>2, <1>4, <1>5

(* A store that keeps every post of an earlier one has new posts only under *)
(* ids that were not used there.                                            *)
LEMMA StoreGrows ==
    ASSUME NEW s \in Store, NEW t \in Store, Numbered(s), Numbered(t), Keeps(s, t), NEW src
    PROVE  /\ Ids(s, src) \subseteq Ids(t, src)
           /\ \A i \in Ids(t, src) \ Ids(s, src) : Count(s) < i
           /\ Count(s) <= Count(t)
<1>1. Rows(s) \subseteq Rows(t) /\ \A k \in Rows(s) : t[k].id = s[k].id
  BY DEF Keeps, Rows
<1>2. Ids(s, src) \subseteq Ids(t, src)
  BY <1>1 DEF Ids, Of
<1>3. ASSUME NEW i \in Ids(t, src), ~(Count(s) < i) PROVE i \in Ids(s, src)
  <2>1. PICK k \in Of(t, src) : i = t[k].id
    BY DEF Ids
  <2>2. k \in Rows(t) /\ (src = AnySource \/ SourceOf[k] = src)
    BY <2>1 DEF Of
  <2>3. i \in Nat /\ 0 < i
    BY IdsOK
  <2>4. i \in 1..Count(s)
    BY <1>3, <2>3, CountOK
  <2>5. PICK j \in Rows(s) : s[j].id = i
    BY <2>4, EveryIdIsUsed
  <2>6. j = k
    BY <1>1, <2>1, <2>2, <2>5 DEF Numbered, Unique
  <2> QED
    BY <2>2, <2>5, <2>6 DEF Ids, Of
<1>4. Count(s) <= Count(t)
  BY <1>1, CountOK, FS_Subset DEF Count
<1> QED
  BY <1>2, <1>3, <1>4

(* The sources' records add up to the posts: each post has one source.     *)
LEMMA SummedIsCount == ASSUME NEW s PROVE Summed(s) = Count(s)
<1> DEFINE P == {p \in Listed(s) \X Rows(s) : p[2] \in Of(s, p[1])}
           f == [p \in P |-> p[2]]
<1>1. f \in [P -> Rows(s)]
  OBVIOUS
<1>2. \A p, q \in P : f[p] = f[q] => p = q
  <2> SUFFICES ASSUME NEW p \in P, NEW q \in P, f[p] = f[q] PROVE p = q
    OBVIOUS
  <2>1. p = <<p[1], p[2]>> /\ q = <<q[1], q[2]>> /\ p[2] = q[2]
    OBVIOUS
  <2>2. \A x \in P : x[1] = AnySource \/ SourceOf[x[2]] = x[1]
    BY DEF Of
  <2>3. \A x \in P : x[1] # AnySource
    BY ReadConstantsOK DEF Listed, Rows
  <2> HIDE DEF P
  <2> QED
    BY <2>1, <2>2, <2>3
<1>3. \A k \in Rows(s) : \E p \in P : f[p] = k
  <2> TAKE k \in Rows(s)
  <2>1. <<SourceOf[k], k>> \in P /\ f[<<SourceOf[k], k>>] = k
    BY DEF Of, Listed
  <2> HIDE DEF P, f
  <2> QED
    BY <2>1
<1> HIDE DEF P, f
<1>4. f \in Injection(P, Rows(s)) /\ f \in Surjection(P, Rows(s))
  BY <1>1, <1>2, <1>3, Fun_IsInj, Fun_IsSurj
<1>5. Cardinality(P) = Cardinality(Rows(s))
  BY <1>4, CountOK, FS_Injection
<1> QED
  BY <1>5 DEF P, Summed, Count

LEMMA SummedOK == ASSUME NEW s PROVE Summed(s) \in Nat
BY SummedIsCount, CountOK

---------------------------------------------------------------------------
(* The inductive invariant.                                                *)

LEMMA StoreOK == TxInv => store \in Store /\ Numbered(store)
BY DEF TxInv, TypeOK, Store

LEMMA PagesInvInit == ReadInit => TxInv /\ PagesInv
<1> SUFFICES ASSUME ReadInit PROVE TxInv /\ PagesInv
  OBVIOUS
<1>1. TxInv
  BY TxInvInit DEF ReadInit
<1>2. NoCall \in Call /\ NoWalk \in Walk
  BY DEF NoCall, NoWalk, Call, Walk, Commands
<1>3. \A i \in Ids(store, AnySource) : ~(i <= 0)
  BY <1>1, StoreOK, IdsOK
<1>4. WalkInv(NoWalk, NoCall) /\ CallInv(NoWalk, NoCall)
  BY <1>3, CountOK DEF WalkInv, CallInv, NoCall, NoWalk
<1> QED
  BY <1>1, <1>2, <1>4 DEF ReadInit, PagesInv, ReadTypeOK

(* A commit leaves what every reader has, and what it will find, in place. *)
LEMMA StoreStep ==
    ASSUME TxInv, PagesInv, [Next]_vars, UNCHANGED readVars
    PROVE  TxInv' /\ PagesInv'
<1>1. TxInv' /\ (UNCHANGED store \/ Keeps(store, store'))
  BY TxInvNext, CommitStep
<1>2. Keeps(store, store')
  BY <1>1, KeepsItself
<1>3. /\ store \in Store /\ Numbered(store)
      /\ store' \in Store /\ Numbered(store')
  BY <1>1 DEF TxInv, TypeOK, Store
<1>4. /\ \A src : /\ Ids(store, src) \subseteq Ids(store', src)
                  /\ \A i \in Ids(store', src) \ Ids(store, src) : Count(store) < i
      /\ Count(store) <= Count(store')
  BY <1>2, <1>3, StoreGrows
<1>5. /\ Count(store) \in Nat /\ Count(store') \in Nat
      /\ \A src : \A i \in Ids(store', src) : i \in Nat
      /\ \A src : \A i \in Ids(store, src) : i \in Nat /\ i <= Count(store)
  BY <1>3, CountOK, IdsOK
<1>6. ASSUME NEW r \in Readers PROVE (WalkInv(walk[r], call[r]) /\ CallInv(walk[r], call[r]))'
  <2> DEFINE k == walk[r]
             c == call[r]
  <2>1. WalkInv(k, c) /\ CallInv(k, c) /\ k \in Walk /\ c \in Call
    BY DEF PagesInv, ReadTypeOK
  <2>2. k.cursor \in Nat /\ k.cursor <= Count(store) /\ k.cursor <= Count(store')
    BY <1>4, <1>5, <2>1 DEF WalkInv, Walk
  <2>3. {i \in Ids(store', k.src) : i <= k.cursor} = {i \in Ids(store, k.src) : i <= k.cursor}
    <3>1. \A i \in Ids(store', k.src) : i <= k.cursor => i \in Ids(store, k.src)
      BY <1>4, <1>5, <2>2
    <3> QED
      BY <1>4, <3>1
  <2>4. c.cmd = "posts" =>
          /\ c.held \subseteq Ids(store', c.src)
          /\ \A i \in Ids(store', c.src) \ c.held :
                i > k.cursor /\ \A j \in c.held : j < i
    <3> SUFFICES ASSUME c.cmd = "posts", NEW i \in Ids(store', c.src) \ c.held
                 PROVE  i > k.cursor /\ \A j \in c.held : j < i
      BY <1>4, <2>1 DEF WalkInv
    <3>1. c.held \subseteq Ids(store, c.src)
      BY <2>1 DEF WalkInv
    <3>2. CASE i \in Ids(store, c.src)
      BY <2>1, <3>2 DEF WalkInv
    <3>3. CASE i \notin Ids(store, c.src)
      <4>1. Count(store) < i /\ i \in Nat
        BY <1>4, <1>5, <3>3
      <4>2. \A j \in c.held : j \in Nat /\ j <= Count(store)
        BY <1>5, <3>1
      <4> QED
        BY <1>5, <2>2, <4>1, <4>2
    <3> QED
      BY <3>2, <3>3
  <2>5. WalkInv(k, c)'
    BY <2>1, <2>2, <2>3, <2>4 DEF WalkInv, readVars
  <2>6. CallInv(k, c)'
    BY <1>4, <2>1 DEF CallInv, readVars
  <2> QED
    BY <2>5, <2>6
<1>7. ReadTypeOK'
  BY DEF PagesInv, ReadTypeOK, readVars
<1> QED
  BY <1>1, <1>6, <1>7 DEF PagesInv

(* A step of a command, and the answer of one.                             *)
LEMMA CallStep ==
    ASSUME PagesInv, NEW r \in Readers, NEW c \in Call,
           UNCHANGED <<vars, walk>>, call' = [call EXCEPT ![r] = c],
           WalkInv(walk[r], c), CallInv(walk[r], c)
    PROVE  PagesInv'
<1>1. store' = store /\ walk' = walk
  BY DEF vars
<1>2. call'[r] = c /\ \A q \in Readers \ {r} : call'[q] = call[q]
  BY DEF PagesInv, ReadTypeOK
<1>3. ReadTypeOK'
  BY <1>1 DEF PagesInv, ReadTypeOK
<1>4. ASSUME NEW q \in Readers PROVE (WalkInv(walk[q], call[q]) /\ CallInv(walk[q], call[q]))'
  <2>1. CASE q = r
    BY <1>1, <1>2, <2>1 DEF WalkInv, CallInv
  <2>2. CASE q # r
    <3>1. WalkInv(walk[q], call[q]) /\ CallInv(walk[q], call[q])
      BY DEF PagesInv
    <3> QED
      BY <1>1, <1>2, <2>2, <3>1 DEF WalkInv, CallInv
  <2> QED
    BY <2>1, <2>2
<1> QED
  BY <1>3, <1>4 DEF PagesInv

LEMMA AnswerStep ==
    ASSUME TxInv, PagesInv, NEW r \in Readers, NEW k \in Walk, Answer(r, k),
           k.cursor <= Count(store),
           k.seen = IF k.over THEN k.held ELSE {i \in Ids(store, k.src) : i <= k.cursor},
           k.seen \subseteq Ids(store, k.src)
    PROVE  PagesInv'
<1>1. store' = store
  BY DEF Answer, vars
<1>2. /\ call'[r] = NoCall /\ \A q \in Readers \ {r} : call'[q] = call[q]
      /\ walk'[r] = k /\ \A q \in Readers \ {r} : walk'[q] = walk[q]
  BY DEF PagesInv, ReadTypeOK, Answer
<1>3. ReadTypeOK'
  <2>1. NoCall \in Call
    BY DEF NoCall, Call, Commands
  <2> QED
    BY <2>1 DEF PagesInv, ReadTypeOK, Answer
<1>4. WalkInv(k, NoCall) /\ CallInv(k, NoCall)
  BY DEF WalkInv, CallInv, NoCall
<1>5. ASSUME NEW q \in Readers PROVE (WalkInv(walk[q], call[q]) /\ CallInv(walk[q], call[q]))'
  <2>1. CASE q = r
    BY <1>1, <1>2, <1>4, <2>1 DEF WalkInv, CallInv
  <2>2. CASE q # r
    <3>1. WalkInv(walk[q], call[q]) /\ CallInv(walk[q], call[q])
      BY DEF PagesInv
    <3> QED
      BY <1>1, <1>2, <2>2, <3>1 DEF WalkInv, CallInv
  <2> QED
    BY <2>1, <2>2
<1> QED
  BY <1>3, <1>5 DEF PagesInv

LEMMA ReaderOK ==
    ASSUME TxInv, PagesInv, NEW r \in Readers
    PROVE  /\ walk[r] \in Walk /\ call[r] \in Call
           /\ WalkInv(walk[r], call[r]) /\ CallInv(walk[r], call[r])
           /\ \A src : /\ Ids(store, src) \in SUBSET Nat
                       /\ IsFiniteSet(Ids(store, src))
                       /\ Ids(store, src) \subseteq Ids(store, AnySource)
                       /\ \A i \in Ids(store, src) : 0 < i /\ i <= Count(store)
<1>1. store \in Store /\ Numbered(store)
  BY StoreOK
<1> QED
  BY <1>1, IdsOK DEF PagesInv, ReadTypeOK

LEMMA ClampOK == \A limit \in Limits : Clamp(limit) \in Nat \ {0}
BY ReadConstantsOK DEF Clamp

LEMMA ViewPostsStep ==
    ASSUME TxInv, PagesInv, NEW r \in Readers, NEW src \in Sources \cup {AnySource},
           NEW limit \in Limits, ViewPosts(r, src, limit)
    PROVE  PagesInv'
<1> DEFINE k == walk[r]
           ids == Ids(store, src)
           cap == Clamp(limit)
           page == FirstAfter(ids, k.cursor, cap)
           c == PostsCall(src, cap, ids, k.cursor)
<1>1. /\ k \in Walk /\ WalkInv(k, call[r]) /\ CallInv(k, call[r])
      /\ ids \in SUBSET Nat
  BY ReaderOK
<1>2. cap \in Nat \ {0}
  BY ClampOK
<1>3. page \subseteq ids
  BY DEF FirstAfter
<1>4. /\ c.cmd = "posts" /\ c.src = src /\ c.cap = cap /\ c.page = page
      /\ c.rest = page /\ c.held = ids
  BY DEF PostsCall, NoCall
<1>5. c \in Call
  <2>1. c = [NoCall EXCEPT !.cmd = "posts", !.src = src, !.cap = cap,
                           !.page = page, !.rest = page, !.held = ids]
    BY DEF PostsCall
  <2>2. page \in SUBSET Nat /\ ids \in SUBSET Nat /\ cap \in Nat /\ <<>> \in Seq(Nat)
    BY <1>1, <1>2, <1>3
  <2> HIDE DEF page, ids, cap, c
  <2> QED
    BY <2>1, <2>2 DEF NoCall, Call, Commands
<1>6. UNCHANGED <<vars, walk>> /\ call' = [call EXCEPT ![r] = c]
  BY DEF ViewPosts, Start
<1>7. ~k.over /\ (k = NoWalk \/ src = k.src)
  BY DEF ViewPosts
<1> HIDE DEF c, page, ids, cap, k
<1>8. WalkInv(k, c)
  BY <1>1, <1>2, <1>4, <1>7 DEF WalkInv, ids, page
<1>9. CallInv(k, c)
  BY <1>1, <1>3, <1>4 DEF CallInv, ids
<1> QED
  BY <1>5, <1>6, <1>8, <1>9, CallStep DEF k

LEMMA ReadChildrenStep ==
    ASSUME TxInv, PagesInv, NEW r \in Readers, ReadChildren(r)
    PROVE  PagesInv'
<1> DEFINE k == walk[r]
           c == call[r]
<1>1. k \in Walk /\ c \in Call /\ WalkInv(k, c) /\ CallInv(k, c)
  BY ReaderOK
<1>2. PICK i \in c.rest : call' = [call EXCEPT ![r].rest = @ \ {i}]
  BY DEF ReadChildren
<1> DEFINE d == [c EXCEPT !.rest = @ \ {i}]
<1>3. /\ d \in Call
      /\ d.cmd = c.cmd /\ d.src = c.src /\ d.cap = c.cap /\ d.page = c.page /\ d.held = c.held
  BY <1>1 DEF Call
<1>4. call' = [call EXCEPT ![r] = d]
  BY <1>2
<1>5. c.cmd \in {"posts", "records"} /\ UNCHANGED <<vars, walk>>
  BY DEF ReadChildren
<1> HIDE DEF c, d, k
<1>6. WalkInv(k, d) /\ CallInv(k, d)
  BY <1>1, <1>3, <1>5 DEF WalkInv, CallInv
<1> QED
  BY <1>3, <1>4, <1>5, <1>6, CallStep DEF k

(* A page is answered: what was committed since it was selected comes after *)
(* the new cursor.                                                          *)
LEMMA PostsAnsweredStep ==
    ASSUME TxInv, PagesInv, NEW r \in Readers, PostsAnswered(r)
    PROVE  PagesInv'
<1> DEFINE k == walk[r]
           c == call[r]
           ids == Ids(store, c.src)
           full == Cardinality(c.page) = c.cap
           n == [src |-> c.src,
                 cursor |-> IF full THEN LastOf(c.page) ELSE k.cursor,
                 seen |-> k.seen \cup c.page,
                 over |-> ~full,
                 held |-> c.held]
<1>1. /\ k \in Walk /\ c \in Call /\ WalkInv(k, c) /\ CallInv(k, c)
      /\ ids \in SUBSET Nat /\ IsFiniteSet(ids)
      /\ \A i \in ids : 0 < i /\ i <= Count(store)
  BY ReaderOK
<1>2. c.cmd = "posts" /\ Answer(r, n)
  BY DEF PostsAnswered
<1>3. /\ k.cursor \in Nat /\ c.cap \in Nat \ {0} /\ ~k.over
      /\ c.held \subseteq ids /\ c.held \in SUBSET Nat /\ c.page = FirstAfter(c.held, k.cursor, c.cap)
      /\ \A i \in ids \ c.held : i > k.cursor /\ \A j \in c.held : j < i
      /\ k.cursor <= Count(store) /\ (k = NoWalk \/ c.src = k.src)
  BY <1>1, <1>2 DEF WalkInv, Walk, Call
<1>4. IsFiniteSet(c.held)
  BY <1>1, <1>3, FS_Subset
<1>5. /\ c.page \subseteq c.held /\ IsFiniteSet(c.page)
      /\ \A i \in c.page : i > k.cursor
      /\ \A i \in c.page, j \in c.held : j > k.cursor /\ j <= i => j \in c.page
      /\ ~full => \A i \in c.held : i > k.cursor => i \in c.page
      /\ full => c.page # {}
  <2> DEFINE held == c.held
             after == k.cursor
             cap == c.cap
             page == FirstAfter(held, after, cap)
  <2>1. held \in SUBSET Nat /\ IsFiniteSet(held) /\ after \in Nat /\ cap \in Nat \ {0}
    BY <1>3, <1>4
  <2>2. /\ page \subseteq held
        /\ IsFiniteSet(page)
        /\ \A i \in page : i > after
        /\ \A i \in page, j \in held : j > after /\ j <= i => j \in page
        /\ Cardinality(page) # cap => \A i \in held : i > after => i \in page
        /\ Cardinality(page) = cap => page # {}
    <3> HIDE DEF held, after, cap
    <3> QED
      BY <2>1, PageOfIds
  <2>3. c.page = page
    BY <1>3
  <2> HIDE DEF page, c, k
  <2> QED
    BY <2>2, <2>3
<1>6. k.seen = {i \in ids : i <= k.cursor}
  <2>1. CASE c.src = k.src
    BY <1>1, <1>3, <2>1 DEF WalkInv
  <2>2. CASE k = NoWalk
    <3>1. k.cursor = 0 /\ k.src = AnySource
      BY <2>2 DEF NoWalk
    <3>2. \A i \in Ids(store, AnySource) : ~(i <= 0)
      BY ReaderOK
    <3>3. \A i \in ids : ~(i <= 0)
      BY <3>2, ReaderOK
    <3> QED
      BY <1>1, <1>3, <3>1, <3>2, <3>3 DEF WalkInv
  <2> QED
    BY <1>3, <2>1, <2>2
<1>7. \A i \in ids : i <= k.cursor => i \in c.held
  BY <1>1, <1>3
<1>8. n.src = c.src /\ n.seen = k.seen \cup c.page /\ n.over = ~full /\ n.held = c.held
  OBVIOUS
<1>9. full => /\ n.cursor \in c.page
              /\ \A j \in c.page : j <= n.cursor
  BY <1>3, <1>5, LastIsLast
<1>10. ~full => n.cursor = k.cursor
  OBVIOUS
<1>11. n.cursor \in Nat /\ n.cursor <= Count(store)
  BY <1>1, <1>3, <1>5, <1>9, <1>10
<1>12. n \in Walk
  <2>1. c.src \in Sources \cup {AnySource} /\ k.seen \in SUBSET Nat /\ c.page \in SUBSET Nat
    BY <1>1 DEF Call, Walk
  <2> QED
    BY <1>3, <1>11, <2>1 DEF Walk
<1>13. n.seen \subseteq ids
  BY <1>3, <1>5, <1>6, <1>8
<1> HIDE DEF full, n, k, c, ids
<1>14. CASE full
  <2>1. ASSUME NEW i \in k.seen \cup c.page PROVE i <= n.cursor
    <3>1. i \in Nat /\ n.cursor > k.cursor
      BY <1>1, <1>3, <1>5, <1>9, <1>13, <1>14, <1>8
    <3> QED
      BY <1>3, <1>6, <1>9, <1>11, <1>14, <3>1
  <2>2. ASSUME NEW i \in ids, i <= n.cursor PROVE i \in k.seen \cup c.page
    <3>1. CASE i <= k.cursor
      BY <1>6, <3>1
    <3>2. CASE ~(i <= k.cursor)
      <4>1. i \in c.held
        BY <1>1, <1>3, <1>5, <1>9, <1>11, <1>14, <2>2
      <4> QED
        BY <1>1, <1>3, <1>5, <1>9, <1>14, <2>2, <3>2, <4>1
    <3> QED
      BY <3>1, <3>2
  <2>3. n.seen = {i \in ids : i <= n.cursor}
    BY <1>8, <1>13, <2>1, <2>2
  <2> QED
    BY <1>2, <1>8, <1>11, <1>12, <1>13, <1>14, <2>3, AnswerStep DEF ids
<1>15. CASE ~full
  <2>1. n.seen = n.held
    <3>1. \A i \in c.held : i \in Nat /\ i \in ids
      BY <1>3
    <3>2. \A i \in c.held : i <= k.cursor \/ i > k.cursor
      BY <1>3, <3>1
    <3>3. \A i \in c.held : i \in k.seen \cup c.page
      BY <1>5, <1>6, <1>15, <3>1, <3>2
    <3> QED
      BY <1>5, <1>6, <1>7, <1>8, <3>3
  <2> QED
    BY <1>2, <1>8, <1>11, <1>12, <1>13, <1>15, <2>1, AnswerStep DEF ids
<1> QED
  BY <1>14, <1>15

LEMMA ViewAssetsStep ==
    ASSUME TxInv, PagesInv, NEW r \in Readers, ViewAssets(r)
    PROVE  PagesInv'
<1> DEFINE k == walk[r]
<1>1. k \in Walk /\ WalkInv(k, call[r]) /\ CallInv(k, call[r])
  BY ReaderOK
<1>2. Ids(store, k.src) \subseteq Ids(store, AnySource)
  BY ReaderOK
<1>3. PICK ids \in SUBSET k.seen :
          call' = [call EXCEPT ![r] = [NoCall EXCEPT !.cmd = "assets", !.held = ids, !.rest = ids]]
  BY DEF ViewAssets, Start
<1> DEFINE c == [NoCall EXCEPT !.cmd = "assets", !.held = ids, !.rest = ids]
<1>4. /\ c.cmd = "assets" /\ c.src = AnySource /\ c.page = {} /\ c.rest = ids /\ c.held = ids
  BY DEF NoCall
<1>5. ids \in SUBSET Nat /\ k.seen \subseteq Ids(store, k.src)
  BY <1>1 DEF Walk, CallInv
<1>6. c \in Call
  <2>1. ids \in SUBSET (Nat \cup Sources) /\ <<>> \in Seq(Nat)
    BY <1>5
  <2> QED
    BY <1>5, <2>1 DEF NoCall, Call, Commands
<1>7. UNCHANGED <<vars, walk>>
  BY DEF ViewAssets
<1> HIDE DEF c, k
<1>8. WalkInv(k, c) /\ CallInv(k, c)
  BY <1>1, <1>2, <1>4, <1>5 DEF WalkInv, CallInv
<1> QED
  BY <1>3, <1>6, <1>7, <1>8, CallStep DEF c, k

LEMMA FindAssetStep ==
    ASSUME TxInv, PagesInv, NEW r \in Readers, FindAsset(r)
    PROVE  PagesInv'
<1> DEFINE k == walk[r]
           c == call[r]
<1>1. k \in Walk /\ c \in Call /\ WalkInv(k, c) /\ CallInv(k, c)
  BY ReaderOK
<1>2. PICK i \in c.rest :
          call' = [call EXCEPT ![r].rest = @ \ {i},
                               ![r].page = @ \cup ({i} \cap Ids(store, AnySource))]
  BY DEF FindAsset
<1> DEFINE found == {i} \cap Ids(store, AnySource)
           d == [c EXCEPT !.rest = @ \ {i}, !.page = @ \cup found]
<1>3. c.cmd = "assets" /\ UNCHANGED <<vars, walk>>
  BY DEF FindAsset
<1>4. found = {i} /\ found \subseteq Nat
  <2>1. c.rest \subseteq Ids(store, AnySource) /\ Ids(store, AnySource) \in SUBSET Nat
    BY <1>1, <1>3, ReaderOK DEF CallInv
  <2> QED
    BY <2>1
<1>5. /\ d.cmd = "assets" /\ d.src = c.src /\ d.held = c.held
      /\ d.rest = c.rest \ {i} /\ d.page = c.page \cup {i}
  <2> HIDE DEF found
  <2> QED
    BY <1>1, <1>3, <1>4 DEF Call
<1>6. d \in Call
  <2> HIDE DEF found
  <2> QED
    BY <1>1, <1>4 DEF Call
<1>7. call' = [call EXCEPT ![r] = d]
  BY <1>2
<1> HIDE DEF c, d, k
<1>8. WalkInv(k, d) /\ CallInv(k, d)
  <2>1. c.src = AnySource /\ i \in Ids(store, AnySource) /\ c.held \subseteq c.rest \cup c.page
    BY <1>1, <1>3, <1>4 DEF CallInv
  <2> QED
    BY <1>1, <1>3, <1>5, <2>1 DEF WalkInv, CallInv
<1> QED
  BY <1>3, <1>6, <1>7, <1>8, CallStep DEF c, k

(* A command that reads counts begins.                                     *)
LEMMA CountStep ==
    ASSUME TxInv, PagesInv, NEW r \in Readers, NEW c \in Call,
           c.cmd \in {"records", "summary"}, c.src = AnySource, c.page = {},
           UNCHANGED <<vars, walk>>, call' = [call EXCEPT ![r] = c]
    PROVE  PagesInv'
<1> DEFINE k == walk[r]
<1>1. k \in Walk /\ WalkInv(k, call[r]) /\ CallInv(k, call[r])
  BY ReaderOK
<1> HIDE DEF k
<1>2. WalkInv(k, c) /\ CallInv(k, c)
  BY <1>1 DEF WalkInv, CallInv
<1> QED
  BY <1>2, CallStep DEF k

LEMMA InspectPostsStep ==
    ASSUME TxInv, PagesInv, NEW r \in Readers, InspectPosts(r)
    PROVE  PagesInv'
<1> DEFINE counts == <<Count(store)>>
           c == [NoCall EXCEPT !.cmd = "summary", !.counts = counts]
<1>1. counts \in Seq(Nat)
  BY CountOK
<1>2. UNCHANGED <<vars, walk>> /\ call' = [call EXCEPT ![r] = c]
  BY DEF InspectPosts, Start, FreshCall
<1> HIDE DEF counts
<1>3. c \in Call /\ c.cmd = "summary" /\ c.src = AnySource /\ c.page = {}
  BY <1>1 DEF NoCall, Call, Commands
<1> HIDE DEF c
<1> QED
  BY <1>2, <1>3, CountStep

LEMMA CountRecordsStep ==
    ASSUME TxInv, PagesInv, NEW r \in Readers, NEW limit \in Limits, NEW offset \in Offsets,
           CountRecords(r, limit, offset)
    PROVE  PagesInv'
<1> DEFINE counts == <<Count(store)>>
           cap == Clamp(limit)
           c == [NoCall EXCEPT !.cmd = "records", !.cap = cap, !.skip = offset, !.counts = counts]
<1>1. cap \in Nat /\ offset \in Nat /\ counts \in Seq(Nat)
  BY ClampOK, ReadConstantsOK, CountOK
<1>2. UNCHANGED <<vars, walk>> /\ call' = [call EXCEPT ![r] = c]
  BY DEF CountRecords, Start, FreshCall
<1> HIDE DEF counts, cap
<1>3. c \in Call /\ c.cmd = "records" /\ c.src = AnySource /\ c.page = {}
  BY <1>1 DEF NoCall, Call, Commands
<1> HIDE DEF c
<1> QED
  BY <1>2, <1>3, CountStep

LEMMA NewestOK == ASSUME NEW cap, NEW skip PROVE NewestFirst(store, cap, skip) \subseteq Ids(store, AnySource)
BY DEF NewestFirst, Ids, Of

LEMMA PageRecordsStep ==
    ASSUME TxInv, PagesInv, NEW r \in Readers, PageRecords(r)
    PROVE  PagesInv'
<1> DEFINE k == walk[r]
           c == call[r]
           page == NewestFirst(store, c.cap, c.skip)
           counts == Append(c.counts, Cardinality(page))
           d == [c EXCEPT !.page = page, !.rest = page, !.counts = counts]
<1>1. k \in Walk /\ c \in Call /\ WalkInv(k, c) /\ CallInv(k, c)
  BY ReaderOK
<1>2. c.cmd = "records" /\ UNCHANGED <<vars, walk>> /\ call' = [call EXCEPT ![r] = d]
  BY DEF PageRecords
<1>3. page \in SUBSET Ids(store, AnySource)
  BY NewestOK
<1>4. Ids(store, AnySource) \in SUBSET Nat /\ IsFiniteSet(Ids(store, AnySource))
  BY ReaderOK
<1> HIDE DEF page
<1>5. page \in SUBSET Nat /\ Cardinality(page) \in Nat
  BY <1>3, <1>4, FS_Subset, FS_CardinalityType
<1>6. counts \in Seq(Nat)
  BY <1>1, <1>5 DEF Call
<1> HIDE DEF counts
<1>7. /\ d \in Call
      /\ d.cmd = "records" /\ d.src = c.src /\ d.page = page
  BY <1>1, <1>2, <1>5, <1>6 DEF Call
<1>8. c.src = AnySource
  BY <1>1, <1>2 DEF CallInv
<1> HIDE DEF c, d, k
<1>9. WalkInv(k, d) /\ CallInv(k, d)
  BY <1>1, <1>3, <1>7, <1>8 DEF WalkInv, CallInv
<1> QED
  BY <1>2, <1>7, <1>9, CallStep DEF c, k

LEMMA CountSummaryStep ==
    ASSUME TxInv, PagesInv, NEW r \in Readers, CountSummary(r)
    PROVE  PagesInv'
<1> DEFINE k == walk[r]
           c == call[r]
           n == IF Len(c.counts) = 1 THEN Summed(store) ELSE Count(store)
           d == [c EXCEPT !.counts = Append(@, n)]
<1>1. k \in Walk /\ c \in Call /\ WalkInv(k, c) /\ CallInv(k, c)
  BY ReaderOK
<1>2. c.cmd = "summary" /\ UNCHANGED <<vars, walk>> /\ call' = [call EXCEPT ![r] = d]
  BY DEF CountSummary
<1>3. n \in Nat
  BY CountOK, SummedOK
<1> HIDE DEF n
<1>4. /\ d \in Call
      /\ d.cmd = "summary" /\ d.src = c.src /\ d.page = c.page
  <2>1. c.counts \in Seq(Nat) /\ Append(c.counts, n) \in Seq(Nat)
    BY <1>1, <1>3 DEF Call
  <2> HIDE DEF c
  <2> QED
    BY <1>1, <1>2, <2>1 DEF Call
<1> HIDE DEF c, d, k
<1>5. WalkInv(k, d) /\ CallInv(k, d)
  BY <1>1, <1>4 DEF WalkInv, CallInv
<1> QED
  BY <1>2, <1>4, <1>5, CallStep DEF c, k

LEMMA ListSourcesStep ==
    ASSUME TxInv, PagesInv, NEW r \in Readers, NEW src \in Sources \cup {AnySource},
           ListSources(r, src)
    PROVE  PagesInv'
<1> DEFINE k == walk[r]
           rest == IF src = AnySource THEN Listed(store) ELSE {src}
           held == Ids(store, src)
           c == [NoCall EXCEPT !.cmd = "known", !.src = src, !.rest = rest, !.held = held]
<1>1. k \in Walk /\ WalkInv(k, call[r]) /\ CallInv(k, call[r]) /\ held \in SUBSET Nat
  BY ReaderOK
<1>2. UNCHANGED <<vars, walk>> /\ call' = [call EXCEPT ![r] = c]
  BY DEF ListSources, Start, FreshCall
<1>3. Listed(store) \subseteq Sources
  BY ReadConstantsOK DEF Listed, Rows
<1>4. rest \subseteq Sources /\ (src # AnySource => rest \subseteq {src})
  BY <1>3
<1>5. \A i \in held : \E s \in rest : i \in Ids(store, s)
  <2>1. CASE src = AnySource
    BY <2>1 DEF Ids, Of, Listed
  <2>2. CASE src # AnySource
    BY <2>2
  <2> QED
    BY <2>1, <2>2
<1> HIDE DEF rest, held
<1>6. c \in Call
  <2>1. rest \in SUBSET (Nat \cup Sources) /\ <<>> \in Seq(Nat)
    BY <1>4
  <2> QED
    BY <1>1, <2>1 DEF NoCall, Call, Commands
<1>7. /\ c.cmd = "known" /\ c.src = src /\ c.page = {} /\ c.counts = <<>>
      /\ c.rest = rest /\ c.held = held
  BY DEF NoCall
<1> HIDE DEF c, k
<1>8. WalkInv(k, c) /\ CallInv(k, c)
  BY <1>1, <1>4, <1>5, <1>7 DEF WalkInv, CallInv
<1> QED
  BY <1>2, <1>6, <1>8, CallStep DEF k

LEMMA ListUrlsStep ==
    ASSUME TxInv, PagesInv, NEW r \in Readers, ListUrls(r)
    PROVE  PagesInv'
<1> DEFINE k == walk[r]
           c == call[r]
<1>1. k \in Walk /\ c \in Call /\ WalkInv(k, c) /\ CallInv(k, c)
  BY ReaderOK
<1>2. PICK src \in c.rest :
          call' = [call EXCEPT ![r].rest = @ \ {src}, ![r].page = @ \cup Ids(store, src)]
  BY DEF ListUrls
<1> DEFINE found == Ids(store, src)
           d == [c EXCEPT !.rest = @ \ {src}, !.page = @ \cup found]
<1>3. c.cmd = "known" /\ UNCHANGED <<vars, walk>> /\ call' = [call EXCEPT ![r] = d]
  BY <1>2 DEF ListUrls
<1>4. found \in SUBSET Nat
  BY ReaderOK
<1>5. found \subseteq Ids(store, c.src)
  <2>1. c.src # AnySource => src = c.src
    BY <1>1, <1>3 DEF CallInv
  <2> QED
    BY <2>1, ReaderOK
<1>6. c.counts = <<>> /\ \A i \in DOMAIN c.counts : FALSE
  BY <1>1, <1>3 DEF CallInv
<1> HIDE DEF c
<1>7. /\ d \in Call
      /\ d.cmd = "known" /\ d.src = c.src /\ d.held = c.held /\ d.counts = c.counts
      /\ d.rest = c.rest \ {src} /\ d.page = c.page \cup found
  <2> HIDE DEF found
  <2> QED
    BY <1>1, <1>3, <1>4 DEF Call
<1> HIDE DEF d, k
<1>8. WalkInv(k, d)
  BY <1>1, <1>3, <1>7 DEF WalkInv
<1>9. ASSUME NEW i \in d.held
      PROVE  i \in d.page \/ \E s \in d.rest : i \in Ids(store, s)
  <2>1. i \in c.page \/ \E s \in c.rest : i \in Ids(store, s)
    BY <1>1, <1>3, <1>7 DEF CallInv
  <2> QED
    BY <1>7, <2>1
<1>10. CallInv(k, d)
  BY <1>1, <1>3, <1>5, <1>6, <1>7, <1>9 DEF CallInv
<1> QED
  BY <1>3, <1>7, <1>8, <1>10, CallStep DEF k, c

(* A row that a plugin was told of is found when it asks about it.         *)
LEMMA EnquireStep ==
    ASSUME TxInv, PagesInv, NEW r \in Readers, Enquire(r)
    PROVE  PagesInv'
<1> DEFINE k == walk[r]
           c == call[r]
           ids == Ids(store, c.src)
<1>1. k \in Walk /\ c \in Call /\ WalkInv(k, c) /\ CallInv(k, c)
  BY ReaderOK
<1>2. c.cmd = "known" /\ c.rest = {} /\ UNCHANGED <<vars, walk>>
  BY DEF Enquire
<1>3. PICK row \in BOOLEAN :
         /\ call' = [call EXCEPT ![r].counts = <<IF row THEN 1 ELSE 0>>]
         /\ c.page # {} => row
  <2>1. c.page \subseteq ids
    BY <1>1 DEF CallInv
  <2>2. c.page # {} => Of(store, c.src) # {}
    BY <2>1 DEF Ids
  <2>3. CASE \E i \in c.page :
               call' = [call EXCEPT ![r].counts = <<IF i \in ids THEN 1 ELSE 0>>]
    BY <2>1, <2>3
  <2>4. CASE call' = [call EXCEPT ![r].counts = <<IF Of(store, c.src) # {} THEN 1 ELSE 0>>]
    BY <2>2, <2>4
  <2> QED
    BY <2>3, <2>4 DEF Enquire
<1> DEFINE n == IF row THEN 1 ELSE 0
           d == [c EXCEPT !.counts = <<n>>]
<1>4. n \in Nat /\ (c.page # {} => n = 1)
  BY <1>3
<1>5. call' = [call EXCEPT ![r] = d]
  BY <1>3
<1> HIDE DEF c, n
<1>6. <<n>> \in Seq(Nat) /\ \A i \in DOMAIN <<n>> : <<n>>[i] = n
  BY <1>4
<1>7. /\ d \in Call
      /\ d.cmd = c.cmd /\ d.src = c.src /\ d.held = c.held /\ d.rest = c.rest /\ d.page = c.page
      /\ d.counts = <<n>>
  BY <1>1, <1>6 DEF Call
<1> HIDE DEF d, k
<1>8. c.page # {} => \A i \in DOMAIN d.counts : d.counts[i] = 1
  BY <1>4, <1>6, <1>7
<1>9. WalkInv(k, d) /\ CallInv(k, d)
  BY <1>1, <1>2, <1>7, <1>8 DEF WalkInv, CallInv
<1> QED
  BY <1>2, <1>5, <1>7, <1>9, CallStep DEF k, c

LEMMA EndStep ==
    ASSUME TxInv, PagesInv, NEW r \in Readers, Answered(r) \/ ReadFails(r) \/ WalkEnds(r)
    PROVE  PagesInv'
<1> DEFINE k == walk[r]
<1>1. k \in Walk /\ WalkInv(k, call[r]) /\ CallInv(k, call[r])
  BY ReaderOK
<1>2. CASE Answer(r, k)
  BY <1>1, <1>2, AnswerStep DEF WalkInv, CallInv
<1>3. CASE WalkEnds(r)
  <2>1. /\ call'= call /\ store' = store
        /\ call[r].cmd = "none" /\ walk' = [walk EXCEPT ![r] = NoWalk]
    BY <1>3 DEF WalkEnds, vars
  <2>2. NoWalk \in Walk
    BY DEF NoWalk, Walk
  <2>3. walk'[r] = NoWalk /\ \A q \in Readers \ {r} : walk'[q] = walk[q]
    BY <2>1 DEF PagesInv, ReadTypeOK
  <2>4. \A i \in Ids(store, AnySource) : ~(i <= 0)
    BY ReaderOK
  <2>5. WalkInv(NoWalk, call[r]) /\ CallInv(NoWalk, call[r])
    BY <1>1, <2>1, <2>4, CountOK DEF WalkInv, CallInv, NoWalk
  <2>6. ASSUME NEW q \in Readers PROVE (WalkInv(walk[q], call[q]) /\ CallInv(walk[q], call[q]))'
    <3>1. CASE q = r
      BY <2>1, <2>3, <2>5, <3>1 DEF WalkInv, CallInv
    <3>2. CASE q # r
      <4>1. WalkInv(walk[q], call[q]) /\ CallInv(walk[q], call[q])
        BY DEF PagesInv
      <4> QED
        BY <2>1, <2>3, <3>2, <4>1 DEF WalkInv, CallInv
    <3> QED
      BY <3>1, <3>2
  <2>7. ReadTypeOK'
    BY <2>1, <2>2 DEF PagesInv, ReadTypeOK
  <2> QED
    BY <2>6, <2>7 DEF PagesInv
<1> QED
  BY <1>2, <1>3 DEF Answered, ReadFails

LEMMA ReaderStep ==
    ASSUME TxInv, PagesInv, NEW r \in Readers, Read(r)
    PROVE  TxInv' /\ PagesInv'
<1>1. UNCHANGED vars
  BY DEF Read, ViewPosts, ReadChildren, PostsAnswered, ViewAssets, FindAsset, CountRecords,
         PageRecords, InspectPosts, CountSummary, ListSources, ListUrls, Enquire, Answered,
         ReadFails, WalkEnds, Answer, FreshCall
<1>2. TxInv'
  BY <1>1, TxInvNext
<1>3. PagesInv'
  BY ViewPostsStep, ReadChildrenStep, PostsAnsweredStep, ViewAssetsStep, FindAssetStep,
     CountRecordsStep, PageRecordsStep, InspectPostsStep, CountSummaryStep, ListSourcesStep,
     ListUrlsStep, EnquireStep, EndStep DEF Read
<1> QED
  BY <1>2, <1>3

LEMMA PagesInvNext == TxInv /\ PagesInv /\ [ReadNext]_allVars => TxInv' /\ PagesInv'
<1> SUFFICES ASSUME TxInv, PagesInv, [ReadNext]_allVars PROVE TxInv' /\ PagesInv'
  OBVIOUS
<1>1. CASE [Next]_vars /\ UNCHANGED readVars
  BY <1>1, StoreStep
<1>2. CASE UNCHANGED allVars
  BY <1>2, StoreStep DEF allVars, readVars
<1> QED
  BY <1>1, <1>2, ReaderStep DEF ReadNext

(* The inductive invariant of the pages and walks of the readers, whatever  *)
(* is ingested meanwhile.                                                   *)
THEOREM PagesInvariant == ReadSpec => [](TxInv /\ PagesInv)
BY PagesInvInit, PagesInvNext, PTL DEF ReadSpec

(* A walk by keyset misses no post and repeats none, for any number of      *)
(* writers and any page size (view_posts_page).                             *)
THEOREM WalksAreComplete == ReadSpec => []WalkSeesEveryPost
<1>1. TxInv /\ PagesInv => WalkSeesEveryPost
  <2> SUFFICES ASSUME TxInv, PagesInv, NEW r \in Readers
               PROVE  /\ walk[r].over => walk[r].seen = walk[r].held
                      /\ call[r].cmd = "posts" => call[r].page \cap walk[r].seen = {}
    BY DEF WalkSeesEveryPost
  <2>1. WalkInv(walk[r], call[r]) /\ walk[r] \in Walk
    BY ReaderOK
  <2>2. ASSUME call[r].cmd = "posts", NEW i \in call[r].page \cap walk[r].seen PROVE FALSE
    <3>1. i \in Ids(store, walk[r].src) /\ i <= walk[r].cursor
      BY <2>1, <2>2 DEF WalkInv
    <3>2. i \in Nat /\ walk[r].cursor \in Nat
      BY <2>1, <3>1, ReaderOK DEF Walk
    <3>3. i > walk[r].cursor
      BY <2>1, <2>2 DEF WalkInv, FirstAfter
    <3> QED
      BY <3>1, <3>2, <3>3
  <2> QED
    BY <2>1, <2>2 DEF WalkInv
<1> QED
  BY <1>1, PagesInvariant, PTL

(* What a client was told of is found by whatever it asks next             *)
(* (view_post_assets, known_source_url_state, content_fingerprint).         *)
THEOREM ToldPostsStayFound == ReadSpec => []ToldPostsAreFound
<1>1. TxInv /\ PagesInv => ToldPostsAreFound
  <2> SUFFICES ASSUME TxInv, PagesInv, NEW r \in Readers
               PROVE  /\ call[r].page \cup walk[r].seen \subseteq Ids(store, AnySource)
                      /\ call[r].cmd \in {"assets", "known"} /\ call[r].rest = {}
                            => call[r].held \subseteq call[r].page
                      /\ call[r].cmd = "known" /\ call[r].page # {}
                            => \A i \in DOMAIN call[r].counts : call[r].counts[i] = 1
    BY DEF ToldPostsAreFound
  <2>1. CallInv(walk[r], call[r])
    BY ReaderOK
  <2>2. \A src : Ids(store, src) \subseteq Ids(store, AnySource)
    BY ReaderOK
  <2> QED
    BY <2>1, <2>2 DEF CallInv
<1> QED
  BY <1>1, PagesInvariant, PTL

(* The readers disturb no ingest: with them the store still runs as         *)
(* IngestStore says, so what is proved there holds here.                    *)
THEOREM ReadersDisturbNoIngest == ReadSpec => Spec
<1>1. ReadInit => Init
  BY DEF ReadInit
<1>2. [ReadNext]_allVars => [Next]_vars
  BY DEF ReadNext, allVars, Read, ViewPosts, ReadChildren, PostsAnswered, ViewAssets, FindAsset,
         CountRecords, PageRecords, InspectPosts, CountSummary, ListSources, ListUrls, Enquire,
         Answered, ReadFails, WalkEnds, Answer, FreshCall
<1> QED
  BY <1>1, <1>2, PTL DEF ReadSpec, Spec

(* With it: whatever is read meanwhile, the store changes by whole batches, *)
(* no post is lost, and updated_at follows the content.                     *)
THEOREM IngestsAreSafeBesideReaders ==
    ReadSpec => PostsAreDurable /\ StoreChangesByWholeBatches /\ UpdatedTracksContent
BY ReadersDisturbNoIngest, PostsStayDurable, WholeBatchesOnly, UpdatedFollowsContent

---------------------------------------------------------------------------
(* The counts of an answer.                                                *)

(* A page of the newest posts is full, or ends where the posts do: the      *)
(* places of n posts in an order without ties are the numbers up to n.      *)
LEMMA PageIsFull ==
    ASSUME NEW s \in Store, Numbered(s), NEW cap \in Nat, NEW skip \in Nat
    PROVE  LET size == Cardinality(NewestFirst(s, cap, skip))
           IN  size \in Nat /\ (size = cap \/ skip + size >= Count(s))
<1> DEFINE n == Count(s)
           Ahead(j, k) == \/ s[j].updated > s[k].updated
                          \/ s[j].updated = s[k].updated /\ s[j].id >= s[k].id
           Before(k) == {j \in Rows(s) : Ahead(j, k)}
           Place(k) == Cardinality(Before(k))
           D == {j \in Rows(s) : Place(j) > skip /\ Place(j) <= skip + cap}
           page == NewestFirst(s, cap, skip)
<1>1. IsFiniteSet(Rows(s)) /\ n \in Nat
  BY CountOK
<1>2. \A k \in Rows(s) : s[k].updated \in Nat /\ s[k].id \in Nat
  BY DEF Rows, Store, Row
<1>3. \A j, k \in Rows(s) : s[j].id = s[k].id => j = k
  BY DEF Numbered, Unique
<1>4. page = {s[k].id : k \in D}
  BY DEF NewestFirst
<1>5. ASSUME NEW k \in Rows(s)
      PROVE  Before(k) \subseteq Rows(s) /\ k \in Before(k) /\ IsFiniteSet(Before(k)) /\ Place(k) \in 1..n
  <2>1. Before(k) \subseteq Rows(s) /\ k \in Before(k)
    BY <1>2
  <2> HIDE DEF Before
  <2>2. IsFiniteSet(Before(k)) /\ Place(k) <= n /\ Place(k) \in Nat
    BY <1>1, <2>1, FS_Subset, FS_CardinalityType DEF Count
  <2>3. Place(k) # 0
    BY <2>1, <2>2, FS_EmptySet
  <2> QED
    BY <1>1, <2>1, <2>2, <2>3
<1>6. ASSUME NEW j \in Rows(s), NEW k \in Rows(s), Ahead(j, k), j # k
      PROVE  Place(j) # Place(k)
  <2>1. Before(j) \subseteq Before(k)
    BY <1>2, <1>6
  <2>2. k \notin Before(j)
    BY <1>2, <1>3, <1>6
  <2>3. k \in Before(k) /\ IsFiniteSet(Before(k))
    BY <1>5
  <2> HIDE DEF Before
  <2> QED
    BY <2>1, <2>2, <2>3, FS_Subset
<1>7. \A j, k \in Rows(s) : Place(j) = Place(k) => j = k
  <2> SUFFICES ASSUME NEW j \in Rows(s), NEW k \in Rows(s), j # k PROVE Place(j) # Place(k)
    OBVIOUS
  <2>1. Ahead(j, k) \/ Ahead(k, j)
    BY <1>2
  <2> HIDE DEF Place, Ahead
  <2> QED
    BY <1>6, <2>1
<1> HIDE DEF Before, Ahead
<1> DEFINE f == [k \in Rows(s) |-> Place(k)]
<1>8. \A p \in 1..n : \E k \in Rows(s) : Place(k) = p
  <2>1. f \in [Rows(s) -> 1..n]
    BY <1>5
  <2>2. \A j, k \in Rows(s) : f[j] = f[k] => j = k
    BY <1>7
  <2>3. IsFiniteSet(1..n) /\ Cardinality(1..n) = Cardinality(Rows(s))
    BY <1>1, FS_Interval DEF Count
  <2>4. f \in Surjection(Rows(s), 1..n)
    <3> HIDE DEF f, n
    <3> QED
      BY <2>1, <2>2, <2>3, Fun_IsInj, FS_Injection
  <2>5. \A p \in 1..n : \E k \in Rows(s) : f[k] = p
    <3> HIDE DEF f, n
    <3> QED
      BY <2>4 DEF Surjection
  <2> QED
    BY <2>5
<1> DEFINE last == IF skip + cap < n THEN skip + cap ELSE n
           places == (skip + 1)..last
           g == [i \in page |-> Place(CHOOSE k \in D : s[k].id = i)]
<1>9. last \in Nat /\ last <= n /\ last <= skip + cap
  BY <1>1
<1>10. \A k \in D : k \in Rows(s) /\ Place(k) \in places
  <2> HIDE DEF Place, n
  <2> QED
    BY <1>1, <1>5
<1>11. \A p \in places : \E k \in D : Place(k) = p
  <2> TAKE p \in places
  <2>1. p \in 1..n /\ p > skip /\ p <= skip + cap
    BY <1>1, <1>9
  <2> HIDE DEF Place, n, last
  <2> QED
    BY <1>8, <2>1
<1>12. \A k \in D : s[k].id \in page /\ g[s[k].id] = Place(k)
  <2> TAKE k \in D
  <2>1. s[k].id \in page
    BY <1>4
  <2>2. (CHOOSE j \in D : s[j].id = s[k].id) = k
    <3> HIDE DEF D
    <3>1. D \subseteq Rows(s)
      BY DEF D
    <3> QED
      BY <1>3, <3>1
  <2> HIDE DEF page, D
  <2> QED
    BY <2>1, <2>2
<1> HIDE DEF Place, g, D, page, n
<1>13. \A i \in page : \E k \in D : s[k].id = i
  BY <1>4
<1>14. g \in [page -> places]
  <2>1. g = [i \in page |-> g[i]]
    BY DEF g
  <2>2. \A i \in page : g[i] \in places
    BY <1>10, <1>12, <1>13
  <2> HIDE DEF places
  <2> QED
    BY <2>1, <2>2
<1>15. IsFiniteSet(places) /\ Cardinality(places) = IF skip + 1 > last THEN 0 ELSE last - skip
  <2> HIDE DEF last
  <2> QED
    BY <1>9, FS_Interval
<1>16. Cardinality(page) = Cardinality(places)
  <2> HIDE DEF places
  <2>1. \A i, j \in page : g[i] = g[j] => i = j
    BY <1>7, <1>10, <1>12, <1>13
  <2>2. \A p \in places : \E i \in page : g[i] = p
    BY <1>11, <1>12
  <2>3. g \in Injection(page, places) /\ g \in Surjection(page, places)
    BY <1>14, <2>1, <2>2, Fun_IsInj, Fun_IsSurj
  <2> QED
    BY <1>15, <2>3, FS_Injection
<1>17. Cardinality(page) = IF skip + 1 > last THEN 0 ELSE last - skip
  BY <1>15, <1>16
<1>18. Cardinality(page) \in Nat /\ (Cardinality(page) = cap \/ skip + Cardinality(page) >= n)
  BY <1>1, <1>9, <1>17
<1> QED
  BY <1>18 DEF page, n

LEMMA CountsCarried ==
    ASSUME NEW m \in Nat, NEW n \in Nat, m <= n, NEW c \in Call, CountsInv(c, m),
           NEW d, d.cmd = c.cmd, d.counts = c.counts, d.cap = c.cap, d.skip = c.skip
    PROVE  CountsInv(d, n)
<1>1. c.counts \in Seq(Nat)
  BY DEF Call
<1>2. \A i \in DOMAIN c.counts : c.counts[i] \in Nat
  BY <1>1
<1>3. c.counts # <<>> => c.counts[1] \in Nat
  BY <1>1
<1> QED
  BY <1>1, <1>2, <1>3 DEF CountsInv

LEMMA CountsStoreStep ==
    ASSUME TxInv, ReadInv, [Next]_vars, UNCHANGED readVars
    PROVE  \A r \in Readers : CountsInv(call'[r], Count(store'))
<1>1. TxInv' /\ Keeps(store, store')
  BY TxInvNext, CommitStep, KeepsItself
<1>2. /\ Count(store) \in Nat /\ Count(store') \in Nat
      /\ Count(store) <= Count(store')
  BY <1>1, CountOK, StoreGrows DEF TxInv, TypeOK, Store
<1>3. \A r \in Readers : call[r] \in Call /\ CountsInv(call[r], Count(store)) /\ call'[r] = call[r]
  BY DEF ReadInv, PagesInv, ReadTypeOK, readVars
<1> QED
  BY <1>2, <1>3, CountsCarried

LEMMA CountsReadStep ==
    ASSUME TxInv, ReadInv, NEW r \in Readers, Read(r)
    PROVE  \A q \in Readers : CountsInv(call'[q], Count(store'))
<1> DEFINE c == call[r]
           d == call'[r]
<1>1. store' = store /\ Count(store) \in Nat
  BY CountOK
  DEF Read, ViewPosts, ReadChildren, PostsAnswered, ViewAssets, FindAsset, CountRecords,
      PageRecords, InspectPosts, CountSummary, ListSources, ListUrls, Enquire, Answered,
      ReadFails, WalkEnds, Answer, FreshCall, vars
<1>2. call \in [Readers -> Call] /\ c \in Call /\ CountsInv(c, Count(store)) /\ c.counts \in Seq(Nat)
  BY DEF ReadInv, PagesInv, ReadTypeOK, Call
<1>3. \A q \in Readers \ {r} : call'[q] = call[q]
  BY <1>2
  DEF Read, ViewPosts, ReadChildren, PostsAnswered, ViewAssets, FindAsset, CountRecords,
      PageRecords, InspectPosts, CountSummary, ListSources, ListUrls, Enquire, Answered,
      ReadFails, WalkEnds, Answer, FreshCall, Start
<1>4. store \in Store /\ Numbered(store)
  BY StoreOK
<1>5. \A q \in Readers \ {r} : CountsInv(call'[q], Count(store'))
  BY <1>1, <1>3 DEF ReadInv
<1> SUFFICES CountsInv(d, Count(store'))
  BY <1>5
<1>6. ASSUME d.cmd \notin {"records", "summary"} PROVE CountsInv(d, Count(store'))
  BY <1>6 DEF CountsInv
<1>7. ASSUME d.cmd = c.cmd, d.counts = c.counts, d.cap = c.cap, d.skip = c.skip
      PROVE  CountsInv(d, Count(store'))
  BY <1>1, <1>2, <1>7, CountsCarried
<1>8. CASE \E src \in Sources \cup {AnySource}, limit \in Limits : ViewPosts(r, src, limit)
  <2>1. d.cmd = "posts"
    BY <1>2, <1>8 DEF ViewPosts, Start, PostsCall, NoCall
  <2> QED
    BY <1>6, <2>1
<1>9. CASE ReadChildren(r)
  BY <1>2, <1>7, <1>9 DEF ReadChildren, Call
<1>10. CASE PostsAnswered(r) \/ Answered(r) \/ ReadFails(r)
  <2>1. d.cmd = "none"
    BY <1>2, <1>10 DEF PostsAnswered, Answered, ReadFails, Answer, NoCall
  <2> QED
    BY <1>6, <2>1
<1>11. CASE ViewAssets(r) \/ FindAsset(r)
  <2>1. d.cmd = "assets"
    <3>1. CASE ViewAssets(r)
      <4>1. PICK ids : call' = [call EXCEPT ![r] =
                         [NoCall EXCEPT !.cmd = "assets", !.held = ids, !.rest = ids]]
        BY <3>1 DEF ViewAssets, Start
      <4> QED
        BY <1>2, <4>1 DEF NoCall
    <3>2. CASE FindAsset(r)
      BY <1>2, <3>2 DEF FindAsset, Call
    <3> QED
      BY <1>11, <3>1, <3>2
  <2> QED
    BY <1>6, <2>1
<1>12. ASSUME NEW limit \in Limits, NEW offset \in Offsets, CountRecords(r, limit, offset)
       PROVE  CountsInv(d, Count(store'))
  <2>1. d.cmd = "records" /\ d.counts = <<Count(store)>>
    BY <1>2, <1>12 DEF CountRecords, Start, NoCall
  <2> QED
    BY <1>1, <2>1 DEF CountsInv
<1>13. CASE PageRecords(r)
  <2> DEFINE size == Cardinality(NewestFirst(store, c.cap, c.skip))
  <2>1. c.cmd = "records" /\ Len(c.counts) = 1 /\ c.cap \in Nat /\ c.skip \in Nat
    BY <1>2, <1>13 DEF PageRecords, Call
  <2>2. /\ d.cmd = "records" /\ d.counts = Append(c.counts, size)
        /\ d.cap = c.cap /\ d.skip = c.skip
    BY <1>2, <1>13 DEF PageRecords, Call
  <2>3. size \in Nat /\ (size = c.cap \/ c.skip + size >= Count(store))
    BY <1>4, <2>1, PageIsFull
  <2> HIDE DEF size
  <2>4. c.counts[1] \in Nat /\ c.counts[1] <= Count(store)
    BY <1>2, <2>1 DEF CountsInv
  <2>5. d.counts[1] = c.counts[1] /\ d.counts[2] = size
    BY <1>2, <2>1, <2>2, <2>3
  <2> HIDE DEF c, d
  <2> QED
    BY <1>1, <2>1, <2>2, <2>3, <2>4, <2>5 DEF CountsInv
<1>14. CASE InspectPosts(r)
  <2>1. d.cmd = "summary" /\ d.counts = <<Count(store)>>
    BY <1>2, <1>14 DEF InspectPosts, Start, NoCall
  <2> QED
    BY <1>1, <2>1 DEF CountsInv
<1>15. CASE CountSummary(r)
  <2> DEFINE m == Len(c.counts)
  <2>1. c.cmd = "summary" /\ d.cmd = "summary" /\ d.counts = Append(c.counts, Count(store))
    BY <1>2, <1>15, SummedIsCount DEF CountSummary, Call
  <2>2. m \in Nat /\ DOMAIN c.counts = 1..m /\ DOMAIN d.counts = 1..(m + 1)
    BY <1>1, <1>2, <2>1
  <2>3. d.counts[m + 1] = Count(store) /\ \A i \in 1..m : d.counts[i] = c.counts[i]
    BY <1>1, <1>2, <2>1, <2>2
  <2>4. \A i \in 1..m :
           c.counts[i] <= Count(store) /\ \A j \in 1..m : i <= j => c.counts[i] <= c.counts[j]
    BY <1>2, <2>1, <2>2 DEF CountsInv
  <2> HIDE DEF c, d, m
  <2>5. \A i \in 1..(m + 1) :
           /\ d.counts[i] <= Count(store)
           /\ \A j \in 1..(m + 1) : i <= j => d.counts[i] <= d.counts[j]
    <3>1. \A i \in 1..(m + 1) : i = m + 1 \/ i \in 1..m
      BY <2>2
    <3> QED
      BY <1>1, <2>2, <2>3, <2>4, <3>1
  <2> QED
    BY <1>1, <2>1, <2>2, <2>5 DEF CountsInv
<1>16. CASE \E src \in Sources \cup {AnySource} : ListSources(r, src)
  <2>1. d.cmd = "known"
    BY <1>2, <1>16 DEF ListSources, Start, NoCall
  <2> QED
    BY <1>6, <2>1
<1>17. CASE ListUrls(r) \/ Enquire(r)
  <2>1. d.cmd = "known"
    BY <1>2, <1>17 DEF ListUrls, Enquire, Call
  <2> QED
    BY <1>6, <2>1
<1>18. CASE WalkEnds(r)
  BY <1>7, <1>18 DEF WalkEnds
<1> QED
  BY <1>8, <1>9, <1>10, <1>11, <1>12, <1>13, <1>14, <1>15, <1>16, <1>17, <1>18 DEF Read

LEMMA ReadInvNext == TxInv /\ ReadInv /\ [ReadNext]_allVars => TxInv' /\ ReadInv'
<1> SUFFICES ASSUME TxInv, ReadInv, [ReadNext]_allVars PROVE TxInv' /\ ReadInv'
  OBVIOUS
<1>1. TxInv' /\ PagesInv'
  BY PagesInvNext DEF ReadInv
<1>2. CASE [Next]_vars /\ UNCHANGED readVars
  BY <1>1, <1>2, CountsStoreStep DEF ReadInv
<1>3. CASE UNCHANGED allVars
  BY <1>1, <1>3, CountsStoreStep DEF ReadInv, allVars, readVars
<1> QED
  BY <1>1, <1>2, <1>3, CountsReadStep DEF ReadNext, ReadInv

(* The inductive invariant of the readers: what was told is there, and what *)
(* was counted is not more than there is.                                   *)
THEOREM ReadInvariant == ReadSpec => [](TxInv /\ ReadInv)
<1>1. ReadInit => TxInv /\ ReadInv
  <2>1. ReadInit => \A r \in Readers : CountsInv(call[r], Count(store))
    BY DEF ReadInit, CountsInv, NoCall
  <2> QED
    BY <2>1, PagesInvInit DEF ReadInv
<1> QED
  BY <1>1, ReadInvNext, PTL DEF ReadSpec

(* A page holds as many posts as the total beside it has left for it, and   *)
(* the sums of a summary never fall short of the counts read before them,   *)
(* whatever is committed between the SELECTs (source_record_page,           *)
(* ui_summary).                                                             *)
THEOREM CountsAlwaysFit == ReadSpec => []CountsFit
<1>1. ReadInv => CountsFit
  BY DEF ReadInv, CountsInv, CountsFit
<1> QED
  BY <1>1, ReadInvariant, PTL
=============================================================================
