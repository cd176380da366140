-------------------------- MODULE IngestStoreProofs -------------------------
(***************************************************************************)
(* Proofs about IngestStore, for any writers, batches and finite set of    *)
(* keys.                                                                   *)
(***************************************************************************)
EXTENDS IngestStore, FiniteSetTheorems, WellFoundedInduction, TLAPS

Store == [Keys -> Row \cup {NoRow}]

LEMMA KeepsItself == ASSUME NEW s PROVE Keeps(s, s)
BY DEF Keeps

LEMMA KeepsOn ==
    ASSUME NEW r, NEW s, NEW t, Keeps(r, s), Keeps(s, t)
    PROVE  Keeps(r, t)
BY DEF Keeps

LEMMA EmptyStoreNumbered == EmptyStore \in Store /\ Numbered(EmptyStore)
BY DEF EmptyStore, Store, Numbered, Unique, Rows

(* An upsert gives a typed row for its key, keeps what it replaces, and     *)
(* takes the next id only for a key without a row.                          *)
LEMMA UpsertRow ==
    ASSUME NEW s \in Store, NEW rec \in Record, NEW at \in Nat,
           Cardinality(Rows(s)) \in Nat
    PROVE  LET row == Upsert(s, rec, at)[rec.key]
           IN  /\ row \in Row
               /\ row.id = IF s[rec.key] = NoRow THEN Cardinality(Rows(s)) + 1
                           ELSE s[rec.key].id
               /\ s[rec.key] # NoRow /\ s[rec.key].date # NoDate => row.date # NoDate
<1> DEFINE old == s[rec.key]
           new == [id |-> IF old = NoRow THEN Cardinality(Rows(s)) + 1 ELSE old.id,
                   content |-> rec.content,
                   date |-> EffectiveDate(s, rec),
                   updated |-> at,
                   seen |-> at]
           row == Upsert(s, rec, at)[rec.key]
<1>1. rec.key \in Keys /\ rec.content \in Contents /\ rec.date \in Dates \cup {NoDate}
  BY DEF Record
<1>2. old \in Row \cup {NoRow}
  BY <1>1 DEF Store
<1>3. EffectiveDate(s, rec) \in Dates \cup {NoDate}
  BY <1>1, <1>2 DEF EffectiveDate, Row
<1>4. new \in Row
  BY <1>1, <1>2, <1>3 DEF Row
<1>5. row = new \/ (old # NoRow /\ row = [new EXCEPT !.updated = old.updated])
  BY <1>1 DEF Upsert, Store
<1>6. row \in Row /\ row.id = new.id /\ row.date = new.date
  BY <1>2, <1>4, <1>5 DEF Row
<1>7. old # NoRow /\ old.date # NoDate => EffectiveDate(s, rec) # NoDate
  BY DEF EffectiveDate
<1> QED
  BY <1>6, <1>7

LEMMA UpsertElsewhere ==
    ASSUME NEW s \in Store, NEW rec \in Record, NEW at, NEW k \in Keys, k # rec.key
    PROVE  Upsert(s, rec, at)[k] = s[k]
BY DEF Upsert, Store

LEMMA UpsertKeeps ==
    ASSUME NEW s \in Store, Numbered(s), NEW rec \in Record, NEW at \in Nat
    PROVE  /\ Upsert(s, rec, at) \in Store
           /\ Keeps(s, Upsert(s, rec, at))
           /\ Numbered(Upsert(s, rec, at))
<1> DEFINE t == Upsert(s, rec, at)
           n == Cardinality(Rows(s))
<1>1. rec.key \in Keys
  BY DEF Record
<1>2. IsFiniteSet(Rows(s)) /\ n \in Nat
  BY StoreConstantsOK, FS_Subset, FS_CardinalityType DEF Rows
<1>3. /\ t[rec.key] \in Row
      /\ t[rec.key].id = IF s[rec.key] = NoRow THEN n + 1 ELSE s[rec.key].id
      /\ s[rec.key] # NoRow /\ s[rec.key].date # NoDate => t[rec.key].date # NoDate
  BY <1>2, UpsertRow
<1>4. \A k \in Keys \ {rec.key} : t[k] = s[k]
  BY UpsertElsewhere
<1>5. t \in Store
  <2>1. t = [k \in Keys |-> t[k]]
    BY DEF Upsert, Store
  <2>2. \A k \in Keys : t[k] \in Row \cup {NoRow}
    BY <1>3, <1>4 DEF Store
  <2> QED
    BY <2>1, <2>2 DEF Store
<1>6. NoRow \notin Row
  BY StoreConstantsOK
<1>7. Keeps(s, t)
  BY <1>3, <1>4, <1>6 DEF Keeps
<1>8. Rows(t) = Rows(s) \cup {rec.key}
  BY <1>1, <1>3, <1>4, <1>6 DEF Rows
<1>9. Cardinality(Rows(t)) = IF s[rec.key] = NoRow THEN n + 1 ELSE n
  BY <1>1, <1>2, <1>8, FS_AddElement DEF Rows
<1>10. \A k \in Rows(s) : s[k] \in Row /\ s[k].id \in 1..n
  BY DEF Numbered, Rows, Store
<1>11. Numbered(t)
  <2>1. \A k \in Rows(t) \ {rec.key} : k \in Rows(s) /\ t[k].id = s[k].id /\ t[k].id \in 1..n
    BY <1>4, <1>8, <1>10 DEF Rows
  <2>2. CASE s[rec.key] = NoRow
    BY <2>1, <2>2, <1>2, <1>3, <1>9 DEF Numbered, Unique
  <2>3. CASE s[rec.key] # NoRow
    <3>1. rec.key \in Rows(s) /\ t[rec.key].id = s[rec.key].id
      BY <1>1, <1>3, <2>3 DEF Rows
    <3>2. \A k \in Rows(t) : k \in Rows(s) /\ t[k].id = s[k].id
      BY <2>1, <3>1
    <3> QED
      BY <3>2, <2>3, <1>9 DEF Numbered, Unique
  <2> QED
    BY <2>2, <2>3
<1> QED
  BY <1>5, <1>7, <1>11

(* An upsert leaves updated_at alone only with the fingerprint it found, and *)
(* must leave it alone when the record repeats the post.                    *)
LEMMA UpsertMoves ==
    ASSUME NEW s \in Store, NEW rec \in Record, NEW at \in Nat
    PROVE  LET old == s[rec.key]
               row == Upsert(s, rec, at)[rec.key]
           IN  /\ row.updated = at \/ (old # NoRow /\ Unmoved(row, old))
               /\ old # NoRow /\ Repeats(rec, old) => Unmoved(row, old)
<1> DEFINE old == s[rec.key]
           new == [id |-> IF old = NoRow THEN Cardinality(Rows(s)) + 1 ELSE old.id,
                   content |-> rec.content,
                   date |-> EffectiveDate(s, rec),
                   updated |-> at,
                   seen |-> at]
           same == old # NoRow /\ Fingerprint(old) = Fingerprint(new)
           row == Upsert(s, rec, at)[rec.key]
<1>1. rec.key \in Keys
  BY DEF Record
<1>2. row = IF same THEN [new EXCEPT !.updated = old.updated] ELSE new
  BY <1>1 DEF Upsert, Store
<1>3. CASE same
  <2>1. row.content = new.content /\ row.date = new.date /\ row.updated = old.updated
    BY <1>2, <1>3
  <2>2. Fingerprint(row) = Fingerprint(old)
    BY <2>1, <1>3 DEF Fingerprint
  <2> QED
    BY <2>1, <2>2, <1>3 DEF Unmoved
<1>4. CASE ~same
  <2>1. row = new /\ row.updated = at
    BY <1>2, <1>4
  <2>2. old # NoRow /\ Repeats(rec, old) => same
    BY DEF Repeats, EffectiveDate, Fingerprint
  <2> QED
    BY <2>1, <2>2, <1>4
<1> QED
  BY <1>3, <1>4

LEMMA UpsertTyped ==
    ASSUME NEW s \in Store, NEW rec \in Record, NEW at \in Nat
    PROVE  Upsert(s, rec, at) \in Store
<1>1. Cardinality(Rows(s)) \in Nat
  BY StoreConstantsOK, FS_Subset, FS_CardinalityType DEF Rows
<1>2. rec.key \in Keys
  BY DEF Record
<1>3. \A k \in Keys : Upsert(s, rec, at)[k] \in Row \cup {NoRow}
  BY <1>1, UpsertRow, UpsertElsewhere DEF Store
<1>4. Upsert(s, rec, at) = [k \in Keys |-> Upsert(s, rec, at)[k]]
  BY DEF Upsert, Store
<1> QED
  BY <1>3, <1>4 DEF Store

---------------------------------------------------------------------------
(* The store after each record of a batch.                                 *)

(* Counting up from zero.                                                  *)
LEMMA CountingUp ==
    ASSUME NEW N \in Nat, NEW P, 0 \in P, \A n \in 1..N : n - 1 \in P => n \in P
    PROVE  0..N \subseteq P
<1> DEFINE T == (0..N) \ P
<1>1. SUFFICES ASSUME T # {} PROVE FALSE
  OBVIOUS
<1>2. IsWellFoundedOn(OpToRel(<, Nat), Nat)
  BY NatLessThanWellFounded
<1>3. PICK x \in T : \A y \in T : ~(<<y, x>> \in OpToRel(<, Nat))
  <2>1. T \subseteq Nat
    OBVIOUS
  <2> HIDE DEF T
  <2> QED
    BY <1>1, <1>2, <2>1, WFMin
<1>4. x # 0 /\ x - 1 \in T
  OBVIOUS
<1>5. <<x - 1, x>> \in OpToRel(<, Nat)
  BY <1>4 DEF OpToRel
<1> QED
  BY <1>3, <1>4, <1>5

(* After is what its recursion says: it starts at the store and each record *)
(* is one upsert on.                                                        *)
LEMMA AfterSteps ==
    ASSUME NEW s \in Store, NEW b \in Seq(Record), NEW at \in Nat
    PROVE  /\ After(s, b, at)[0] = s
           /\ \A n \in 1..Len(b) :
                After(s, b, at)[n] = Upsert(After(s, b, at)[n - 1], b[n], at)
<1> DEFINE Is(g, n) == g[0] = s /\ \A m \in 1..n : g[m] = Upsert(g[m - 1], b[m], at)
           P == {n \in 0..Len(b) : \E g \in [0..n -> Store] : Is(g, n)}
<1>1. 0 \in P
  <2>1. [m \in 0..0 |-> s] \in [0..0 -> Store] /\ Is([m \in 0..0 |-> s], 0)
    OBVIOUS
  <2>2. \E g \in [0..0 -> Store] : Is(g, 0)
    BY <2>1
  <2> HIDE DEF Is
  <2> QED
    BY <2>2
<1>2. ASSUME NEW n \in 1..Len(b), n - 1 \in P PROVE n \in P
  <2>1. PICK g \in [0..(n - 1) -> Store] : Is(g, n - 1)
    BY <1>2
  <2> DEFINE h == [m \in 0..n |-> IF m = n THEN Upsert(g[n - 1], b[n], at) ELSE g[m]]
  <2>2. h \in [0..n -> Store]
    <3>1. b[n] \in Record
      OBVIOUS
    <3> QED
      BY <3>1, UpsertTyped
  <2>3. \A m \in 1..n : h[m] = Upsert(h[m - 1], b[m], at)
    <3> TAKE m \in 1..n
    <3>1. CASE m = n
      BY <3>1
    <3>2. CASE m # n
      <4>1. m \in 1..(n - 1) /\ h[m] = g[m] /\ h[m - 1] = g[m - 1]
        BY <3>2
      <4> QED
        BY <4>1, <2>1
    <3> QED
      BY <3>1, <3>2
  <2>4. h[0] = s
    BY <2>1
  <2>5. Is(h, n)
    BY <2>3, <2>4
  <2>6. \E f \in [0..n -> Store] : Is(f, n)
    BY <2>2, <2>5
  <2> HIDE DEF Is, h
  <2> QED
    BY <2>6
<1>3. Len(b) \in P
  <2>1. Len(b) \in Nat
    OBVIOUS
  <2> HIDE DEF P
  <2>2. 0..Len(b) \subseteq P
    BY <1>1, <1>2, <2>1, CountingUp
  <2> QED
    BY <2>1, <2>2
<1>4. PICK g \in [0..Len(b) -> Store] : Is(g, Len(b))
  BY <1>3
<1>5. g = [n \in 0..Len(b) |-> IF n = 0 THEN s ELSE Upsert(g[n - 1], b[n], at)]
  BY <1>4
<1> DEFINE f == After(s, b, at)
<1>6. f = [n \in 0..Len(b) |-> IF n = 0 THEN s ELSE Upsert(f[n - 1], b[n], at)]
  BY <1>5, Zenon DEF After
<1> HIDE DEF f
<1>7. f[0] = s /\ \A n \in 1..Len(b) : f[n] = Upsert(f[n - 1], b[n], at)
  BY <1>6
<1> QED
  BY <1>7 DEF f

---------------------------------------------------------------------------
(* The steps.                                                              *)

Bystander(v) ==
    /\ step'[v] = step[v] /\ lock'[v] = lock[v] /\ view'[v] = view[v]
    /\ pos'[v] = pos[v] /\ batch'[v] = batch[v] /\ stamp'[v] = stamp[v]

Ended(w) ==
    /\ step'[w] = "idle" /\ lock'[w] = "none" /\ view'[w] = EmptyStore
    /\ pos'[w] = 1 /\ batch'[w] = <<>> /\ stamp'[w] = 0

LEMMA BystanderOK ==
    ASSUME NEW v \in Writers, WriterOK(v), Bystander(v),
           store' = store \/ lock[v] = "none"
    PROVE  WriterOK(v)'
<1> USE DEF Bystander
<1>1. Numbered(view[v])'
  BY DEF WriterOK
<1>2. CASE lock[v] = "none"
  BY <1>1, <1>2 DEF WriterOK, Current
<1>3. CASE lock[v] # "none"
  <2>1. store' = store /\ Keeps(store, view[v])' /\ SnapshotOK(v)'
    BY <1>3 DEF WriterOK, SnapshotOK
  <2> QED
    BY <1>1, <2>1, <1>3 DEF WriterOK, Current
<1> QED
  BY <1>2, <1>3

LEMMA EndedOK ==
    ASSUME NEW w \in Writers, Ended(w)
    PROVE  WriterOK(w)'
<1>1. Numbered(view[w])'
  BY EmptyStoreNumbered DEF Ended
<1>2. Len(batch'[w]) = 0
  BY DEF Ended
<1> QED
  BY <1>1, <1>2 DEF Ended, WriterOK

LEMMA TxInvInit == Init => TxInv
<1> SUFFICES ASSUME Init PROVE TxInv
  OBVIOUS
<1>1. TypeOK /\ \A v, w \in Writers : Writing(v) /\ Writing(w) => v = w
  BY EmptyStoreNumbered, StoreConstantsOK DEF Init, TypeOK, Writing, Store
<1>2. Numbered(store) /\ \A w \in Writers : Numbered(view[w])
  BY EmptyStoreNumbered DEF Init
<1>3. \A w \in Writers : WriterOK(w)
  <2>1. \A w \in Writers : Len(batch[w]) = 0
    BY DEF Init
  <2> QED
    BY <1>2, <2>1 DEF Init, WriterOK
<1>4. TimeIsFresh
  BY DEF Init, TimeIsFresh, Rows, EmptyStore
<1> QED
  BY <1>1, <1>2, <1>3, <1>4 DEF TxInv

LEMMA EndIsEnded ==
    ASSUME TxInv, NEW w \in Writers, End(w)
    PROVE  /\ Ended(w)
           /\ now' = now
           /\ \A v \in Writers \ {w} : Bystander(v)
BY DEF TxInv, TypeOK, End, Bystander, Ended

(* A transaction ends and leaves the store alone.                          *)
LEMMA RollbackStep ==
    ASSUME TxInv, NEW w \in Writers, UNCHANGED store, End(w)
    PROVE  TxInv'
<1>1. TypeOK'
  BY EmptyStoreNumbered DEF TxInv, TypeOK, End, Store
<1>2. Ended(w) /\ now' = now /\ \A v \in Writers \ {w} : Bystander(v)
  BY EndIsEnded
<1>3. \A v \in Writers : WriterOK(v)'
  BY <1>2, BystanderOK, EndedOK DEF TxInv
<1>4. TimeIsFresh'
  <2>1. \A v \in Writers : IF step'[v] = "idle" THEN stamp'[v] = 0 ELSE stamp'[v] \in 1..now
    BY <1>2 DEF TxInv, TimeIsFresh, Bystander, Ended
  <2>2. \A u, v \in Writers : stamp'[u] = stamp'[v] => u = v \/ stamp'[u] = 0
    BY <1>2 DEF TxInv, TimeIsFresh, Bystander, Ended
  <2>3. \A k \in Rows(store) : /\ store[k].updated \in 1..now
                               /\ \A v \in Writers : stamp'[v] # store[k].updated
    BY <1>2 DEF TxInv, TimeIsFresh, Bystander, Ended
  <2> QED
    BY <1>2, <2>1, <2>2, <2>3 DEF TimeIsFresh
<1>5. Numbered(store)'
  BY DEF TxInv
<1>6. \A u, v \in Writers : Writing(u)' /\ Writing(v)' => u = v
  BY <1>2 DEF TxInv, Writing, Bystander, Ended
<1> QED
  BY <1>1, <1>3, <1>4, <1>5, <1>6 DEF TxInv

(* A commit replaces the store by what its transaction saw, and finds no    *)
(* other transaction with a lock.                                           *)
LEMMA CommitStep ==
    ASSUME TxInv, NEW w \in Writers, CommitEnds(w)
    PROVE  TxInv' /\ Keeps(store, store')
<1> USE DEF CommitEnds
<1>1. TypeOK'
  BY EmptyStoreNumbered DEF TxInv, TypeOK, End, Store
<1>2. Ended(w) /\ now' = now /\ \A v \in Writers \ {w} : Bystander(v)
  BY EndIsEnded
<1>3. \A v \in Writers \ {w} : lock[v] = "none"
  BY DEF Others
<1>4. \A v \in Writers : WriterOK(v)'
  BY <1>2, <1>3, BystanderOK, EndedOK DEF TxInv
<1>5. WriterOK(w) /\ lock[w] = "pending"
  BY DEF TxInv, WriterOK
<1>6. Numbered(store)' /\ Keeps(store, store') /\ SnapshotOK(w)
  BY <1>5 DEF WriterOK
<1>7. TimeIsFresh'
  <2>1. stamp[w] \in 1..now
    BY DEF TxInv, TimeIsFresh
  <2>2. \A v \in Writers \ {w} : stamp'[v] = stamp[v] /\ stamp[v] # stamp[w]
    BY <1>2, <2>1 DEF TxInv, TimeIsFresh, Bystander
  <2>3. ASSUME NEW k \in Rows(store')
        PROVE  /\ store'[k].updated \in 1..now
               /\ \A v \in Writers : stamp'[v] # store'[k].updated
    <3>1. \/ store'[k].updated = stamp[w]
          \/ k \in Rows(store) /\ store'[k].updated = store[k].updated
      BY <1>6, <2>3 DEF SnapshotOK, Unmoved, Rows
    <3>2. store'[k].updated \in 1..now /\ \A v \in Writers \ {w} : stamp[v] # store'[k].updated
      BY <2>1, <2>2, <3>1 DEF TxInv, TimeIsFresh
    <3> QED
      BY <2>2, <3>2, <1>2 DEF Ended
  <2>4. \A v \in Writers : IF step'[v] = "idle" THEN stamp'[v] = 0 ELSE stamp'[v] \in 1..now
    BY <1>2 DEF TxInv, TimeIsFresh, Bystander, Ended
  <2>5. \A u, v \in Writers : stamp'[u] = stamp'[v] => u = v \/ stamp'[u] = 0
    BY <1>2 DEF TxInv, TimeIsFresh, Bystander, Ended
  <2> QED
    BY <1>2, <2>3, <2>4, <2>5 DEF TimeIsFresh
<1>8. \A u, v \in Writers : Writing(u)' /\ Writing(v)' => u = v
  BY <1>2 DEF TxInv, Writing, Bystander, Ended
<1> QED
  BY <1>1, <1>4, <1>6, <1>7, <1>8 DEF TxInv

(* What it stores is its whole batch, applied to the store it replaces.    *)
LEMMA CommitAppliesBatch ==
    ASSUME TxInv, NEW w \in Writers, CommitEnds(w)
    PROVE  /\ \A i \in DOMAIN batch[w] : batch[w][i].valid
           /\ store' = ApplyBatch(store, batch[w], stamp[w])
<1>1. WriterOK(w) /\ step[w] = "commit" /\ batch[w] \in Seq(Record)
  BY DEF TxInv, CommitEnds, TypeOK
<1>2. pos[w] - 1 = Len(batch[w]) /\ DOMAIN batch[w] = 1..Len(batch[w]) /\ lock[w] = "pending"
  <2>1. Len(batch[w]) \in Nat /\ pos[w] = Len(batch[w]) + 1 /\ lock[w] = "pending"
    BY <1>1 DEF WriterOK
  <2> QED
    BY <1>1, <2>1
<1>3. store' = view[w] /\ SnapshotOK(w)
  BY <1>1, <1>2 DEF CommitEnds, WriterOK
<1> QED
  BY <1>1, <1>2, <1>3 DEF WriterOK, SnapshotOK, ApplyBatch

LEMMA CommitTracksContent ==
    ASSUME TxInv, NEW w \in Writers, CommitEnds(w), NEW k \in Rows(store)
    PROVE  /\ Fingerprint(store[k]) # Fingerprint(store'[k])
              => store'[k].updated # store[k].updated
           /\ (\A i \in DOMAIN batch[w] : batch[w][i].key = k => Repeats(batch[w][i], store[k]))
              => store'[k].updated = store[k].updated
<1>1. WriterOK(w) /\ step[w] = "commit" /\ batch[w] \in Seq(Record)
  BY DEF TxInv, CommitEnds, TypeOK
<1>2. pos[w] - 1 = Len(batch[w]) /\ DOMAIN batch[w] = 1..Len(batch[w]) /\ lock[w] = "pending"
  <2>1. Len(batch[w]) \in Nat /\ pos[w] = Len(batch[w]) + 1 /\ lock[w] = "pending"
    BY <1>1 DEF WriterOK
  <2> QED
    BY <1>1, <2>1
<1>3. store' = view[w] /\ SnapshotOK(w) /\ Keeps(store, store')
  BY <1>1, <1>2 DEF CommitEnds, WriterOK
<1>4. k \in Rows(store')
  BY <1>3 DEF Keeps, Rows
<1>5. store'[k].updated = stamp[w] \/ Unmoved(store'[k], store[k])
  BY <1>3, <1>4 DEF SnapshotOK
<1>6. stamp[w] # store[k].updated
  BY DEF TxInv, TimeIsFresh
<1>7. (\A i \in DOMAIN batch[w] : batch[w][i].key = k => Repeats(batch[w][i], store[k]))
      => Unmoved(store'[k], store[k])
  BY <1>2, <1>3 DEF SnapshotOK
<1> QED
  BY <1>5, <1>6, <1>7 DEF Unmoved

LEMMA BeginStep ==
    ASSUME TxInv, NEW w \in Writers, Begin(w)
    PROVE  TxInv' /\ UNCHANGED store
<1> USE DEF Begin
<1>1. TypeOK'
  BY StoreConstantsOK DEF TxInv, TypeOK
<1>2. \A v \in Writers \ {w} : Bystander(v)
  BY DEF TxInv, TypeOK, Bystander
<1>3. /\ step'[w] = "read" /\ lock' = lock /\ view' = view /\ pos' = pos /\ store' = store
      /\ stamp'[w] = now + 1 /\ now' = now + 1
  BY DEF TxInv, TypeOK
<1>4. WriterOK(w)'
  <2>1. lock[w] = "none" /\ pos[w] = 1
    BY DEF TxInv, WriterOK
  <2>2. Len(batch'[w]) \in Nat
    BY <1>1 DEF TypeOK
  <2>3. WriterOK(w)
    BY DEF TxInv
  <2> QED
    BY <2>1, <2>2, <2>3, <1>3 DEF WriterOK
<1>5. \A v \in Writers : WriterOK(v)'
  BY <1>2, <1>3, <1>4, BystanderOK DEF TxInv
<1>6. TimeIsFresh'
  <2>1. now \in Nat
    BY StoreConstantsOK DEF TxInv, TypeOK
  <2>2. \A v \in Writers \ {w} : stamp'[v] = stamp[v] /\ step'[v] = step[v] /\ stamp[v] \in 0..now
    BY <1>2, <2>1 DEF TxInv, TimeIsFresh, Bystander
  <2>3. \A v \in Writers : IF step'[v] = "idle" THEN stamp'[v] = 0 ELSE stamp'[v] \in 1..(now + 1)
    BY <1>3, <2>1, <2>2 DEF TxInv, TimeIsFresh
  <2>4. \A u, v \in Writers : stamp'[u] = stamp'[v] => u = v \/ stamp'[u] = 0
    BY <1>3, <2>1, <2>2 DEF TxInv, TimeIsFresh
  <2>5. \A k \in Rows(store) : /\ store[k].updated \in 1..(now + 1)
                               /\ \A v \in Writers : stamp'[v] # store[k].updated
    BY <1>3, <2>1, <2>2 DEF TxInv, TimeIsFresh
  <2> QED
    BY <1>3, <2>3, <2>4, <2>5 DEF TimeIsFresh
<1> QED
  BY <1>1, <1>3, <1>5, <1>6 DEF TxInv, Writing

(* The first read takes the store as it is, which is the empty batch's work. *)
LEMMA ReadStep ==
    ASSUME TxInv, NEW w \in Writers, ReadExisting(w)
    PROVE  TxInv' /\ UNCHANGED store
<1> USE DEF ReadExisting
<1>1. TypeOK'
  BY DEF TxInv, TypeOK
<1>2. \A v \in Writers \ {w} : Bystander(v)
  BY DEF TxInv, TypeOK, Bystander
<1>3. WriterOK(w) /\ batch[w] \in Seq(Record) /\ pos[w] \in Nat \ {0} /\ stamp[w] \in Nat
  BY DEF TxInv, TypeOK
<1>4. /\ step'[w] = "write" /\ step[w] = "read" /\ stamp' = stamp /\ now' = now
      /\ pos' = pos /\ batch' = batch /\ store' = store /\ pos[w] \in DOMAIN batch[w]
  <2>1. pos[w] \in Nat /\ pos[w] # 0 /\ pos[w] <= Len(batch[w]) /\ DOMAIN batch[w] = 1..Len(batch[w])
        /\ Len(batch[w]) \in Nat
    BY <1>3
  <2> QED
    BY <2>1 DEF TxInv, TypeOK
<1>5. \/ lock[w] # "none" /\ lock' = lock /\ view' = view
      \/ lock'[w] = "shared" /\ lock[w] = "none" /\ view'[w] = store
  BY DEF TxInv, TypeOK
<1>6. WriterOK(w)'
  <2>1. CASE lock[w] # "none" /\ lock' = lock /\ view' = view
    <3>1. SnapshotOK(w)' /\ Keeps(store, view[w])' /\ Numbered(view[w])'
      BY <1>3, <1>4, <2>1 DEF WriterOK, SnapshotOK
    <3> QED
      BY <1>3, <1>4, <2>1, <3>1 DEF WriterOK, Current
  <2>2. CASE lock'[w] = "shared" /\ lock[w] = "none" /\ view'[w] = store
    <3>1. pos[w] = 1 /\ Numbered(store)
      BY <1>3, <2>2 DEF WriterOK, TxInv
    <3>2. After(store, batch[w], stamp[w])[0] = store
      <4>1. store \in Store
        BY DEF TxInv, TypeOK, Store
      <4> QED
        BY <1>3, <4>1, AfterSteps
    <3>3. SnapshotOK(w)'
      BY <1>4, <2>2, <3>1, <3>2 DEF SnapshotOK, Unmoved, Rows
    <3>4. Keeps(store, view[w])' /\ Numbered(view[w])'
      BY <1>4, <2>2, <3>1, KeepsItself
    <3> QED
      BY <1>3, <1>4, <2>2, <3>1, <3>3, <3>4 DEF WriterOK, Current
  <2> QED
    BY <1>5, <2>1, <2>2
<1>7. \A v \in Writers : WriterOK(v)'
  BY <1>2, <1>4, <1>6, BystanderOK DEF TxInv
<1>8. TimeIsFresh'
  BY <1>2, <1>4 DEF TxInv, TimeIsFresh, Bystander
<1>9. \A u, v \in Writers : Writing(u)' /\ Writing(v)' => u = v
  BY <1>2, <1>5 DEF TxInv, Writing, Bystander
<1> QED
  BY <1>1, <1>4, <1>7, <1>8, <1>9 DEF TxInv

(* A write carries what the transaction sees one record on.                *)
LEMMA WriteMovesSnapshot ==
    ASSUME TxInv, NEW w \in Writers, step[w] = "write",
           UNCHANGED <<store, batch, stamp>>,
           view'[w] = Upsert(view[w], Current(w), stamp[w]), pos'[w] = pos[w] + 1
    PROVE  /\ view'[w] \in Store
           /\ Keeps(store, view[w])' /\ Numbered(view[w])'
           /\ SnapshotOK(w)'
<1> DEFINE rec == Current(w)
           s == view[w]
           t == view'[w]
<1>1. /\ WriterOK(w) /\ batch[w] \in Seq(Record) /\ pos[w] \in Nat \ {0}
      /\ stamp[w] \in Nat /\ store \in Store /\ s \in Store
  BY DEF TxInv, TypeOK, Store
<1>2. pos[w] \in 1..Len(batch[w]) /\ Keeps(store, s) /\ Numbered(s) /\ SnapshotOK(w)
  <2>1. DOMAIN batch[w] = 1..Len(batch[w])
    BY <1>1
  <2> QED
    BY <1>1, <2>1 DEF WriterOK
<1>3. rec \in Record /\ rec = batch[w][pos[w]] /\ rec.key \in Keys
  <2>1. batch[w][pos[w]] \in Record
    BY <1>1, <1>2
  <2>2. rec = batch[w][pos[w]]
    BY DEF Current
  <2> HIDE DEF rec
  <2> QED
    BY <2>1, <2>2 DEF Record
<1>4. t \in Store /\ Keeps(store, t) /\ Numbered(t)
  BY <1>1, <1>2, <1>3, UpsertKeeps, KeepsOn
<1>5. t = After(store, batch[w], stamp[w])[pos[w]]
  <2>1. s = After(store, batch[w], stamp[w])[pos[w] - 1]
    BY <1>2 DEF SnapshotOK
  <2>2. After(store, batch[w], stamp[w])[pos[w]]
        = Upsert(After(store, batch[w], stamp[w])[pos[w] - 1], batch[w][pos[w]], stamp[w])
    BY <1>1, <1>2, AfterSteps
  <2> QED
    BY <2>1, <2>2, <1>3
<1>6. /\ \A k \in Keys : k # rec.key => t[k] = s[k]
      /\ t[rec.key].updated = stamp[w] \/ (s[rec.key] # NoRow /\ Unmoved(t[rec.key], s[rec.key]))
      /\ s[rec.key] # NoRow /\ Repeats(rec, s[rec.key]) => Unmoved(t[rec.key], s[rec.key])
  BY <1>1, <1>3, UpsertElsewhere, UpsertMoves
<1>7. ASSUME NEW k \in Rows(t)
      PROVE  \/ t[k].updated = stamp[w]
             \/ store[k] # NoRow /\ Unmoved(t[k], store[k])
  <2>1. k \in Keys
    BY <1>7 DEF Rows
  <2>2. \/ t[k].updated = stamp[w]
        \/ k \in Rows(s) /\ Unmoved(t[k], s[k])
    <3>1. CASE k = rec.key
      BY <3>1, <1>6, <2>1 DEF Rows
    <3>2. CASE k # rec.key
      BY <3>2, <1>6, <2>1, <1>7 DEF Rows, Unmoved
    <3> QED
      BY <3>1, <3>2
  <2> QED
    BY <1>2, <2>2 DEF SnapshotOK, Unmoved
<1>8. ASSUME NEW k \in Rows(store),
             \A i \in 1..pos[w] : batch[w][i].key = k => Repeats(batch[w][i], store[k])
      PROVE  Unmoved(t[k], store[k])
  <2>1. k \in Keys /\ s[k] # NoRow
    BY <1>2 DEF Rows, Keeps
  <2>2. Unmoved(s[k], store[k])
    <3>1. \A i \in 1..(pos[w] - 1) : i \in 1..pos[w]
      BY <1>2
    <3> QED
      BY <1>2, <1>8, <3>1 DEF SnapshotOK
  <2>3. CASE k = rec.key
    <3>1. pos[w] \in 1..pos[w]
      BY <1>1
    <3>2. Repeats(rec, store[k])
      BY <1>3, <1>8, <2>3, <3>1
    <3>3. s[k].content = store[k].content /\ s[k].date = store[k].date
      BY <2>2 DEF Unmoved, Fingerprint
    <3>4. Repeats(rec, s[k])
      BY <3>2, <3>3 DEF Repeats
    <3> QED
      BY <2>1, <2>2, <2>3, <3>4, <1>6 DEF Unmoved
  <2>4. CASE k # rec.key
    BY <2>1, <2>2, <2>4, <1>6
  <2> QED
    BY <2>3, <2>4
<1>9. SnapshotOK(w)'
  <2>1. pos'[w] - 1 = pos[w]
    BY <1>1
  <2>2. Rows(t) = Rows(view[w])' /\ Rows(store) = Rows(store)'
    BY DEF Rows
  <2> QED
    BY <1>5, <1>7, <1>8, <2>1, <2>2 DEF SnapshotOK
<1> QED
  BY <1>4, <1>9

LEMMA WriteStep ==
    ASSUME TxInv, NEW w \in Writers, WriteRecord(w)
    PROVE  TxInv' /\ UNCHANGED store
<1> USE DEF WriteRecord
<1>1. /\ WriterOK(w) /\ step[w] = "write" /\ batch[w] \in Seq(Record)
      /\ pos[w] \in Nat \ {0} /\ UNCHANGED <<store, batch, stamp, now>>
      /\ view'[w] = Upsert(view[w], Current(w), stamp[w])
      /\ pos'[w] = pos[w] + 1 /\ step'[w] = "read"
  BY DEF TxInv, TypeOK
<1>2. view'[w] \in Store /\ Keeps(store, view[w])' /\ Numbered(view[w])' /\ SnapshotOK(w)'
  BY <1>1, WriteMovesSnapshot
<1>3. TypeOK'
  <2>1. view' \in [Writers -> Store]
    <3>1. Upsert(view[w], Current(w), stamp[w]) \in Store
      BY <1>1, <1>2
    <3> QED
      BY <3>1 DEF TxInv, TypeOK, Store
  <2>3. pos' \in [Writers -> Nat \ {0}]
    <3>1. pos \in [Writers -> Nat \ {0}] /\ pos' = [pos EXCEPT ![w] = @ + 1]
      BY DEF TxInv, TypeOK
    <3> QED
      BY <3>1
  <2>2. /\ lock' \in [Writers -> {"none", "shared", "reserved", "pending"}]
        /\ step' \in [Writers -> {"idle", "read", "write", "commit"}]
    BY DEF TxInv, TypeOK
  <2> QED
    BY <2>1, <2>2, <2>3 DEF TxInv, TypeOK, Store
<1>4. \A v \in Writers \ {w} : Bystander(v)
  BY DEF TxInv, TypeOK, Bystander
<1>5. lock'[w] = "reserved" /\ \A v \in Writers \ {w} : ~Writing(v)
  <2>1. CASE lock[w] = "reserved"
    BY <2>1 DEF TxInv, TypeOK, Writing
  <2>2. CASE lock[w] = "shared"
    <3>1. Others(w) \cap {"reserved", "pending"} = {}
      BY <2>2
    <3>2. \A v \in Writers \ {w} : lock[v] \in Others(w)
      BY DEF Others
    <3>3. \A v \in Writers \ {w} : ~Writing(v)
      BY <3>1, <3>2 DEF Writing
    <3> QED
      BY <2>2, <3>3 DEF TxInv, TypeOK
  <2> QED
    BY <2>1, <2>2
<1>6. WriterOK(w)'
  <2>1. pos[w] \in 1..Len(batch[w]) /\ batch[w][pos[w]].valid
    BY <1>1 DEF WriterOK, Current
  <2>2. \A i \in 1..(pos'[w] - 1) : batch[w][i].valid
    <3>1. \A i \in 1..(pos'[w] - 1) : i = pos[w] \/ i \in 1..(pos[w] - 1)
      BY <1>1
    <3> QED
      BY <1>1, <2>1, <3>1 DEF WriterOK
  <2>3. pos'[w] <= Len(batch'[w]) + 1
    BY <1>1, <2>1
  <2> QED
    BY <1>1, <1>2, <1>5, <2>2, <2>3 DEF WriterOK
<1>7. \A v \in Writers : WriterOK(v)'
  BY <1>1, <1>4, <1>6, BystanderOK DEF TxInv
<1>8. TimeIsFresh'
  BY <1>1, <1>4 DEF TxInv, TimeIsFresh, Bystander
<1>9. \A u, v \in Writers : Writing(u)' /\ Writing(v)' => u = v
  BY <1>4, <1>5 DEF Writing, Bystander
<1> QED
  BY <1>1, <1>3, <1>7, <1>8, <1>9 DEF TxInv

LEMMA CommitBeginsStep ==
    ASSUME TxInv, NEW w \in Writers, CommitBegins(w)
    PROVE  TxInv' /\ UNCHANGED store
<1> USE DEF CommitBegins
<1>1. TypeOK'
  BY DEF TxInv, TypeOK
<1>2. \A v \in Writers \ {w} : Bystander(v)
  BY DEF TxInv, TypeOK, Bystander
<1>3. /\ step'[w] = "commit" /\ lock'[w] = "pending" /\ lock[w] = "reserved"
      /\ UNCHANGED <<store, view, pos, batch, stamp, now>>
  BY DEF TxInv, TypeOK
<1>4. WriterOK(w)'
  <2>1. WriterOK(w) /\ batch[w] \in Seq(Record) /\ pos[w] \in Nat /\ pos[w] > Len(batch[w])
    BY DEF TxInv, TypeOK
  <2>2. pos[w] = Len(batch[w]) + 1
    BY <2>1 DEF WriterOK
  <2>3. SnapshotOK(w)' /\ Keeps(store, view[w])' /\ Numbered(view[w])'
    BY <1>3, <2>1 DEF WriterOK, SnapshotOK
  <2> QED
    BY <1>3, <2>1, <2>2, <2>3 DEF WriterOK
<1>5. \A v \in Writers : WriterOK(v)'
  BY <1>2, <1>3, <1>4, BystanderOK DEF TxInv
<1>6. TimeIsFresh'
  BY <1>2, <1>3 DEF TxInv, TimeIsFresh, Bystander
<1>7. \A u, v \in Writers : Writing(u)' /\ Writing(v)' => u = v
  BY <1>2, <1>3 DEF TxInv, Writing, Bystander
<1> QED
  BY <1>1, <1>3, <1>5, <1>6, <1>7 DEF TxInv

(* Only the end of a commit touches the store.                             *)
LEMMA TxInvNext ==
    TxInv /\ [Next]_vars
    => TxInv' /\ (UNCHANGED store \/ \E w \in Writers : CommitEnds(w))
<1> SUFFICES ASSUME TxInv, [Next]_vars
             PROVE  TxInv' /\ (UNCHANGED store \/ \E w \in Writers : CommitEnds(w))
  OBVIOUS
<1>1. ASSUME NEW w \in Writers, Fail(w) \/ CommitEmpty(w) PROVE TxInv' /\ UNCHANGED store
  BY <1>1, RollbackStep DEF Fail, CommitEmpty
<1>2. CASE UNCHANGED vars
  <2>1. \A v \in Writers : WriterOK(v)'
    BY <1>2, BystanderOK DEF vars, TxInv, Bystander
  <2>2. TimeIsFresh'
    BY <1>2 DEF vars, TxInv, TimeIsFresh
  <2> QED
    BY <1>2, <2>1, <2>2 DEF vars, TxInv, TypeOK, Writing
<1> QED
  BY <1>1, <1>2, BeginStep, ReadStep, WriteStep, CommitBeginsStep, CommitStep DEF Next

(* The inductive invariant of concurrent ingests.                          *)
THEOREM TxInvariant == Spec => []TxInv
BY TxInvInit, TxInvNext, PTL DEF Spec

(* ids stay unique, whatever the writers do.                               *)
THEOREM IdsStayUnique == Spec => []IdsAreUnique
<1>1. TxInv => IdsAreUnique
  BY DEF TxInv, Numbered, IdsAreUnique
<1> QED
  BY <1>1, TxInvariant, PTL

(* No post is lost, renumbered or robbed of its release date.              *)
THEOREM PostsStayDurable == Spec => PostsAreDurable
<1>1. TxInv /\ [Next]_vars => [Keeps(store, store')]_vars
  BY KeepsItself, TxInvNext, CommitStep
<1> QED
  BY <1>1, TxInvariant, PTL DEF Spec, PostsAreDurable

(* However many writers interleave, upgrade their locks, fail and restart,  *)
(* each change of the store is one whole valid batch, applied record by     *)
(* record to the store as it was at that moment: nothing is lost and        *)
(* nothing is half done.                                                    *)
THEOREM WholeBatchesOnly == Spec => StoreChangesByWholeBatches
<1>1. TxInv /\ [Next]_vars =>
      [store' # store =>
        \E w \in Writers :
            /\ \A i \in DOMAIN batch[w] : batch[w][i].valid
            /\ store' = ApplyBatch(store, batch[w], stamp[w])]_vars
  BY TxInvNext, CommitAppliesBatch
<1> QED
  BY <1>1, TxInvariant, PTL DEF Spec, StoreChangesByWholeBatches

(* updated_at moves with the fingerprint of a post, because no transaction  *)
(* ever has a time the store has seen, and only with it.                    *)
THEOREM UpdatedFollowsContent == Spec => UpdatedTracksContent
<1> DEFINE Tracks(k) ==
        LET old == store[k]
            new == store'[k]
        IN  /\ Fingerprint(old) # Fingerprint(new) => new.updated # old.updated
            /\ (\A w \in Writers : step[w] = "commit" /\ step'[w] = "idle" =>
                    \A i \in DOMAIN batch[w] :
                        batch[w][i].key = k => Repeats(batch[w][i], old))
               /\ store' # store
               => new.updated = old.updated
<1>1. ASSUME TxInv, [Next]_vars, NEW k \in Rows(store) PROVE Tracks(k)
  <2>1. CASE UNCHANGED store
    BY <2>1
  <2>2. ASSUME NEW w \in Writers, CommitEnds(w) PROVE Tracks(k)
    <3>1. step[w] = "commit" /\ step'[w] = "idle"
      BY <1>1, <2>2, EndIsEnded DEF CommitEnds, Ended
    <3> QED
      BY <1>1, <2>2, <3>1, CommitTracksContent
  <2> QED
    BY <1>1, <2>1, <2>2, TxInvNext
<1>2. TxInv /\ [Next]_vars => [\A k \in Rows(store) : Tracks(k)]_vars
  BY <1>1
<1> QED
  BY <1>2, TxInvariant, PTL DEF Spec, UpdatedTracksContent
=============================================================================
