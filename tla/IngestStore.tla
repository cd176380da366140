---------------------------- MODULE IngestStore ----------------------------
(***************************************************************************)
(* Database::ingest_records (crates/mh-db/src/lib.rs) when several         *)
(* processes ingest into one store: a command-line discover and the worker *)
(* of a management UI, say.                                                *)
(*                                                                         *)
(* Each batch is one deferred SQLite transaction.  The lock protocol is    *)
(* SQLite's (rollback journal): the first SELECT takes a shared lock, the  *)
(* first write the one reserved lock, and a commit turns it into a pending *)
(* lock that lets no new reader in and waits for the others to leave.      *)
(* What a transaction wrote is private to it until it commits.             *)
(***************************************************************************)
EXTENDS Naturals, Sequences, FiniteSets

CONSTANTS
    Writers,   \* the processes that ingest
    Keys,      \* (source_name, source_url)
    Contents,  \* everything a record says beside its key and release date
    Dates,     \* release dates
    NoDate,
    NoRow,
    Batches,   \* the record sequences a run may hand over
    MaxTx      \* bound: transactions begun

Record == [key : Keys, content : Contents, date : Dates \cup {NoDate}, valid : BOOLEAN]

Row == [id : Nat, content : Contents, date : Dates \cup {NoDate}, updated : Nat, seen : Nat]

ASSUME StoreConstantsOK ==
    /\ IsFiniteSet(Keys)
    /\ Batches \subseteq Seq(Record)
    /\ NoDate \notin Dates
    /\ NoRow \notin Row
    /\ MaxTx \in Nat

VARIABLES
    store,   \* source_posts and its child tables, as committed
    step,    \* per writer: "idle", "read", "write", "commit"
    lock,    \* per writer: its connection's lock on the file
    view,    \* per writer: the store as its transaction sees it
    batch,   \* per writer: the records it was given
    pos,     \* per writer: the record it is at
    stamp,   \* per writer: when its transaction began
    now      \* transactions begun so far, which is all the time there is

vars == <<store, step, lock, view, batch, pos, stamp, now>>

EmptyStore == [k \in Keys |-> NoRow]

TypeOK ==
    /\ store \in [Keys -> Row \cup {NoRow}]
    /\ step \in [Writers -> {"idle", "read", "write", "commit"}]
    /\ lock \in [Writers -> {"none", "shared", "reserved", "pending"}]
    /\ view \in [Writers -> [Keys -> Row \cup {NoRow}]]
    /\ batch \in [Writers -> Seq(Record)]
    /\ pos \in [Writers -> Nat \ {0}]
    /\ stamp \in [Writers -> Nat]
    /\ now \in 0..MaxTx

Init ==
    /\ store = EmptyStore
    /\ step = [w \in Writers |-> "idle"]
    /\ lock = [w \in Writers |-> "none"]
    /\ view = [w \in Writers |-> EmptyStore]
    /\ batch = [w \in Writers |-> <<>>]
    /\ pos = [w \in Writers |-> 1]
    /\ stamp = [w \in Writers |-> 0]
    /\ now = 0

---------------------------------------------------------------------------
(* ingest_one: the upsert of one record.                                   *)

Rows(s) == {k \in Keys : s[k] # NoRow}

EffectiveDate_Overwrite(s, rec) == rec.date

(* A record without a release date keeps the one already known.            *)
EffectiveDate(s, rec) ==
    IF rec.date # NoDate \/ s[rec.key] = NoRow THEN rec.date ELSE s[rec.key].date

(* The content fingerprint hashes the content with the effective date.     *)
Fingerprint(row) == <<row.content, row.date>>

Upsert_BumpAlways(s, rec, at) ==
    LET old == s[rec.key]
    IN  [s EXCEPT ![rec.key] =
            [id |-> IF old = NoRow THEN Cardinality(Rows(s)) + 1 ELSE old.id,
             content |-> rec.content, date |-> EffectiveDate(s, rec),
             updated |-> at, seen |-> at]]

Upsert_InsertOnly(s, rec, at) ==
    [s EXCEPT ![rec.key] =
            [id |-> Cardinality(Rows(s)) + 1, content |-> rec.content,
             date |-> EffectiveDate(s, rec), updated |-> at, seen |-> at]]

Upsert(s, rec, at) ==
    LET old == s[rec.key]
        new == [id |-> IF old = NoRow THEN Cardinality(Rows(s)) + 1 ELSE old.id,
                content |-> rec.content,
                date |-> EffectiveDate(s, rec),
                updated |-> at,
                seen |-> at]
        same == old # NoRow /\ Fingerprint(old) = Fingerprint(new)
    IN  [s EXCEPT ![rec.key] = IF same THEN [new EXCEPT !.updated = old.updated] ELSE new]

---------------------------------------------------------------------------
(* The transaction of writer w.                                            *)

Others(w) == {lock[v] : v \in Writers \ {w}}

End(w) ==
    /\ step' = [step EXCEPT ![w] = "idle"]
    /\ lock' = [lock EXCEPT ![w] = "none"]
    /\ view' = [view EXCEPT ![w] = EmptyStore]
    /\ pos' = [pos EXCEPT ![w] = 1]
    /\ batch' = [batch EXCEPT ![w] = <<>>]
    /\ stamp' = [stamp EXCEPT ![w] = 0]
    /\ UNCHANGED now

Begin(w) ==
    /\ step[w] = "idle"
    /\ now < MaxTx
    /\ \E b \in Batches : batch' = [batch EXCEPT ![w] = b]
    /\ now' = now + 1
    /\ stamp' = [stamp EXCEPT ![w] = now + 1]
    /\ step' = [step EXCEPT ![w] = "read"]
    /\ UNCHANGED <<store, lock, view, pos>>

Current(w) == batch[w][pos[w]]

(* Validate the record, then existing_post: the first SELECT takes the     *)
(* snapshot the transaction works on.                                      *)
ReadExisting(w) ==
    /\ step[w] = "read"
    /\ pos[w] <= Len(batch[w])
    /\ Current(w).valid
    /\ \/ lock[w] # "none" /\ UNCHANGED <<lock, view>>
       \/ /\ lock[w] = "none"
          /\ "pending" \notin Others(w)
          /\ lock' = [lock EXCEPT ![w] = "shared"]
          /\ view' = [view EXCEPT ![w] = store]
    /\ step' = [step EXCEPT ![w] = "write"]
    /\ UNCHANGED <<store, pos, batch, stamp, now>>

WriteRecord_NoContention(w) ==
    /\ step[w] = "write"
    /\ lock' = [lock EXCEPT ![w] = "reserved"]
    /\ view' = [view EXCEPT ![w] = Upsert(@, Current(w), stamp[w])]
    /\ pos' = [pos EXCEPT ![w] = @ + 1]
    /\ step' = [step EXCEPT ![w] = "read"]
    /\ UNCHANGED <<store, batch, stamp, now>>

(* The UPDATE or INSERT and the child tables.                              *)
WriteRecord(w) ==
    /\ step[w] = "write"
    /\ \/ lock[w] = "reserved" /\ UNCHANGED lock
       \/ /\ lock[w] = "shared"
          /\ Others(w) \cap {"reserved", "pending"} = {}
          /\ lock' = [lock EXCEPT ![w] = "reserved"]
    /\ view' = [view EXCEPT ![w] = Upsert(@, Current(w), stamp[w])]
    /\ pos' = [pos EXCEPT ![w] = @ + 1]
    /\ step' = [step EXCEPT ![w] = "read"]
    /\ UNCHANGED <<store, batch, stamp, now>>

(* tx.commit(), up to the point where no new reader gets in.               *)
CommitBegins(w) ==
    /\ step[w] = "read"
    /\ pos[w] > Len(batch[w])
    /\ lock[w] = "reserved"
    /\ lock' = [lock EXCEPT ![w] = "pending"]
    /\ step' = [step EXCEPT ![w] = "commit"]
    /\ UNCHANGED <<store, view, pos, batch, stamp, now>>

CommitEnds(w) ==
    /\ step[w] = "commit"
    /\ Others(w) \subseteq {"none"}
    /\ store' = view[w]
    /\ End(w)

(* An empty batch never touched the file.                                  *)
CommitEmpty(w) ==
    /\ step[w] = "read"
    /\ batch[w] = <<>>
    /\ UNCHANGED store
    /\ End(w)

Fail_CommitPrefix(w) ==
    /\ step[w] # "idle"
    /\ store' = IF lock[w] = "reserved" THEN view[w] ELSE store
    /\ End(w)

(* Any error rolls back: an invalid record, a lock held too long or, for   *)
(* an upgrade, held at all, a failing write; and so does the loss of the   *)
(* process, whose journal the next connection rolls back.                  *)
Fail(w) ==
    /\ step[w] # "idle"
    /\ UNCHANGED store
    /\ End(w)

Next ==
    \E w \in Writers :
        \/ Begin(w) \/ ReadExisting(w) \/ WriteRecord(w)
        \/ CommitBegins(w) \/ CommitEnds(w) \/ CommitEmpty(w)
        \/ Fail(w)

Spec == Init /\ [][Next]_vars

---------------------------------------------------------------------------
(* PROPERTIES                                                              *)

(* The store after each record of a batch, from the one it was applied to.  *)
After(s, b, at) ==
    LET t[n \in 0..Len(b)] == IF n = 0 THEN s ELSE Upsert(t[n - 1], b[n], at)
    IN  t

ApplyBatch(s, b, at) == After(s, b, at)[Len(b)]

(* Whatever the writers interleave, the store only ever changes by one      *)
(* whole valid batch applied to the store as it was at that moment: no lost *)
(* update, no partial batch (ingest_records, "one transaction").            *)
StoreChangesByWholeBatches ==
    [][store' # store =>
        \E w \in Writers :
            /\ \A i \in DOMAIN batch[w] : batch[w][i].valid
            /\ store' = ApplyBatch(store, batch[w], stamp[w])]_vars

Keeps(s, t) ==
    \A k \in Keys : s[k] # NoRow =>
        /\ t[k] # NoRow
        /\ t[k].id = s[k].id
        /\ s[k].date # NoDate => t[k].date # NoDate

(* A known release date is never forgotten, and a post keeps its row: no    *)
(* post disappears, changes its id, or takes over another's (ingest_one).   *)
PostsAreDurable == [][Keeps(store, store')]_vars

Unique(s) == \A j, k \in Rows(s) : s[j].id = s[k].id => j = k

(* ids stay unique, which the keyset pages of the read commands rely on.    *)
IdsAreUnique == Unique(store)

(* The record of the batch repeats what the post of its key says.           *)
Repeats(rec, row) == rec.content = row.content /\ rec.date \in {NoDate, row.date}

(* updated_at moves whenever the fingerprint does, and a batch that repeats *)
(* what is stored moves last_seen_at alone.                                 *)
UpdatedTracksContent ==
    [][\A k \in Rows(store) :
        LET old == store[k]
            new == store'[k]
        IN  /\ Fingerprint(old) # Fingerprint(new) => new.updated # old.updated
            /\ (\A w \in Writers : step[w] = "commit" /\ step'[w] = "idle" =>
                    \A i \in DOMAIN batch[w] :
                        batch[w][i].key = k => Repeats(batch[w][i], old))
               /\ store' # store
               => new.updated = old.updated]_vars

(* Ids are handed out in sequence.                                          *)
Numbered(s) ==
    /\ Unique(s)
    /\ \A k \in Rows(s) : s[k].id \in 1..Cardinality(Rows(s))

Writing(w) == lock[w] \in {"reserved", "pending"}

Unmoved(new, old) == Fingerprint(new) = Fingerprint(old) /\ new.updated = old.updated

(* What a transaction sees is what it wrote over the committed store; only  *)
(* the posts it changed or made carry its time.                             *)
SnapshotOK(w) ==
    /\ view[w] = After(store, batch[w], stamp[w])[pos[w] - 1]
    /\ \A k \in Rows(view[w]) :
         \/ view[w][k].updated = stamp[w]
         \/ store[k] # NoRow /\ Unmoved(view[w][k], store[k])
    /\ \A k \in Rows(store) :
         (\A i \in 1..(pos[w] - 1) : batch[w][i].key = k => Repeats(batch[w][i], store[k]))
         => Unmoved(view[w][k], store[k])

(* A running transaction has a time no other one and no stored post has.    *)
TimeIsFresh ==
    /\ \A w \in Writers :
         IF step[w] = "idle" THEN stamp[w] = 0 ELSE stamp[w] \in 1..now
    /\ \A v, w \in Writers : stamp[v] = stamp[w] => v = w \/ stamp[v] = 0
    /\ \A k \in Rows(store) :
         store[k].updated \in 1..now /\ \A w \in Writers : stamp[w] # store[k].updated

WriterOK(w) ==
    /\ step[w] = "idle" => lock[w] = "none"
    /\ step[w] = "commit" <=> lock[w] = "pending"
    /\ step[w] = "commit" => pos[w] = Len(batch[w]) + 1
    /\ step[w] = "write" => lock[w] # "none" /\ pos[w] \in DOMAIN batch[w] /\ Current(w).valid
    /\ pos[w] <= Len(batch[w]) + 1
    /\ \A i \in 1..(pos[w] - 1) : batch[w][i].valid
    /\ IF lock[w] = "none" THEN pos[w] = 1 ELSE Keeps(store, view[w]) /\ SnapshotOK(w)
    /\ Numbered(view[w])

(* The inductive invariant: one connection writes at a time, and what any   *)
(* transaction sees is its batch so far applied to the store it will        *)
(* replace, because nothing can commit while it holds a lock.               *)
TxInv ==
    /\ TypeOK
    /\ \A v, w \in Writers : Writing(v) /\ Writing(w) => v = w
    /\ \A w \in Writers : WriterOK(w)
    /\ Numbered(store)
    /\ TimeIsFresh
=============================================================================
