-------------------------- MODULE SchemaOpenProofs --------------------------
(***************************************************************************)
(* Proofs about SchemaOpen, PluginCatalog and Commands, for any number of  *)
(* clients and of tables and any directory of manifests.                   *)
(***************************************************************************)
EXTENDS Commands, WellFoundedInduction, TLAPS

(* What no step undoes, whoever takes it.                                  *)
FileKept ==
    /\ ours' = ours
    /\ exists => exists'
    /\ Ready => Ready'
    /\ ~Foreign /\ version <= Latest => ~Foreign' /\ version' <= Latest
    /\ version = Latest => version' = Latest
    /\ \A i \in Tables : table[i] = "core" => table'[i] = "core"

FileInv ==
    /\ ~exists => ours /\ Absent
    /\ Absent => version = 0
    /\ ours => ~Foreign /\ version <= Latest

Untouched(d) ==
    /\ pc'[d] = pc[d] /\ saw'[d] = saw[d] /\ at'[d] = at[d]
    /\ result'[d] = result[d] /\ before'[d] = before[d]

LEMMA UnchangedFileKept == ASSUME UNCHANGED file PROVE FileKept
BY DEF file, FileKept, Ready, Foreign, Tables

LEMMA BystanderInv ==
    ASSUME NEW d \in Clients, TypeOK, ClientInv(d), FileKept, Untouched(d)
    PROVE  ClientInv(d)'
<1>1. 1..at[d] - 1 \subseteq Tables
  BY SchemaConstantsOK DEF TypeOK, Tables
<1> QED
  BY <1>1 DEF ClientInv, FileKept, Untouched, Latest

LEMMA SchemaInvInit == Init => SchemaInv
<1> SUFFICES ASSUME Init PROVE SchemaInv
  OBVIOUS
<1>1. TypeOK
  BY SchemaConstantsOK DEF Init, TypeOK, TooNew, Latest
<1>2. FileInv
  <2>1. Absent => version = 0
    BY SchemaConstantsOK DEF Init, Absent, Tables, TooNew, Latest
  <2>2. (ours => ~exists) /\ (~exists => ours /\ Absent /\ ~extra)
    BY DEF Init
  <2> QED
    BY <2>1, <2>2 DEF FileInv, Absent, Foreign, Latest
<1>3. ASSUME NEW c \in Clients PROVE ClientInv(c)
  BY SchemaConstantsOK DEF Init, ClientInv
<1> QED
  BY <1>1, <1>2, <1>3 DEF SchemaInv, FileInv

Pcs == {"idle", "connect", "version", "max", "count", "validate", "migrate", "confirm"}

Results == {"none", "missing", "needsMigration", "unknown", "tooNew", "missingTable",
            "incompatible", "opened", "ready", "failed"}

FileTyped ==
    /\ exists \in BOOLEAN /\ extra \in BOOLEAN /\ ours \in BOOLEAN
    /\ table \in [Tables -> {"absent", "core", "other"}]
    /\ version \in 0..TooNew

LEMMA GotoStep ==
    ASSUME TypeOK, FileTyped', NEW c \in Clients, NEW there \in Pcs, Goto(c, there)
    PROVE  /\ TypeOK'
           /\ \A d \in Clients \ {c} : Untouched(d)
           /\ pc'[c] = there /\ at'[c] = 1
           /\ saw'[c] = saw[c] /\ before'[c] = before[c] /\ result'[c] = result[c]
BY SchemaConstantsOK DEF TypeOK, FileTyped, Goto, Untouched, Pcs

LEMMA ReturnStep ==
    ASSUME TypeOK, FileTyped', NEW c \in Clients, NEW what \in Results, Return(c, what)
    PROVE  /\ TypeOK'
           /\ \A d \in Clients \ {c} : Untouched(d)
           /\ pc'[c] = "idle" /\ at'[c] = 1 /\ result'[c] = what
           /\ before'[c] = before[c]
BY SchemaConstantsOK DEF TypeOK, FileTyped, Return, Untouched, Results

(* The steps that leave the file alone.                                    *)
LEMMA ReadingStep ==
    ASSUME SchemaInv, NEW c \in Clients,
           \/ \E k \in {"init", "read"} : Start(c, k)
           \/ FindMigrations(c) \/ ReadMax(c) \/ CountTables(c) \/ ValidateTable(c) \/ Fail(c)
    PROVE  SchemaInv' /\ UNCHANGED file
<1> USE SchemaConstantsOK DEF SchemaInv, Latest, TooNew
<1>1. UNCHANGED file
  BY DEF Start, FindMigrations, ReadMax, CountTables, ValidateTable, Fail
<1>2. FileKept /\ FileInv'
  BY <1>1, UnchangedFileKept DEF FileInv, file, Absent, Foreign
<1>3. FileTyped'
  BY <1>1 DEF TypeOK, FileTyped, file
<1>4. Ready' = Ready /\ Foreign' = Foreign
  BY <1>1 DEF file, Ready, Foreign
<1>5. TypeOK' /\ ClientInv(c)' /\ \A d \in Clients \ {c} : Untouched(d)
  <2> DEFINE Good == TypeOK' /\ ClientInv(c)' /\ \A d \in Clients \ {c} : Untouched(d)
  <2>0. ClientInv(c) /\ table[1] \in {"absent", "core", "other"} /\ 1 \in Tables
    BY DEF TypeOK, Tables
  <2>g. ASSUME NEW there \in {"version", "max", "count"}, Goto(c, there),
               pc[c] \notin {"idle", "connect"}, there = "count" => ~before[c]
        PROVE  Good
    BY <2>g, <2>0, <1>1, <1>3, <1>4, GotoStep DEF ClientInv, Pcs, file
  <2>v. ASSUME Goto(c, "validate"), pc[c] = "max", version = Latest
        PROVE  Good
    BY <2>v, <2>0, <1>1, <1>3, <1>4, GotoStep DEF ClientInv, Pcs, file
  <2>m. ASSUME Goto(c, "migrate"), pc[c] \in {"count", "validate"},
               Ready \/ (~Foreign /\ version <= Latest)
        PROVE  Good
    BY <2>m, <2>0, <1>1, <1>3, <1>4, GotoStep DEF ClientInv, Pcs, file
  <2>r. ASSUME NEW what \in Results, Return(c, what),
               what \in {"ready", "opened"} => Ready,
               before[c] => what \in {"ready", "opened", "failed"}
        PROVE  Good
    BY <2>r, <2>0, <1>1, <1>3, <1>4, ReturnStep DEF ClientInv, file
  <2>1. ASSUME NEW k \in {"init", "read"}, Start(c, k) PROVE Good
    <3>1. TypeOK' /\ \A d \in Clients \ {c} : Untouched(d)
      BY <2>1, <1>3 DEF Start, TypeOK, FileTyped, Untouched, Ready
    <3>2. ClientInv(c)'
      <4>1. /\ pc'[c] \in {"idle", "connect"} /\ at'[c] = at[c] /\ saw'[c] = exists
            /\ before'[c] = Ready /\ result'[c] \in {"none", "missing"}
            /\ pc[c] = "idle" /\ (result'[c] = "missing" => ~exists)
        BY <2>1 DEF Start, TypeOK, Ready
      <4>2. ~exists => ours
        OBVIOUS
      <4> QED
        BY <4>1, <4>2, <2>0, <1>1, <1>4 DEF ClientInv, Ready, file
    <3> QED
      BY <3>1, <3>2
  <2>2. CASE FindMigrations(c)
    BY <2>2, <2>g, <2>0 DEF FindMigrations, ClientInv, Ready
  <2>3. CASE ReadMax(c)
    BY <2>3, <2>g, <2>v, <2>r, <2>0 DEF ReadMax, ClientInv, Ready, Results
  <2>4. CASE CountTables(c)
    <3>1. Absent /\ ~extra => ~Foreign /\ version <= Latest
      BY DEF Absent, Foreign
    <3> QED
      BY <2>4, <3>1, <2>m, <2>r, <2>0 DEF CountTables, ClientInv, Results
  <2>5. CASE ValidateTable(c)
    <3>1. /\ pc[c] \in {"validate", "confirm"} /\ at[c] \in Tables
          /\ kind[c] \in {"init", "read"}
      BY <2>5, <2>0 DEF ValidateTable, ClientInv, TypeOK, Tables
    <3>2. CASE table[at[c]] # "core"
      BY <2>5, <3>1, <3>2, <2>0, <2>r DEF ValidateTable, ClientInv, Ready, Results
    <3>3. CASE table[at[c]] = "core" /\ NextTable(c)
      <4>1. TypeOK' /\ \A d \in Clients \ {c} : Untouched(d)
        BY <3>3, <1>3 DEF NextTable, TypeOK, FileTyped, Untouched
      <4>2. /\ pc'[c] = pc[c] /\ at'[c] = at[c] + 1 /\ at[c] < TableCount
            /\ saw'[c] = saw[c] /\ before'[c] = before[c] /\ result'[c] = result[c]
        BY <3>3 DEF NextTable, TypeOK
      <4>3. ClientInv(c)'
        BY <4>2, <3>1, <3>3, <2>0, <1>1, <1>4 DEF ClientInv, Tables, file
      <4> QED
        BY <4>1, <4>3
    <3>4. CASE table[at[c]] = "core" /\ LastTable(c)
      <4>1. pc[c] = "validate" => Ready
        BY <3>1, <3>4, <2>0 DEF LastTable, ClientInv, Ready, Tables
      <4> QED
        BY <4>1, <3>1, <3>4, <2>0, <2>m, <2>r DEF LastTable, ClientInv, Results
    <3> QED
      BY <2>5, <3>2, <3>3, <3>4 DEF ValidateTable
  <2>6. CASE Fail(c)
    BY <2>6, <2>r DEF Fail, Results
  <2> QED
    BY <2>1, <2>2, <2>3, <2>4, <2>5, <2>6
<1> QED
  BY <1>1, <1>2, <1>5, BystanderInv DEF FileInv

(* The steps that write it, with what they may write.                      *)
LEMMA WritingStep ==
    ASSUME SchemaInv, NEW c \in Clients, Connect(c) \/ CreateTable(c) \/ MarkVersion(c)
    PROVE  /\ SchemaInv' /\ FileKept
           /\ version' # version => \A i \in Tables : table'[i] = "core"
           /\ Foreign \/ version > Latest => UNCHANGED <<table, version>>
<1> USE SchemaConstantsOK DEF SchemaInv, Latest, TooNew
<1>1. CASE Connect(c)
  <2> USE <1>1 DEF Connect, Goto
  <2>1. FileKept /\ FileInv' /\ UNCHANGED <<table, version>>
    BY DEF FileKept, FileInv, Ready, Foreign, Absent, Tables
  <2>2. TypeOK' /\ ClientInv(c)' /\ \A d \in Clients \ {c} : Untouched(d)
    BY DEF TypeOK, ClientInv, Untouched, Ready, Foreign, Tables
  <2> QED
    BY <2>1, <2>2, BystanderInv DEF FileInv
<1>2. CASE CreateTable(c)
  <2> USE <1>2 DEF CreateTable
  <2>c. exists /\ at[c] \in Tables /\ table'[at[c]] # "absent"
    BY DEF TypeOK, ClientInv, Tables
  <2>f. FileKept
    BY <2>c DEF FileKept, Ready, Foreign, TypeOK
  <2>1. FileKept /\ FileInv'
    BY <2>c, <2>f DEF FileKept, FileInv, Absent
  <2>2. TypeOK' /\ ClientInv(c)' /\ \A d \in Clients \ {c} : Untouched(d)
    BY DEF TypeOK, ClientInv, Untouched, Ready, Foreign, Tables
  <2>3. Foreign \/ version > Latest => UNCHANGED <<table, version>>
    BY DEF TypeOK, ClientInv, Ready, Foreign, Tables
  <2> QED
    BY <2>1, <2>2, <2>3, BystanderInv DEF FileInv
<1>3. CASE MarkVersion(c)
  <2> USE <1>3 DEF MarkVersion, Goto
  <2>1. \A i \in Tables : table'[i] = "core"
    BY DEF TypeOK, ClientInv, Tables
  <2>c. exists /\ 1 \in Tables
    BY DEF TypeOK, ClientInv, Tables
  <2>f. FileKept
    BY <2>1 DEF FileKept, Ready, Foreign, TypeOK
  <2>2. FileKept /\ FileInv'
    BY <2>1, <2>c, <2>f DEF FileKept, FileInv, Absent
  <2>3. TypeOK' /\ ClientInv(c)' /\ \A d \in Clients \ {c} : Untouched(d)
    BY <2>1 DEF TypeOK, ClientInv, Untouched, Ready, Foreign, Tables
  <2>4. Foreign \/ version > Latest => UNCHANGED <<table, version>>
    BY DEF TypeOK, ClientInv, Ready, Foreign, Tables
  <2> QED
    BY <2>1, <2>2, <2>3, <2>4, BystanderInv DEF FileInv
<1> QED
  BY <1>1, <1>2, <1>3

LEMMA StutteringStep == SchemaInv /\ UNCHANGED vars => SchemaInv'
BY DEF vars, file, client, SchemaInv, TypeOK, ClientInv, Absent, Foreign, Ready, Tables

LEMMA SchemaInvNext == SchemaInv /\ [Next]_vars => SchemaInv'
BY ReadingStep, WritingStep, StutteringStep DEF Next

(* The inductive invariant of opening and initializing a store, for any    *)
(* number of processes, over any file that may be at the path.             *)
THEOREM SchemaInvariant == Spec => []SchemaInv
BY SchemaInvInit, SchemaInvNext, PTL DEF Spec

(* A recorded version means a whole schema.                                *)
THEOREM MarkerIsLast == Spec => MarkerComesLast
<1>1. SchemaInv /\ [Next]_vars => [version' # version => \A i \in Tables : table'[i] = "core"]_vars
  BY ReadingStep, WritingStep DEF Next, file
<1> QED
  BY <1>1, SchemaInvariant, PTL DEF Spec, MarkerComesLast

(* Nothing is written to a file that is another program's or a newer one's. *)
THEOREM ForeignStaysUntouched == Spec => ForeignUntouched
<1>1. SchemaInv /\ [Next]_vars
        => [Foreign \/ version > Latest => UNCHANGED <<table, version>>]_vars
  BY ReadingStep, WritingStep DEF Next, file
<1> QED
  BY <1>1, SchemaInvariant, PTL DEF Spec, ForeignUntouched

(* Who is told that the store may be used has a whole schema.              *)
THEOREM AcceptedStaysReady == Spec => []AcceptedIsReady
<1>1. SchemaInv => AcceptedIsReady
  BY DEF SchemaInv, ClientInv, AcceptedIsReady
<1> QED
  BY <1>1, SchemaInvariant, PTL

(* A store that was ready is not turned away.                              *)
THEOREM ReadyStaysAccepted == Spec => []ReadyIsAccepted
<1>1. SchemaInv => ReadyIsAccepted
  BY DEF SchemaInv, ClientInv, ReadyIsAccepted
<1> QED
  BY <1>1, SchemaInvariant, PTL
---------------------------------------------------------------------------
(* The plugins.d directory.                                                *)

(* Counting up: what holds of 0 and passes from n - 1 to n holds up to N.  *)
LEMMA CountingUp ==
    ASSUME NEW N \in Nat, NEW P, 0 \in P, \A n \in 1..N : n - 1 \in P => n \in P
    PROVE  0..N \subseteq P
<1> DEFINE T == (0..N) \ P
<1>1. SUFFICES ASSUME T # {} PROVE FALSE
  OBVIOUS
<1>2. PICK x \in T : \A y \in T : ~(<<y, x>> \in OpToRel(<, Nat))
  <2>1. T \subseteq Nat
    OBVIOUS
  <2> HIDE DEF T
  <2> QED
    BY <1>1, <2>1, NatLessThanWellFounded, WFMin
<1>3. x # 0 /\ x - 1 \in T
  OBVIOUS
<1>4. <<x - 1, x>> \in OpToRel(<, Nat)
  BY <1>3 DEF OpToRel
<1> QED
  BY <1>2, <1>3, <1>4

(* The turns of a loop over N positions with a state in S, and the traces   *)
(* it has from s.                                                          *)
Turns(N, S) == [1..N -> [S -> S]]

Traces(N, S, s, turn) ==
    {g \in [0..N -> S] : g[0] = s /\ \A n \in 1..N : g[n] = turn[n][g[n - 1]]}

(* A loop, whatever its turns do, has a trace.                             *)
LEMMA LoopHasTrace ==
    ASSUME NEW N \in Nat, NEW S, NEW s \in S, NEW turn \in Turns(N, S)
    PROVE  Traces(N, S, s, turn) # {}
<1> USE DEF Turns
<1> DEFINE Is(g, n) == g[0] = s /\ \A m \in 1..n : g[m] = turn[m][g[m - 1]]
           P == {n \in 0..N : \E g \in [0..n -> S] : Is(g, n)}
<1>1. 0 \in P
  <2>1. [m \in 0..0 |-> s] \in [0..0 -> S] /\ Is([m \in 0..0 |-> s], 0)
    OBVIOUS
  <2>2. \E g \in [0..0 -> S] : Is(g, 0)
    BY <2>1
  <2> HIDE DEF Is
  <2> QED
    BY <2>2
<1>2. ASSUME NEW n \in 1..N, n - 1 \in P PROVE n \in P
  <2>1. PICK g \in [0..(n - 1) -> S] : Is(g, n - 1)
    BY <1>2
  <2> DEFINE h == [m \in 0..n |-> IF m = n THEN turn[n][g[n - 1]] ELSE g[m]]
  <2>2. h \in [0..n -> S]
    OBVIOUS
  <2>3. \A m \in 1..n : h[m] = turn[m][h[m - 1]]
    <3> TAKE m \in 1..n
    <3>1. CASE m = n
      BY <3>1
    <3>2. CASE m # n
      <4>1. m \in 1..(n - 1) /\ h[m] = g[m] /\ h[m - 1] = g[m - 1]
        BY <3>2
      <4> QED
        BY <4>1, <2>1
    <3> QED
      BY <3>1, <3>2
  <2>4. h[0] = s
    BY <2>1
  <2>5. Is(h, n)
    BY <2>3, <2>4
  <2>6. \E f \in [0..n -> S] : Is(f, n)
    BY <2>2, <2>5
  <2> HIDE DEF Is, h
  <2> QED
    BY <2>6
<1>3. N \in P
  <2> HIDE DEF P
  <2>1. 0..N \subseteq P
    BY <1>1, <1>2, CountingUp
  <2> QED
    BY <2>1
<1> QED
  BY <1>3 DEF Traces

(* The manifests of a directory are manifests.                             *)
LEMMA ManifestsTyped == ASSUME NEW d \in Seq(Manifest) PROVE Manifests(d) \in Seq(Manifest)
<1> DEFINE turn == [n \in 1..Len(d) |->
                      [k \in Seq(Manifest) |-> IF d[n].json THEN Append(k, d[n]) ELSE k]]
<1>1. Len(d) \in Nat /\ <<>> \in Seq(Manifest)
  OBVIOUS
<1>2. turn \in Turns(Len(d), Seq(Manifest))
  BY DEF Turns
<1>t. ASSUME NEW n \in 1..Len(d), NEW k \in Seq(Manifest)
      PROVE  turn[n][k] = IF d[n].json THEN Append(k, d[n]) ELSE k
  OBVIOUS
<1> HIDE DEF turn
<1>0. Traces(Len(d), Seq(Manifest), <<>>, turn) # {}
  BY <1>1, <1>2, LoopHasTrace, Zenon
<1>3. PICK g \in Traces(Len(d), Seq(Manifest), <<>>, turn) : TRUE
  BY <1>0, Zenon
<1>s. /\ g \in [0..Len(d) -> Seq(Manifest)] /\ g[0] = <<>>
      /\ \A n \in 1..Len(d) : g[n - 1] \in Seq(Manifest) /\ g[n] = turn[n][g[n - 1]]
  <2>1. \A n \in 1..Len(d) : n - 1 \in 0..Len(d)
    BY <1>1
  <2> QED
    BY <2>1 DEF Traces
<1>4. g = [n \in 0..Len(d) |->
             IF n = 0 THEN <<>>
             ELSE IF d[n].json THEN Append(g[n - 1], d[n])
             ELSE g[n - 1]]
  <2>1. ASSUME NEW n \in 1..Len(d)
        PROVE  g[n] = IF d[n].json THEN Append(g[n - 1], d[n]) ELSE g[n - 1]
    BY <1>s, <1>t, Zenon
  <2>2. \A n \in 0..Len(d) : n # 0 => n \in 1..Len(d)
    BY <1>1
  <2> QED
    BY <1>s, <2>1, <2>2
<1> DEFINE kept[n \in 0..Len(d)] ==
             IF n = 0 THEN <<>>
             ELSE IF d[n].json THEN Append(kept[n - 1], d[n])
             ELSE kept[n - 1]
<1>5. kept = [n \in 0..Len(d) |->
                IF n = 0 THEN <<>>
                ELSE IF d[n].json THEN Append(kept[n - 1], d[n])
                ELSE kept[n - 1]]
  BY <1>4, Zenon
<1>6. Manifests(d) = kept[Len(d)]
  BY DEF Manifests
<1> HIDE DEF kept
<1>7. \A n \in 0..Len(d) : kept[n] \in Seq(Manifest)
  <2> DEFINE P == {n \in 0..Len(d) : kept[n] \in Seq(Manifest)}
  <2>1. 0 \in P
    BY <1>1, <1>5
  <2>2. ASSUME NEW n \in 1..Len(d), n - 1 \in P PROVE n \in P
    <3>1. n \in 0..Len(d) /\ n # 0
      BY <1>1
    <3>2. kept[n] = IF d[n].json THEN Append(kept[n - 1], d[n]) ELSE kept[n - 1]
      BY <1>5, <3>1
    <3>3. kept[n - 1] \in Seq(Manifest) /\ d[n] \in Manifest
      BY <2>2
    <3>4. kept[n] \in Seq(Manifest)
      BY <3>2, <3>3
    <3> QED
      BY <3>1, <3>4
  <2>3. 0..Len(d) \subseteq P
    <3> HIDE DEF P
    <3> QED
      BY <1>1, <2>1, <2>2, CountingUp
  <2> QED
    BY <2>3
<1> QED
  BY <1>1, <1>6, <1>7

Errors == {"none", "io", "json", "empty argv", "environment", "no id", "empty id", "duplicate id"}

Founds == [error : Errors, ids : Seq(Names)]

(* What is wrong with a manifest by itself, for a run and for the UI.      *)
LEMMA SameErrors ==
    ASSUME NEW m \in Manifest, NEW seen
    PROVE  /\ Trouble(m, seen) \in Errors
           /\ Trouble(m, seen) = "none" <=> OwnErrors(m) = {} /\ IdOf(m) \notin seen
           /\ IdOf(m) \in Names
           /\ OwnErrors(m) = {} =>
                 ShownId(m) = IdOf(m) /\ IdOf(m) \notin {Blank, NoName}
<1> DEFINE E == EnvironmentErrors(m.literal, m.inherited)
           C == {e[1] : e \in E}
<1>1. C = {} <=> E = {}
  OBVIOUS
<1>2. m.text \in {"ok", "unreadable", "malformed"} /\ m.argv \in BOOLEAN
      /\ m.id \in Names /\ m.source \in Names /\ m.stem \in Names
  BY DEF Manifest
<1>3. IdOf(m) \in Names
  BY <1>2 DEF IdOf
<1>4. OwnErrors(m) = {} <=>
        /\ m.text = "ok" /\ m.argv /\ C = {} /\ IdOf(m) # Blank /\ IdOf(m) # NoName
  <2> HIDE DEF E
  <2> QED
    BY <1>2 DEF OwnErrors, E
<1>5. Trouble(m, seen) \in Errors
      /\ (Trouble(m, seen) = "none" <=>
           /\ m.text = "ok" /\ m.argv /\ E = {}
           /\ IdOf(m) # Blank /\ IdOf(m) # NoName /\ IdOf(m) \notin seen)
  <2> HIDE DEF E
  <2> QED
    BY <1>2 DEF Trouble, Errors, E
<1> QED
  BY <1>1, <1>3, <1>4, <1>5 DEF ShownId

(* Nothing is wrong with a file, nor has an earlier one its id.            *)
Good(files, i) ==
    OwnErrors(files[i]) = {} /\ \A j \in 1..i - 1 : IdOf(files[j]) # IdOf(files[i])

(* What was found in the first n files.                                    *)
FoundIn(files, n, x) ==
    /\ x \in Founds
    /\ x.error = "none" <=> \A i \in 1..n : Good(files, i)
    /\ x.error = "none" => Len(x.ids) = n /\ \A i \in 1..n : x.ids[i] = IdOf(files[i])

LEMMA LoadTyped == ASSUME NEW x \in Founds, NEW m \in Manifest PROVE Load(x, m) \in Founds
<1> DEFINE trouble == Trouble(m, ToSet(x.ids))
<1>1. trouble \in Errors /\ IdOf(m) \in Names
  BY SameErrors
<1>2. <<>> \in Seq(Names) /\ Append(x.ids, IdOf(m)) \in Seq(Names) /\ "none" \in Errors
  <2>1. x.ids \in Seq(Names)
    BY DEF Founds
  <2>2. "none" \in Errors
    BY DEF Errors
  <2> QED
    BY <1>1, <2>1, <2>2
<1>3. Load(x, m) = IF x.error # "none" THEN x
                   ELSE IF trouble # "none" THEN [error |-> trouble, ids |-> <<>>]
                   ELSE [error |-> "none", ids |-> Append(x.ids, IdOf(m))]
  BY DEF Load
<1> QED
  BY <1>1, <1>2, <1>3 DEF Founds

LEMMA LoadStep ==
    ASSUME NEW files \in Seq(Manifest), NEW n \in 1..Len(files), NEW x,
           FoundIn(files, n - 1, x)
    PROVE  FoundIn(files, n, Load(x, files[n]))
<1> DEFINE m == files[n]
           trouble == Trouble(m, ToSet(x.ids))
<1>1. m \in Manifest /\ x \in Founds
  BY DEF FoundIn
<1>2. Load(x, m) \in Founds
  BY <1>1, LoadTyped
<1>3. CASE x.error # "none"
  <2>1. Load(x, m) = x
    BY <1>3 DEF Load
  <2>2. \A i \in 1..n - 1 : i \in 1..n
    OBVIOUS
  <2> QED
    BY <1>1, <1>3, <2>1, <2>2 DEF FoundIn
<1>4. CASE x.error = "none"
  <2>1. Len(x.ids) = n - 1 /\ x.ids \in Seq(Names)
        /\ \A i \in 1..n - 1 : x.ids[i] = IdOf(files[i])
    BY <1>4 DEF FoundIn, Founds
  <2>2. ToSet(x.ids) = {IdOf(files[j]) : j \in 1..n - 1}
    BY <2>1 DEF ToSet
  <2>3. trouble = "none" <=> Good(files, n)
    <3>1. trouble = "none" <=> OwnErrors(m) = {} /\ IdOf(m) \notin ToSet(x.ids)
      BY <1>1, SameErrors, Zenon
    <3> QED
      BY <3>1, <2>2 DEF Good
  <2>4. (\A i \in 1..n : Good(files, i)) <=> Good(files, n) /\ \A i \in 1..n - 1 : Good(files, i)
    <3>1. \A i \in 1..n : i = n \/ i \in 1..n - 1
      OBVIOUS
    <3> QED
      BY <3>1
  <2>5. \A i \in 1..n - 1 : Good(files, i)
    BY <1>4 DEF FoundIn
  <2>6. CASE trouble # "none"
    <3>1. Load(x, m).error # "none"
      BY <1>4, <2>6 DEF Load
    <3> QED
      BY <1>2, <2>3, <2>4, <2>6, <3>1 DEF FoundIn
  <2>7. CASE trouble = "none"
    <3>1. Load(x, m) = [error |-> "none", ids |-> Append(x.ids, IdOf(m))]
      BY <1>4, <2>7 DEF Load
    <3>2. IdOf(m) \in Names
      BY <1>1, SameErrors
    <3>3. Len(Append(x.ids, IdOf(m))) = n
          /\ \A i \in 1..n : Append(x.ids, IdOf(m))[i] = IdOf(files[i])
      <4> HIDE DEF m
      <4>1. Len(Append(x.ids, IdOf(m))) = n
            /\ Append(x.ids, IdOf(m))[n] = IdOf(m)
            /\ \A i \in 1..n - 1 : Append(x.ids, IdOf(m))[i] = x.ids[i]
        BY <2>1, <3>2
      <4> QED
        BY <4>1, <2>1 DEF m
    <3> HIDE DEF m
    <3>4. Load(x, m).error = "none" /\ Load(x, m).ids = Append(x.ids, IdOf(m))
      BY <3>1
    <3>5. FoundIn(files, n, Load(x, m))
      BY <1>2, <2>3, <2>4, <2>5, <2>7, <3>3, <3>4 DEF FoundIn
    <3> QED
      BY <3>5 DEF m
  <2> QED
    BY <2>6, <2>7
<1> QED
  BY <1>3, <1>4

(* The loop of discover_plugins over any directory.                        *)
LEMMA DiscoverFinds ==
    ASSUME NEW d \in Seq(Manifest)
    PROVE  FoundIn(Manifests(d), Len(Manifests(d)), DiscoverPlugins(d))
<1> DEFINE files == Manifests(d)
           N == Len(files)
           none == [error |-> "none", ids |-> <<>>]
           turn == [n \in 1..N |-> [x \in Founds |-> Load(x, files[n])]]
<1>1. files \in Seq(Manifest) /\ N \in Nat
  BY ManifestsTyped
<1>2. none \in Founds /\ FoundIn(files, 0, none)
  BY DEF Founds, Errors, FoundIn
<1>d. DiscoverPlugins(d) =
        LET found[n \in 0..N] == IF n = 0 THEN none ELSE Load(found[n - 1], files[n])
        IN found[N]
  BY DEF DiscoverPlugins
<1> HIDE DEF files
<1>3. turn \in Turns(N, Founds)
  BY <1>1, LoadTyped DEF Turns
<1>t. ASSUME NEW n \in 1..N, NEW x \in Founds PROVE turn[n][x] = Load(x, files[n])
  OBVIOUS
<1> HIDE DEF turn, none, N
<1>0. Traces(N, Founds, none, turn) # {}
  BY <1>1, <1>2, <1>3, LoopHasTrace, Zenon
<1>4. PICK g \in Traces(N, Founds, none, turn) : TRUE
  BY <1>0, Zenon
<1>s. /\ g \in [0..N -> Founds] /\ g[0] = none
      /\ \A n \in 1..N : g[n - 1] \in Founds /\ g[n] = turn[n][g[n - 1]]
  <2>1. \A n \in 1..N : n - 1 \in 0..N
    BY <1>1
  <2> QED
    BY <2>1 DEF Traces
<1>5. g = [n \in 0..N |-> IF n = 0 THEN none ELSE Load(g[n - 1], files[n])]
  <2>1. ASSUME NEW n \in 1..N PROVE g[n] = Load(g[n - 1], files[n])
    BY <1>s, <1>t, Zenon
  <2>2. \A n \in 0..N : n # 0 => n \in 1..N
    BY <1>1
  <2> QED
    BY <1>s, <2>1, <2>2
<1> DEFINE found[n \in 0..N] == IF n = 0 THEN none ELSE Load(found[n - 1], files[n])
<1>6. found = [n \in 0..N |-> IF n = 0 THEN none ELSE Load(found[n - 1], files[n])]
  BY <1>5, Zenon
<1>7. DiscoverPlugins(d) = found[N]
  BY <1>d
<1> HIDE DEF found
<1>8. \A n \in 0..N : FoundIn(files, n, found[n])
  <2> DEFINE P == {n \in 0..N : FoundIn(files, n, found[n])}
  <2>1. 0 \in P
    BY <1>1, <1>2, <1>6
  <2>2. ASSUME NEW n \in 1..N, n - 1 \in P PROVE n \in P
    <3>1. n \in 0..N /\ n # 0 /\ n \in 1..Len(files)
      BY <1>1 DEF N
    <3>2. found[n] = Load(found[n - 1], files[n])
      BY <1>6, <3>1
    <3>3. FoundIn(files, n - 1, found[n - 1])
      BY <2>2
    <3>4. FoundIn(files, n, found[n])
      BY <1>1, <3>1, <3>2, <3>3, LoadStep
    <3> QED
      BY <3>1, <3>4
  <2>3. 0..N \subseteq P
    <3> HIDE DEF P
    <3> QED
      BY <1>1, <2>1, <2>2, CountingUp
  <2> QED
    BY <2>3
<1> QED
  BY <1>1, <1>7, <1>8 DEF files, N

(* What the UI shows of any directory is what a run finds there.           *)
LEMMA LoopsAgree == ASSUME NEW d \in Seq(Manifest) PROVE Agreed(d)
<1> DEFINE files == Manifests(d)
           found == DiscoverPlugins(d)
           shown == InspectManifests(d)
           Twice(i) == /\ ShownId(files[i]) \notin {Blank, NoName}
                       /\ \E j \in DOMAIN files \ {i} : ShownId(files[j]) = ShownId(files[i])
<1>1. files \in Seq(Manifest) /\ DOMAIN files = 1..Len(files) /\ Len(files) \in Nat
  BY ManifestsTyped
<1>2. FoundIn(files, Len(files), found)
  BY DiscoverFinds
<1>3. shown = [i \in DOMAIN files |->
                 [id |-> ShownId(files[i]),
                  errors |-> OwnErrors(files[i]) \cup (IF Twice(i) THEN {"duplicate"} ELSE {})]]
  BY DEF InspectManifests
<1> HIDE DEF files, found, shown
<1>4. /\ DOMAIN shown = DOMAIN files
      /\ \A i \in DOMAIN files : shown[i].id = ShownId(files[i])
      /\ \A i \in DOMAIN files : Valid(shown[i]) <=> OwnErrors(files[i]) = {} /\ ~Twice(i)
  BY <1>3 DEF Valid
<1>5. \A i \in DOMAIN files : OwnErrors(files[i]) = {} =>
         ShownId(files[i]) = IdOf(files[i]) /\ IdOf(files[i]) \notin {Blank, NoName}
  <2>1. \A i \in DOMAIN files : files[i] \in Manifest
    BY <1>1
  <2> QED
    BY <2>1, SameErrors
<1>6. (\A i \in DOMAIN files : Valid(shown[i])) => \A i \in DOMAIN files : Good(files, i)
  BY <1>1, <1>4, <1>5 DEF Good
<1>7. ASSUME \A i \in DOMAIN files : Good(files, i), NEW h \in DOMAIN files
      PROVE  Valid(shown[h])
  <2>1. ASSUME Twice(h) PROVE FALSE
    <3>1. PICK j \in DOMAIN files \ {h} : ShownId(files[j]) = ShownId(files[h])
      BY <2>1
    <3>2. IdOf(files[j]) = IdOf(files[h])
      BY <1>5, <1>7, <3>1 DEF Good
    <3>3. j \in 1..h - 1 \/ h \in 1..j - 1
      BY <1>1
    <3> QED
      BY <1>7, <3>2, <3>3 DEF Good
  <2> QED
    BY <1>4, <1>7, <2>1 DEF Good
<1>8. found.error = "none" <=> \A i \in DOMAIN shown : Valid(shown[i])
  BY <1>1, <1>2, <1>4, <1>6, <1>7 DEF FoundIn
<1>9. ASSUME found.error = "none" PROVE found.ids = [k \in DOMAIN shown |-> shown[k].id]
  <2>1. /\ found.ids \in Seq(Names) /\ Len(found.ids) = Len(files)
        /\ \A i \in DOMAIN files : found.ids[i] = IdOf(files[i])
        /\ \A i \in DOMAIN files : Good(files, i)
    BY <1>1, <1>2, <1>9 DEF FoundIn, Founds
  <2>2. \A i \in DOMAIN files : shown[i].id = IdOf(files[i])
    BY <1>4, <1>5, <2>1 DEF Good
  <2>3. found.ids = [i \in DOMAIN files |-> found.ids[i]]
    <3>1. \A s \in Seq(Names) : s = [i \in 1..Len(s) |-> s[i]]
      OBVIOUS
    <3> QED
      BY <1>1, <2>1, <3>1
  <2> QED
    BY <1>4, <2>1, <2>2, <2>3
<1> QED
  BY <1>8, <1>9 DEF Agreed, found, shown

---------------------------------------------------------------------------
(* The commands.                                                           *)

(* A step of a command that is not one on the store.                       *)
CommandStep(c) ==
    \/ Refuse(c) \/ StoreRefused(c) \/ PrintAnswer(c)
    \/ OpenedForRun(c) \/ FindPlugin(c) \/ HostReturns(c)
    \/ IngestRecords(c) \/ PrintReport(c) \/ Killed(c)

LEMMA CommandStepKeepsStore ==
    ASSUME NEW c \in Clients, CommandStep(c)
    PROVE  UNCHANGED vars /\ dir' = dir
BY DEF CommandStep, Refuse, StoreRefused, PrintAnswer, OpenedForRun, FindPlugin, HostReturns,
       IngestRecords, PrintReport, Killed, Exit, Advance

LEMMA CallStarts ==
    ASSUME NEW c \in Clients, NEW cmd \in DOMAIN KindOf, Call(c, cmd)
    PROVE  \E k \in {"init", "read"} : Start(c, k)
BY DEF Call, KindOf

LEMMA CommandNextShape ==
    ASSUME CommandNext
    PROVE  \E c \in Clients : (\E cmd \in DOMAIN KindOf : Call(c, cmd)) \/ StoreStep(c) \/ CommandStep(c)
BY DEF CommandNext, CommandStep

(* The commands do nothing to a store file that SchemaOpen does not allow. *)
THEOREM CommandsImplementStore == CommandSpec => Spec
<1>1. CommandInit => Init
  BY DEF CommandInit
<1>2. [CommandNext]_allVars => [Next]_vars
  <2>1. CASE UNCHANGED allVars
    BY <2>1 DEF allVars
  <2>2. CASE CommandNext
    <3>1. PICK c \in Clients :
             (\E cmd \in DOMAIN KindOf : Call(c, cmd)) \/ StoreStep(c) \/ CommandStep(c)
      BY <2>2, CommandNextShape
    <3>2. CASE \E cmd \in DOMAIN KindOf : Call(c, cmd)
      BY <3>2, CallStarts DEF Next
    <3>3. CASE StoreStep(c)
      BY <3>3 DEF StoreStep, Next
    <3>4. CASE CommandStep(c)
      BY <3>4, CommandStepKeepsStore
    <3> QED
      BY <3>1, <3>2, <3>3, <3>4
  <2> QED
    BY <2>1, <2>2
<1> QED
  BY <1>1, <1>2, PTL DEF CommandSpec, Spec

LEMMA DirKept == [CommandNext]_allVars => dir' = dir
<1>1. CASE UNCHANGED allVars
  BY <1>1 DEF allVars
<1>2. CASE CommandNext
  <2>1. PICK c \in Clients :
           (\E cmd \in DOMAIN KindOf : Call(c, cmd)) \/ StoreStep(c) \/ CommandStep(c)
    BY <1>2, CommandNextShape
  <2> QED
    BY <2>1, CommandStepKeepsStore DEF Call, StoreStep
<1> QED
  BY <1>1, <1>2

(* Every directory, whatever is in it.                                     *)
THEOREM InspectionAgrees == CommandSpec => []InspectionAgreesWithDiscovery
<1>1. CommandInit => dir \in Seq(Manifest)
  BY DEF CommandInit
<1>2. dir \in Seq(Manifest) /\ [CommandNext]_allVars => (dir \in Seq(Manifest))'
  BY DirKept
<1>3. dir \in Seq(Manifest) => InspectionAgreesWithDiscovery
  BY LoopsAgree DEF InspectionAgreesWithDiscovery
<1> QED
  BY <1>1, <1>2, <1>3, PTL DEF CommandSpec

(* The plugin a run goes on with is one the UI offers.                     *)
LEMMA FoundIsOffered ==
    ASSUME dir \in Seq(Manifest), NEW id,
           DiscoverPlugins(dir).error = "none", id \in ToSet(DiscoverPlugins(dir).ids)
    PROVE  Offered(id)
<1> DEFINE found == DiscoverPlugins(dir)
           shown == InspectManifests(dir)
<1>1. Agreed(dir)
  BY LoopsAgree
<1>2. /\ \A i \in DOMAIN shown : Valid(shown[i])
      /\ found.ids = [i \in DOMAIN shown |-> shown[i].id]
  BY <1>1 DEF Agreed
<1> HIDE DEF found, shown
<1>3. \E i \in DOMAIN shown : shown[i].id = id
  <2>1. id \in ToSet(found.ids)
    BY DEF found
  <2> QED
    BY <1>2, <2>1 DEF ToSet
<1> QED
  BY <1>2, <1>3 DEF Offered, shown

(* What CommandInv says of one client.                                     *)
ClientTold(c) ==
    /\ exit[c] = "success" => Ready
    /\ exit[c] = "error" => ~stored[c]
    /\ stage[c] = "print" => stored[c]
    /\ stored[c] => Ready /\ Offered(wanted[c])
    /\ command[c] # "none" => exit[c] = "none"
    /\ command[c] # "none" /\ stage[c] # "print" => ~stored[c]
    /\ stage[c] # "store" => command[c] = "discover" /\ Usable(c)
    /\ stage[c] \in {"host", "ingest", "print"} => Offered(wanted[c])

LEMMA CommandInvParts == CommandInv <=> CommandTypeOK /\ \A c \in Clients : ClientTold(c)
BY DEF CommandInv, ExitTellsOutcome, StageInv, ClientTold

(* What a step of client c leaves of another client.                       *)
Elsewhere(d) ==
    /\ pc'[d] = pc[d] /\ result'[d] = result[d]
    /\ command'[d] = command[d] /\ stage'[d] = stage[d] /\ wanted'[d] = wanted[d]
    /\ stored'[d] = stored[d] /\ exit'[d] = exit[d]

LEMMA BystanderTold ==
    ASSUME NEW d \in Clients, ClientTold(d), Elsewhere(d), dir' = dir, Ready => Ready'
    PROVE  ClientTold(d)'
<1>1. \A id : Offered(id)' = Offered(id)
  BY DEF Offered
<1> QED
  BY <1>1 DEF ClientTold, Elsewhere, Usable

(* A step of Next on behalf of c: it keeps what a client was told, and     *)
(* where the other clients are.                                            *)
LEMMA StoreActs ==
    ASSUME SchemaInv, NEW c \in Clients,
           \/ \E k \in {"init", "read"} : Start(c, k)
           \/ Connect(c) \/ FindMigrations(c) \/ ReadMax(c) \/ CountTables(c)
           \/ ValidateTable(c) \/ CreateTable(c) \/ MarkVersion(c) \/ Fail(c)
    PROVE  /\ Ready => Ready'
           /\ \A d \in Clients \ {c} : pc'[d] = pc[d] /\ result'[d] = result[d]
<1>1. Ready => Ready'
  BY ReadingStep, WritingStep, UnchangedFileKept DEF FileKept
<1>2. \A d \in Clients \ {c} : pc'[d] = pc[d] /\ result'[d] = result[d]
  BY DEF SchemaInv, TypeOK, Start, Connect, FindMigrations, ReadMax, CountTables,
         ValidateTable, CreateTable, MarkVersion, Fail, Goto, Return, NextTable, LastTable
<1> QED
  BY <1>1, <1>2

LEMMA StoreStepInv ==
    ASSUME SchemaInv, CommandInv, NEW c \in Clients, StoreStep(c)
    PROVE  CommandInv'
<1>1. dir' = dir /\ UNCHANGED commandVars /\ command[c] # "none"
  BY DEF StoreStep
<1>2. (Ready => Ready') /\ \A d \in Clients \ {c} : pc'[d] = pc[d] /\ result'[d] = result[d]
  BY StoreActs DEF StoreStep
<1>3. pc[c] # "idle"
  BY DEF StoreStep, Connect, FindMigrations, ReadMax, CountTables, ValidateTable,
         CreateTable, MarkVersion, Fail
<1>4. CommandTypeOK'
  BY <1>1, CommandInvParts DEF CommandTypeOK, commandVars
<1>5. ClientTold(c) /\ \A d \in Clients : ClientTold(d)
  BY CommandInvParts
<1>6. ClientTold(c)'
  BY <1>1, <1>2, <1>3, <1>5 DEF ClientTold, Usable, commandVars
<1>7. \A d \in Clients \ {c} : ClientTold(d)'
  BY <1>1, <1>2, <1>5, BystanderTold DEF Elsewhere, commandVars
<1>8. \A d \in Clients : ClientTold(d)'
  BY <1>6, <1>7
<1>9. CommandInv' <=> CommandTypeOK' /\ \A d \in Clients : ClientTold(d)'
  BY DEF CommandInv, ExitTellsOutcome, StageInv, ClientTold
<1> QED
  BY <1>4, <1>8, <1>9

LEMMA CallInv ==
    ASSUME SchemaInv, CommandInv, NEW c \in Clients, NEW cmd \in DOMAIN KindOf, Call(c, cmd)
    PROVE  CommandInv'
<1>1. dir' = dir /\ UNCHANGED <<stage, wanted>> /\ command[c] = "none"
      /\ command' = [command EXCEPT ![c] = cmd]
      /\ stored' = [stored EXCEPT ![c] = FALSE]
      /\ exit' = [exit EXCEPT ![c] = "none"]
  BY DEF Call
<1>2. (Ready => Ready') /\ \A d \in Clients \ {c} : pc'[d] = pc[d] /\ result'[d] = result[d]
  BY StoreActs, CallStarts
<1>4. CommandTypeOK' /\ CommandTypeOK
  BY <1>1, CommandInvParts DEF CommandTypeOK
<1>5. ClientTold(c) /\ \A d \in Clients : ClientTold(d)
  BY CommandInvParts
<1>6. ClientTold(c)'
  <2>1. stage'[c] = "store" /\ stored'[c] = FALSE /\ exit'[c] = "none"
    BY <1>1, <1>4, <1>5 DEF ClientTold, CommandTypeOK
  <2> QED
    BY <2>1 DEF ClientTold
<1>7. \A d \in Clients \ {c} : ClientTold(d)'
  <2>1. \A d \in Clients \ {c} : Elsewhere(d)
    BY <1>1, <1>2, <1>4 DEF Elsewhere, CommandTypeOK
  <2> QED
    BY <1>1, <1>2, <1>5, <2>1, BystanderTold
<1>8. \A d \in Clients : ClientTold(d)'
  BY <1>6, <1>7
<1>9. CommandInv' <=> CommandTypeOK' /\ \A d \in Clients : ClientTold(d)'
  BY DEF CommandInv, ExitTellsOutcome, StageInv, ClientTold
<1> QED
  BY <1>4, <1>8, <1>9

(* A step of a command changes no more than what it is about its client.   *)
LEMMA CommandStepFrame ==
    ASSUME CommandTypeOK, NEW c \in Clients, CommandStep(c)
    PROVE  /\ CommandTypeOK'
           /\ \A d \in Clients \ {c} : Elsewhere(d)
<1>1. CommandTypeOK'
  <2>e. ASSUME NEW how \in {"success", "error", "died"}, Exit(c, how) PROVE CommandTypeOK'
    BY <2>e DEF CommandTypeOK, Exit
  <2>a. ASSUME NEW from, NEW to \in {"plugins", "host", "ingest", "print"}, Advance(c, from, to),
               stored' \in [Clients -> BOOLEAN]
        PROVE  CommandTypeOK'
    BY <2>a DEF CommandTypeOK, Advance
  <2>1. CASE Refuse(c)
    BY <2>1 DEF Refuse, CommandTypeOK
  <2>2. CASE StoreRefused(c) \/ PrintAnswer(c) \/ PrintReport(c) \/ Killed(c)
    BY <2>2, <2>e DEF StoreRefused, PrintAnswer, PrintReport, Killed
  <2>3. CASE OpenedForRun(c) \/ FindPlugin(c) \/ HostReturns(c) \/ IngestRecords(c)
    BY <2>3, <2>e, <2>a DEF OpenedForRun, FindPlugin, HostReturns, IngestRecords, CommandTypeOK
  <2> QED
    BY <2>1, <2>2, <2>3 DEF CommandStep
<1>2. pc' = pc /\ result' = result
  BY CommandStepKeepsStore DEF vars, client
<1>3. \A d \in Clients \ {c} : Elsewhere(d)
  BY <1>2
     DEF Elsewhere, CommandTypeOK, CommandStep, Refuse, StoreRefused, PrintAnswer, OpenedForRun,
         FindPlugin, HostReturns, IngestRecords, PrintReport, Killed, Exit, Advance
<1> QED
  BY <1>1, <1>3

LEMMA CommandStepTold ==
    ASSUME SchemaInv, CommandInv, NEW c \in Clients, CommandStep(c)
    PROVE  ClientTold(c)'
<1>1. UNCHANGED vars /\ dir' = dir
  BY CommandStepKeepsStore
<1>2. /\ Ready' = Ready /\ Usable(c)' = Usable(c)
      /\ \A id : Offered(id)' = Offered(id)
  BY <1>1 DEF vars, file, client, Ready, Usable, Offered
<1>3. Usable(c) => Ready
  BY DEF SchemaInv, ClientInv, Usable
<1>4. CommandTypeOK /\ ClientTold(c)
  BY CommandInvParts
<1> DEFINE Told == ClientTold(c)'
<1>e. ASSUME NEW how \in {"success", "error", "died"}, Exit(c, how),
             how = "success" => Ready, how = "error" => ~stored[c]
      PROVE  Told
  <2>1. /\ command'[c] = "none" /\ stage'[c] = "store" /\ exit'[c] = how
        /\ stored'[c] = stored[c] /\ wanted'[c] = wanted[c]
    BY <1>e, <1>4 DEF Exit, CommandTypeOK
  <2> QED
    BY <1>e, <1>2, <1>4, <2>1 DEF ClientTold
<1>a. ASSUME NEW from, NEW to \in {"plugins", "host", "ingest"}, Advance(c, from, to),
             UNCHANGED stored, from # "print", Usable(c),
             to # "plugins" => Offered(wanted[c])
      PROVE  Told
  <2>1. /\ command'[c] = "discover" /\ stage'[c] = to /\ exit'[c] = exit[c]
        /\ stored'[c] = stored[c] /\ wanted'[c] = wanted[c]
        /\ command[c] = "discover" /\ stage[c] = from
    BY <1>a, <1>4 DEF Advance, CommandTypeOK
  <2> QED
    BY <1>a, <1>2, <1>4, <2>1 DEF ClientTold
<1>5. CASE Refuse(c)
  <2>1. /\ command'[c] = command[c] /\ stage'[c] = stage[c] /\ exit'[c] = "error"
        /\ stored'[c] = FALSE /\ wanted'[c] = wanted[c] /\ command[c] = "none"
    BY <1>5, <1>4 DEF Refuse, CommandTypeOK
  <2> QED
    BY <1>2, <1>4, <2>1 DEF ClientTold
<1>6. CASE StoreRefused(c)
  <2>1. ~stored[c]
    BY <1>6, <1>4 DEF StoreRefused, ClientTold
  <2> QED
    BY <1>6, <1>e, <2>1 DEF StoreRefused
<1>7. CASE PrintAnswer(c)
  <2>1. ~stored[c] /\ Ready
    BY <1>7, <1>3, <1>4 DEF PrintAnswer, ClientTold
  <2> QED
    BY <1>7, <1>e, <2>1 DEF PrintAnswer
<1>8. CASE OpenedForRun(c)
  BY <1>8, <1>a DEF OpenedForRun
<1>9. CASE FindPlugin(c)
  <2>1. ~stored[c] /\ Usable(c)
    BY <1>9, <1>4 DEF FindPlugin, Advance, ClientTold
  <2>2. /\ DiscoverPlugins(dir).error = "none"
        /\ wanted[c] \in ToSet(DiscoverPlugins(dir).ids)
        => Offered(wanted[c])
    BY <1>4, FoundIsOffered DEF CommandTypeOK
  <2> QED
    BY <1>9, <1>a, <1>e, <2>1, <2>2 DEF FindPlugin
<1>10. CASE HostReturns(c)
  <2>1. ~stored[c] /\ Usable(c) /\ Offered(wanted[c])
    BY <1>10, <1>4 DEF HostReturns, Advance, ClientTold
  <2> QED
    BY <1>10, <1>a, <1>e, <2>1 DEF HostReturns
<1>11. CASE IngestRecords(c)
  <2>1. ~stored[c] /\ Usable(c) /\ Offered(wanted[c])
    BY <1>11, <1>4 DEF IngestRecords, Advance, ClientTold
  <2>2. CASE stage[c] = "ingest" /\ Exit(c, "error")
    BY <2>1, <2>2, <1>e
  <2>3. CASE Advance(c, "ingest", "print") /\ stored' = [stored EXCEPT ![c] = TRUE]
    <3>1. /\ command'[c] = "discover" /\ stage'[c] = "print" /\ exit'[c] = exit[c]
          /\ stored'[c] = TRUE /\ wanted'[c] = wanted[c] /\ command[c] = "discover"
          /\ exit[c] = "none"
      BY <2>3, <1>4 DEF Advance, CommandTypeOK, ClientTold
    <3> QED
      BY <1>2, <1>3, <1>4, <2>1, <3>1 DEF ClientTold
  <2> QED
    BY <1>11, <2>2, <2>3 DEF IngestRecords
<1>12. CASE PrintReport(c)
  <2>1. Ready
    BY <1>12, <1>3, <1>4 DEF PrintReport, ClientTold
  <2> QED
    BY <1>12, <1>e, <2>1 DEF PrintReport
<1>13. CASE Killed(c)
  BY <1>13, <1>e DEF Killed
<1> QED
  BY <1>5, <1>6, <1>7, <1>8, <1>9, <1>10, <1>11, <1>12, <1>13 DEF CommandStep

LEMMA CommandInvInit == CommandInit => CommandInv
BY DEF CommandInit, CommandInv, CommandTypeOK, ExitTellsOutcome, StageInv, KindOf

LEMMA CommandInvNext == SchemaInv /\ CommandInv /\ [CommandNext]_allVars => CommandInv'
<1> SUFFICES ASSUME SchemaInv, CommandInv, [CommandNext]_allVars PROVE CommandInv'
  OBVIOUS
<1>p. CommandInv' <=> CommandTypeOK' /\ \A d \in Clients : ClientTold(d)'
  BY DEF CommandInv, ExitTellsOutcome, StageInv, ClientTold
<1>1. CASE UNCHANGED allVars
  <2>1. CommandTypeOK'
    BY <1>1, CommandInvParts DEF allVars, commandVars, CommandTypeOK
  <2>2. ASSUME NEW d \in Clients PROVE ClientTold(d)'
    BY <1>1, CommandInvParts, BystanderTold
       DEF allVars, commandVars, vars, file, client, Elsewhere, Ready
  <2> QED
    BY <1>p, <2>1, <2>2
<1>2. CASE CommandNext
  <2>1. PICK c \in Clients :
           (\E cmd \in DOMAIN KindOf : Call(c, cmd)) \/ StoreStep(c) \/ CommandStep(c)
    BY <1>2, CommandNextShape
  <2>2. CASE CommandStep(c)
    <3>1. CommandTypeOK' /\ \A d \in Clients \ {c} : Elsewhere(d)
      BY <2>2, CommandInvParts, CommandStepFrame
    <3>2. dir' = dir /\ (Ready => Ready')
      BY <2>2, CommandStepKeepsStore DEF vars, file, Ready
    <3>3. \A d \in Clients \ {c} : ClientTold(d)'
      BY <3>1, <3>2, CommandInvParts, BystanderTold
    <3>4. ClientTold(c)'
      BY <2>2, CommandStepTold
    <3> QED
      BY <1>p, <3>1, <3>3, <3>4
  <2> QED
    BY <2>1, <2>2, CallInv, StoreStepInv
<1> QED
  BY <1>1, <1>2

(* What an exit code tells of the store and of the directory, whatever     *)
(* other commands are at work on the file.                                 *)
THEOREM CommandInvariant == CommandSpec => []CommandInv
BY CommandInvInit, CommandInvNext, SchemaInvariant, CommandsImplementStore, PTL DEF CommandSpec

(* An exit code of 0 from a discover means that its records are committed  *)
(* to a store with the whole schema, under a plugin the UI offers.         *)
THEOREM SuccessIsStored ==
    CommandSpec =>
        [][\A c \in Clients : command[c] = "discover" /\ exit'[c] = "success" =>
               stored'[c] /\ Ready' /\ Offered(wanted[c])']_allVars
<1> DEFINE Kept(c) == command[c] = "discover" /\ exit'[c] = "success" =>
                          stored'[c] /\ Ready' /\ Offered(wanted[c])'
<1>1. ASSUME SchemaInv, CommandInv, CommandNext, NEW c \in Clients PROVE Kept(c)
  <2>1. SUFFICES ASSUME command[c] = "discover", exit'[c] = "success"
                 PROVE  stored'[c]
    BY <1>1, CommandInvNext DEF CommandInv, ExitTellsOutcome
  <2>2. ClientTold(c) /\ CommandTypeOK
    BY <1>1, CommandInvParts
  <2>3. exit[c] = "none"
    BY <2>1, <2>2 DEF ClientTold
  <2>4. PICK d \in Clients :
           (\E cmd \in DOMAIN KindOf : Call(d, cmd)) \/ StoreStep(d) \/ CommandStep(d)
    BY <1>1, CommandNextShape
  <2>5. d = c /\ CommandStep(c)
    <3>1. CASE StoreStep(d)
      BY <2>1, <2>3, <3>1 DEF StoreStep, commandVars
    <3>2. CASE \E cmd \in DOMAIN KindOf : Call(d, cmd)
      BY <2>1, <2>2, <2>3, <3>2 DEF Call, CommandTypeOK
    <3>3. CASE CommandStep(d)
      BY <2>1, <2>2, <2>3, <3>3, CommandStepFrame DEF Elsewhere
    <3> QED
      BY <2>4, <3>1, <3>2, <3>3
  <2>6. PrintReport(c)
    BY <2>1, <2>2, <2>3, <2>5
       DEF CommandStep, Refuse, StoreRefused, PrintAnswer, OpenedForRun, FindPlugin, HostReturns,
           IngestRecords, Killed, Exit, Advance, CommandTypeOK
  <2> QED
    BY <2>2, <2>6 DEF PrintReport, Exit, ClientTold
<1>2. SchemaInv /\ CommandInv /\ [CommandNext]_allVars => [\A c \in Clients : Kept(c)]_allVars
  BY <1>1
<1> QED
  BY <1>2, CommandInvariant, SchemaInvariant, CommandsImplementStore, PTL DEF CommandSpec

(* What is proved of opening a store holds under the commands: a version is *)
(* recorded last, a foreign file is left alone, a ready store is accepted.  *)
THEOREM StoreIsSafeUnderCommands ==
    CommandSpec => /\ MarkerComesLast /\ ForeignUntouched
                   /\ []ReadyIsAccepted /\ []AcceptedIsReady
BY CommandsImplementStore, MarkerIsLast, ForeignStaysUntouched, ReadyStaysAccepted,
   AcceptedStaysReady
=============================================================================
