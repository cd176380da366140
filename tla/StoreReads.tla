----------------------------- MODULE StoreReads -----------------------------
(***************************************************************************)
(* The readers of the store while others ingest: "mh view", the pages of   *)
(* "mh ui" and the state queries of a running plugin                       *)
(* (crates/mh-db/src/lib.rs, crates/mh-cli/src/view.rs and ui.rs).         *)
(*                                                                         *)
(* No command wraps its SELECTs in a transaction: each SELECT sees the     *)
(* store as committed at its own moment, and ingests may commit between    *)
(* two SELECTs of one command and between two commands of one client.  A   *)
(* SELECT is one step; it waits while a commit is pending.                 *)
(***************************************************************************)
EXTENDS IngestStore

CONSTANTS
    Readers,    \* the clients that read
    Sources,    \* source names
    SourceOf,   \* the source name of a key
    AnySource,  \* no --source given
    Limits,     \* the page sizes clients ask for
    Offsets,    \* the offsets clients ask for
    MaxLimit,   \* VIEW_MAX_LIMIT, and the 200 of source_record_page
    MaxAssetIds \* MAX_ASSET_IDS

ASSUME ReadConstantsOK ==
    /\ SourceOf \in [Keys -> Sources]
    /\ AnySource \notin Sources
    /\ Limits \subseteq Nat \ {0}
    /\ Offsets \subseteq Nat
    /\ MaxLimit \in Nat \ {0}
    /\ MaxAssetIds \in Nat \ {0}

VARIABLES
    call,  \* per reader: the command in progress
    walk   \* per reader: what a client that pages through the posts keeps

readVars == <<call, walk>>
allVars == <<vars, call, walk>>

---------------------------------------------------------------------------
(* The SELECTs, as functions of a committed store.                         *)

Of(s, src) == {k \in Rows(s) : src = AnySource \/ SourceOf[k] = src}

(* known_source_urls; an id stands for its post.                           *)
Ids(s, src) == {s[k].id : k \in Of(s, src)}

(* table_count of source_posts.                                            *)
Count(s) == Cardinality(Rows(s))

(* source_summaries: GROUP BY source_name, and the records it adds up to.  *)
Listed(s) == {SourceOf[k] : k \in Rows(s)}
Summed(s) == Cardinality({p \in Listed(s) \X Rows(s) : p[2] \in Of(s, p[1])})

Clamp(limit) == IF limit > MaxLimit THEN MaxLimit ELSE limit

FirstAfter_Inclusive(ids, after, cap) ==
    {i \in ids : i >= after /\ Cardinality({j \in ids : j >= after /\ j <= i}) <= cap}

(* WHERE id > after ORDER BY id LIMIT cap, of the ids of a source.         *)
FirstAfter(ids, after, cap) ==
    {i \in ids : i > after /\ Cardinality({j \in ids : j > after /\ j <= i}) <= cap}

NewestFirst_OffByOne(s, cap, skip) ==
    LET Place(k) == Cardinality({j \in Rows(s) :
                        \/ s[j].updated > s[k].updated
                        \/ s[j].updated = s[k].updated /\ s[j].id >= s[k].id})
    IN  {s[k].id : k \in {j \in Rows(s) : Place(j) > skip + 1 /\ Place(j) <= skip + cap}}

(* ORDER BY updated_at DESC, id DESC LIMIT cap OFFSET skip.                *)
NewestFirst(s, cap, skip) ==
    LET Place(k) == Cardinality({j \in Rows(s) :
                        \/ s[j].updated > s[k].updated
                        \/ s[j].updated = s[k].updated /\ s[j].id >= s[k].id})
    IN  {s[k].id : k \in {j \in Rows(s) : Place(j) > skip /\ Place(j) <= skip + cap}}

---------------------------------------------------------------------------
(* A command in progress: the posts its answer names, those whose child    *)
(* rows it has still to read, the counts it has read, and, kept for the    *)
(* properties alone, the posts there were at its first SELECT.             *)

Commands == {"none", "posts", "assets", "records", "summary", "known"}

NoCall == [cmd |-> "none", src |-> AnySource, cap |-> 0, skip |-> 0,
           page |-> {}, rest |-> {}, counts |-> <<>>, held |-> {}]

(* A walk: the cursor to resume from, the posts it was given so far,       *)
(* whether an answer came without a cursor, and (for the properties) the   *)
(* posts there were when the last page was selected.                       *)
NoWalk == [src |-> AnySource, cursor |-> 0, seen |-> {}, over |-> FALSE, held |-> {}]

Call == [cmd : Commands, src : Sources \cup {AnySource}, cap : Nat, skip : Nat,
         page : SUBSET Nat, rest : SUBSET (Nat \cup Sources), counts : Seq(Nat),
         held : SUBSET Nat]

Walk == [src : Sources \cup {AnySource}, cursor : Nat, seen : SUBSET Nat,
         over : BOOLEAN, held : SUBSET Nat]

ReadTypeOK ==
    /\ call \in [Readers -> Call]
    /\ walk \in [Readers -> Walk]

ReadInit ==
    /\ Init
    /\ call = [r \in Readers |-> NoCall]
    /\ walk = [r \in Readers |-> NoWalk]

(* A SELECT gets its shared lock.                                          *)
Select == "pending" \notin {lock[w] : w \in Writers}

Start(r, c) == call[r].cmd = "none" /\ Select /\ call' = [call EXCEPT ![r] = c]

FreshCall(r) == walk[r] = NoWalk /\ UNCHANGED <<vars, walk>>

(* The command ends with an answer, and the client keeps w of it.          *)
Answer(r, w) ==
    /\ call' = [call EXCEPT ![r] = NoCall]
    /\ walk' = [walk EXCEPT ![r] = w]
    /\ UNCHANGED vars

PostsCall(src, cap, ids, after) ==
    LET page == FirstAfter(ids, after, cap)
    IN  [NoCall EXCEPT !.cmd = "posts", !.src = src, !.cap = cap,
                       !.page = page, !.rest = page, !.held = ids]

ViewPosts_SkipGaps(r, src, limit) ==
    /\ walk[r].over = FALSE
    /\ walk[r] # NoWalk => src = walk[r].src
    /\ Start(r, LET ids == Ids(store, src)
                    page == {i \in ids : i > walk[r].cursor /\ i <= walk[r].cursor + Clamp(limit)}
                IN  [PostsCall(src, Clamp(limit), ids, walk[r].cursor) EXCEPT
                        !.page = page, !.rest = page])
    /\ UNCHANGED <<vars, walk>>

(* view posts --limit n [--after-id c] [--source s]: the first page of a   *)
(* walk, or the next one.                                                  *)
ViewPosts(r, src, limit) ==
    /\ walk[r].over = FALSE
    /\ walk[r] # NoWalk => src = walk[r].src
    /\ Start(r, PostsCall(src, Clamp(limit), Ids(store, src), walk[r].cursor))
    /\ UNCHANGED <<vars, walk>>

(* child_values, child_count and external_links of the next post.          *)
ReadChildren(r) ==
    /\ call[r].cmd \in {"posts", "records"}
    /\ call[r].rest # {}
    /\ Select
    /\ \E i \in call[r].rest :
         /\ \A j \in call[r].rest : i <= j
         /\ call' = [call EXCEPT ![r].rest = @ \ {i}]
    /\ UNCHANGED <<vars, walk>>

LastOf(page) == CHOOSE i \in page : \A j \in page : j <= i

(* next_after_id is advertised only by a page that was filled.             *)
PostsAnswered(r) ==
    LET c == call[r]
        full == Cardinality(c.page) = c.cap
    IN  /\ c.cmd = "posts"
        /\ c.rest = {}
        /\ Answer(r, [src |-> c.src,
                      cursor |-> IF full THEN LastOf(c.page) ELSE walk[r].cursor,
                      seen |-> walk[r].seen \cup c.page,
                      over |-> ~full,
                      held |-> c.held])

(* view assets --post-ids, of posts the walk was given.                    *)
ViewAssets(r) ==
    /\ \E ids \in SUBSET walk[r].seen :
         /\ ids # {}
         /\ Cardinality(ids) <= MaxAssetIds
         /\ Start(r, [NoCall EXCEPT !.cmd = "assets", !.held = ids, !.rest = ids])
    /\ UNCHANGED <<vars, walk>>

(* Each id is looked up; one that is not found is reported in "missing".   *)
FindAsset(r) ==
    LET c == call[r]
    IN  /\ c.cmd = "assets"
        /\ Select
        /\ \E i \in c.rest :
             call' = [call EXCEPT ![r].rest = @ \ {i},
                                  ![r].page = @ \cup ({i} \cap Ids(store, AnySource))]
        /\ UNCHANGED <<vars, walk>>

(* /api/records?limit=n&offset=m: the total, then the page.                *)
CountRecords(r, limit, offset) ==
    /\ FreshCall(r)
    /\ Start(r, [NoCall EXCEPT !.cmd = "records", !.cap = Clamp(limit), !.skip = offset,
                               !.counts = <<Count(store)>>])

PageRecords(r) ==
    LET c == call[r]
        page == NewestFirst(store, c.cap, c.skip)
    IN  /\ c.cmd = "records"
        /\ Len(c.counts) = 1
        /\ Select
        /\ call' = [call EXCEPT ![r].page = page, ![r].rest = page,
                                ![r].counts = Append(@, Cardinality(page))]
        /\ UNCHANGED <<vars, walk>>

(* inspect, the first part of /api/summary and of "view sources".          *)
InspectPosts(r) ==
    /\ FreshCall(r)
    /\ Start(r, [NoCall EXCEPT !.cmd = "summary", !.counts = <<Count(store)>>])

CountSummary(r) ==
    LET c == call[r]
    IN  /\ c.cmd = "summary"
        /\ Len(c.counts) < 3
        /\ Select
        /\ call' = [call EXCEPT ![r].counts =
                        Append(@, IF Len(@) = 1 THEN Summed(store) ELSE Count(store))]
        /\ UNCHANGED <<vars, walk>>

(* known_source_url_state: the sources, unless one was named, then the     *)
(* URLs of each.                                                           *)
ListSources(r, src) ==
    /\ FreshCall(r)
    /\ Start(r, [NoCall EXCEPT !.cmd = "known", !.src = src,
                               !.rest = IF src = AnySource THEN Listed(store) ELSE {src},
                               !.held = Ids(store, src)])

ListUrls(r) ==
    LET c == call[r]
    IN  /\ c.cmd = "known"
        /\ Select
        /\ \E src \in c.rest :
             call' = [call EXCEPT ![r].rest = @ \ {src},
                                  ![r].page = @ \cup Ids(store, src)]
        /\ UNCHANGED <<vars, walk>>

(* A plugin that knows its URLs goes on to ask about one of them            *)
(* (source_post_summary, content_fingerprint) or about its source           *)
(* (last_seen_at); 1 stands for a row, 0 for none.                          *)
Enquire(r) ==
    LET c == call[r]
        Reply(row) == call' = [call EXCEPT ![r].counts = <<IF row THEN 1 ELSE 0>>]
    IN  /\ c.cmd = "known" /\ c.src # AnySource
        /\ c.rest = {} /\ c.counts = <<>>
        /\ Select
        /\ \/ \E i \in c.page : Reply(i \in Ids(store, c.src))
           \/ Reply(Of(store, c.src) # {})
        /\ UNCHANGED <<vars, walk>>

Complete(c) ==
    \/ c.cmd \in {"assets", "known"} /\ c.rest = {}
    \/ c.cmd = "records" /\ Len(c.counts) = 2 /\ c.rest = {}
    \/ c.cmd = "summary" /\ Len(c.counts) \in {2, 3}

Answered(r) == Complete(call[r]) /\ Answer(r, walk[r])

(* A SELECT fails, of a lock held too long: the command reports an error,  *)
(* and a walk may be resumed where it was.                                 *)
ReadFails(r) == call[r].cmd # "none" /\ Answer(r, walk[r])

(* The client has its last page, or gives up.                              *)
WalkEnds(r) ==
    /\ call[r].cmd = "none"
    /\ walk[r] # NoWalk
    /\ walk' = [walk EXCEPT ![r] = NoWalk]
    /\ UNCHANGED <<vars, call>>

Read(r) ==
    \/ \E src \in Sources \cup {AnySource}, limit \in Limits : ViewPosts(r, src, limit)
    \/ ReadChildren(r) \/ PostsAnswered(r)
    \/ ViewAssets(r) \/ FindAsset(r)
    \/ \E limit \in Limits, offset \in Offsets : CountRecords(r, limit, offset)
    \/ PageRecords(r)
    \/ InspectPosts(r) \/ CountSummary(r)
    \/ \E src \in Sources \cup {AnySource} : ListSources(r, src)
    \/ ListUrls(r) \/ Enquire(r)
    \/ Answered(r) \/ ReadFails(r) \/ WalkEnds(r)

ReadNext ==
    \/ Next /\ UNCHANGED readVars
    \/ \E r \in Readers : Read(r)

ReadSpec == ReadInit /\ [][ReadNext]_allVars

---------------------------------------------------------------------------
(* PROPERTIES                                                              *)

(* A walk that was told it is over has been given every post there was when *)
(* its last page was selected, whatever was committed between its pages,    *)
(* and no page repeats a post (view_posts_page: "an offset walk [...] both  *)
(* repeats and skips rows", which the keyset is there to avoid).            *)
WalkSeesEveryPost ==
    \A r \in Readers :
        /\ walk[r].over => walk[r].seen = walk[r].held
        /\ call[r].cmd = "posts" => call[r].page \cap walk[r].seen = {}

(* A post a client was told of stays there under its id: the later SELECTs  *)
(* of the same command and later commands find it, no asset a walk asks for *)
(* is missing, and a list of known URLs leaves out no post that was there   *)
(* when it was begun and names none that a plugin then asks about in vain   *)
(* (view_post_assets, known_source_url_state, content_fingerprint).         *)
ToldPostsAreFound ==
    \A r \in Readers :
        LET c == call[r]
        IN  /\ c.page \cup walk[r].seen \subseteq Ids(store, AnySource)
            /\ c.cmd \in {"assets", "known"} /\ c.rest = {} => c.held \subseteq c.page
            /\ c.cmd = "known" /\ c.page # {} => \A i \in DOMAIN c.counts : c.counts[i] = 1

(* The counts of one answer are read one after the other, and the later     *)
(* ones never fall short of the earlier: a page is as full as the total     *)
(* beside it says, the records of the sources add up to at least the posts  *)
(* of the inspection (source_record_page, ui_summary).                      *)
CountsFit ==
    \A r \in Readers :
        LET c == call[r]
            n == c.counts
        IN  /\ c.cmd = "records" /\ Len(n) = 2 => n[2] = c.cap \/ c.skip + n[2] >= n[1]
            /\ c.cmd = "summary" => \A i, j \in DOMAIN n : i <= j => n[i] <= n[j]

(* The inductive invariant of a walk k and the command c of its client: the *)
(* walk has exactly the posts up to its cursor, and what was committed      *)
(* since a page was selected comes after every post there was.              *)
WalkInv(k, c) ==
    /\ k.cursor <= Count(store)
    /\ k.seen = IF k.over THEN k.held ELSE {i \in Ids(store, k.src) : i <= k.cursor}
    /\ c.cmd = "posts" =>
         /\ ~k.over
         /\ c.cap > 0
         /\ k = NoWalk \/ c.src = k.src
         /\ c.page = FirstAfter(c.held, k.cursor, c.cap)
         /\ c.held \subseteq Ids(store, c.src)
         /\ \A i \in Ids(store, c.src) \ c.held :
                i > k.cursor /\ \A j \in c.held : j < i

(* The inductive invariant of what a client was told: what it has is there, *)
(* and what it has still to look for will be found.                         *)
CallInv(k, c) ==
    /\ k.seen \subseteq Ids(store, k.src)
    /\ c.page \subseteq Ids(store, c.src)
    /\ c.cmd \in {"assets", "records"} => c.src = AnySource
    /\ c.cmd = "assets" =>
         /\ c.rest \subseteq Ids(store, AnySource)
         /\ c.held \subseteq c.rest \cup c.page
    /\ c.cmd = "known" =>
         /\ c.src # AnySource => c.rest \subseteq {c.src}
         /\ c.counts # <<>> => c.rest = {}
         /\ \A i \in c.held : i \in c.page \/ \E src \in c.rest : i \in Ids(store, src)
         /\ c.page # {} => \A i \in DOMAIN c.counts : c.counts[i] = 1

PagesInv ==
    /\ ReadTypeOK
    /\ \A r \in Readers : WalkInv(walk[r], call[r]) /\ CallInv(walk[r], call[r])

(* The inductive invariant of the counts a command has read, of a store that *)
(* by now has that many posts and never gets less.                          *)
CountsInv(c, posts) ==
    LET n == c.counts
    IN  /\ c.cmd = "records" =>
             /\ n # <<>> => n[1] <= posts
             /\ Len(n) = 2 => n[2] = c.cap \/ c.skip + n[2] >= n[1]
        /\ c.cmd = "summary" =>
             \A i \in DOMAIN n :
                 n[i] <= posts /\ \A j \in DOMAIN n : i <= j => n[i] <= n[j]

ReadInv == PagesInv /\ \A r \in Readers : CountsInv(call[r], Count(store))
=============================================================================
