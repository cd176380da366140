# magazine-core in TLA+

A verification project for magazine-core: TLA+ modules translated from the
source, TLC configurations that check them on small instances, and theorems that
TLAPS proves for every value of the constants. `PROJECT.json` lists the
components, the runs, the mutants (a plausible bug for every checked property,
which the property's run finds), the source lines every definition stands for,
the hazards and the theorems.

    tlc -workers 2 -config host_safety.cfg MCPluginHost     # one run
    tlapm PluginHostProofs.tla                              # one proof module

Paths below are relative to `src/`.

## 1. The system

`mh` discovers magazine posts with the help of *plugins*: child processes that
speak JSON-RPC over length-prefixed frames on their stdin and stdout. The host
spools what a plugin sends, and only a run that ends in order is ingested into a
SQLite store, which read commands, a local management UI and an extension host
then show.

| Component | State it keeps | Operations | Talks to |
|---|---|---|---|
| Plugin host, `crates/mh-host/src/lib.rs` | spool of records and logs with their caps, bounded frame channel, reader thread, child process group, deadline, cancel token | `run_discover_with_providers_and_cancel`, `read_until_response`, `handle_notification`, `recv_frame`, `wait_or_terminate`, `terminate_tree`, `ensure_no_frames_after_response` | plugin (pipes, signals), state and fetch providers (callbacks), caller (return value, token) |
| Plugin SDK, `sdk/python/.../runtime.py` | record count, reply table, cancelled flag, watcher thread | `run_plugin`, `_handle_discover`, `send_record(s)`, `fetch`, `known_urls`, `_wait_response`, `_CancelWatcher` | host (pipes), the author's callback |
| Management UI, `crates/mh-cli/src/ui.rs` | `ManagementState` (active run, last run) behind a mutex, one token and one thread per run | discover, cancel and status handlers; `run_ui_discover`, `mark_run_ingesting` | plugin host, store, its HTTP server |
| UI HTTP server, the same file | a counter of connections, one thread for each, the time left of a request | `serve_listener`, `read_http_request`, `handle_request`, `require_management_request`, `ConnectionSlot` | browsers, the runs, the store |
| Store, `crates/mh-db/src/lib.rs` | SQLite file: schema version, posts and child tables | `open`, `open_read_only`, `inspect_path`, `initialize`, `ingest_records`, pages and counts | every other process with the same file |
| Read queries, `crates/mh-db/src/lib.rs`, `crates/mh-cli/src/view.rs` and `ui.rs` | none of their own; a client keeps the cursor of its walk | `view_posts_page`, `view_post_assets`, `source_record_page`, `ui_summary`, `known_source_url_state`, ... | clients, running plugins, the file |
| Safe fetch, `crates/mh-fetch/src/lib.rs` | time budget, hop, resolved addresses of one request | `fetch_with_address_policy` | host (provider), DNS, network |
| UI extension host, `crates/mh-cli/src/ui_ext*` | connection slots, provider channel with its *failed* latch, the browser broker's pending requests and per-frame counts | start, registry load, asset route, read route, `ProviderClient::connect` and `read`, broker script | browser, provider process, files of the extensions |
| Plugin discovery, `crates/mh-host/src/lib.rs` | none | `discover_plugins`, `inspect_plugin_manifests` | the plugins.d directory |
| Command line, `crates/mh-cli/src/main.rs` | none across a call | `run` and the commands behind it | store, plugin discovery, plugin host |
| Framing, messages, domain rules | none | pure functions | host, SDK, store |
| Scripts, conformance kit, examples | none across a call | packaging, checks | all of the above |

What is hard, and for each component what makes it correct (every hazard, with its
line and the properties that would catch it, is in `PROJECT.json`):

* **Plugin host.** Four actors (host thread, reader thread, process group, the
  world) around a channel that drops what does not fit, two blocking pipes, a
  deadline and a token. *Correct:* a run that succeeds has lost nothing and left
  nobody behind; a run that fails delivers nothing; every way out reaps the
  process and joins the thread; the caps hold; the deadline ends the run.
* **SDK.** Two threads share stdin and a reply table; waits time out and their
  replies arrive later; a callback may leave past the runtime's `except`. *Correct:* a
  plugin that does not raise is accepted; no reply is lost while somebody waits for it;
  the process ends when the callback does, unless it left with a `SystemExit`.
* **Management UI.** A cancellation races the end of the run and the ingest.
  *Correct:* an accepted cancellation is final; one run at a time; the report
  agrees with the store; the slot is freed; what a polling client sees of a run
  never goes back.
* **UI HTTP server.** Clients that send slowly, break off or say nothing, in more
  connections than there are slots; a thread that cannot be made. *Correct:* a slot
  is given back exactly once on every path; no request outlives its budget; a full
  server is free again whatever its clients do.
* **Store.** Several processes, deferred transactions, and a schema built
  statement by statement outside any transaction. *Correct:* batches are atomic
  and serial; what is known of a post is never lost; foreign files are left
  alone; what is reported usable is whole.
* **Read queries.** Several SELECTs for one answer and several answers for one walk,
  with ingests committed in between. *Correct:* a keyset walk misses nothing and
  repeats nothing; a post somebody was told of is found again; the counts of one
  answer fit each other as far as they can.
* **Commands and discovery.** Any step may fail, another process may work on the same
  file, and the rules for a manifest are written twice. *Correct:* the exit code
  says whether records are committed; the two versions of the rules agree.
* **Extension host.** Iframes choose their request ids, pages are reloaded while
  their requests are at the server, a provider may answer after its time-out, and
  threads share one channel; the provider restarts and files of an extension are
  replaced while somebody looks at them. *Correct:* an answer goes to its own
  request; counts and slots are given back on every path; every read is settled;
  the socket in use is the one that was checked; an asset is a file its path named.
* **Safe fetch.** Decisions taken per hop, a budget over all of them, names that
  resolve differently from one hop to the next. *Correct:* a request goes only
  where its own hop checked; no wait outlasts the budget; the limits are exact;
  the fetch ends although nobody answers.

## 2. Modules

| Module | Models | Built on |
|---|---|---|
| `PluginHost` | one discover run with *any* plugin | |
| `AtomicDelivery` | what a run promises: everything offered is delivered at once, or nothing | |
| `PluginHostProofs` | its theorems; PluginHost implements AtomicDelivery | `PluginHost` |
| `SdkRun` | the run with a plugin built on the Python SDK | extends `PluginHost` |
| `SdkRunProofs` | the run with the SDK implements `PluginHost` | both |
| `ManagedRun` | start, cancel, worker, ingest gate, restart | sees the host through its return values |
| `UiServer`, `UiServerProofs` | the HTTP server around the runs; theorems about both | extends `ManagedRun` |
| `IngestStore`, `IngestStoreProofs` | concurrent `ingest_records` on one file | |
| `StoreReads`, `StoreReadsProofs` | page walks, look-ups, counts and lists beside the ingests | extends `IngestStore` |
| `SchemaOpen`, `SchemaOpenProofs` | concurrent `open`, `initialize`, `open_read_only`, `inspect_path` | |
| `UiExtRead` | a read of a UI extension: broker script, connection threads, provider channel | |
| `UiExtHost`, `UiExtProofs` | the extension host: its start, registry, provider connection, assets, and those reads; theorems about both | extends `UiExtRead` |
| `PluginCatalog` | `discover_plugins` and `inspect_plugin_manifests` as functions of a directory | |
| `Commands` | the commands of `mh` from arguments to exit code | extends `SchemaOpen`, `PluginCatalog` |
| `SafeFetch`, `SafeFetchProofs` | one fetch with its redirects, lookups and time budget | |
| `MC*` | the instances for TLC | the topmost module of each line |

### PluginHost

State and code: `pc` is the position of the host thread in
`run_discover_with_providers_and_cancel` (the writes to stdin, the top of
`read_until_response`, `recv_frame`, the wait, `terminate_tree`, `join_reader`,
the closing checks); `phase` the response it waits for; `fate` its return value
once decided. `written` is all the plugin ever wrote; `taken` and `handled` are
how far the reader thread and the host thread have come in it, so the pipe and
the channel are the two gaps. `eof` is the end-of-file error, which occupies a
channel slot like a frame. `leader` and `proc` are the process group, `stdin` the
messages the plugin has not read.

A frame is its kind, the number of records it carries (or a discover response
declares), how many of them validate before the first that does not, and its
size. Kinds stand for what the loop tells apart; `stray` is everything that is
refused without an answer and `garbled` a frame that cannot be read.

Actions: `PluginWrite`, `PluginRead`, `Fork`, `LeaderExit`, `DescendantExit`
(the plugin may be any program); `ReaderFrame`, `ReaderEof` (`try_send` and its
overflow); `Send`, `SendCancel` (blocking writes); `LoopTop`, `RecvTimeout`,
`RecvEof`, `RecvDisconnected` and one `On...` action per kind of message;
`WaitExit`, `WaitExpires`, `Drop`, `TermExit`, `Kill`, `JoinReader`, `Ensure`;
`Cancel` and `DeadlinePasses`. Leaving a scope early is the same `Drop` as in the
code.

### SdkRun

The same variables, with the plugin's freedom replaced by the runtime: `main` and
`watcher` are the two threads, `inbox` the content of the pipe that PluginHost
only counts, `responses`, `sent`, `told` the fields of `PluginContext`. The
author's callback is nondeterministic: records within its limit, logs, requests
it waits for or gives up on, and at any point a return, an `Exception`, or a
`SystemExit` or `KeyboardInterrupt`. The last two pass by `except Exception`
(`runtime.py:384`): nobody stops the watcher, which is no daemon thread (`runtime.py:421`),
and at `"quit"` the interpreter waits for it until the host's cancellation ends it.

### ManagedRun

A critical section under the mutex of `ManagementState` is one action
(`Discover`, `Cancel`, `MarkIngesting`, `Finish`); the thread's way between them
is `worker`. `Restart` kills the process at any moment: memory is lost, `ingested`
(committed transactions) and `acked` (answers clients have received) are not.
`SpawnRefused` is the panic of `thread::spawn` in the handler. The plugin host makes a
thread as well (`mh-host/src/lib.rs:1214`), in the worker: the last case of `HostReturns`
is that panic, which unwinds past the worker's closing section, so the run stays
registered until a restart. `OwnSteps` are the worker's steps without the host.

### UiServer

`stage` is how far a connection is: in the backlog (`"queued"`), counted but without a
thread (`"accepted"`), reading its request, in a handler (`"handling"`, and `"starting"`
between the registration of a run and `thread::spawn`), writing the answer. `slots` is
the counter of the accept loop. Time passes in `Tick`s: `age` is the time since the
request began to be read, `quiet` what is left of the current read's time-out, which
`read_within_deadline` computes anew before every read (`NextRead`). `Dispatch` and
`Admitted` are `handle_request` and `require_management_request`: they yield what a
request may do (`Brought`), and `Handle` takes it to the actions of ManagedRun.
`Release` is the drop of `ConnectionSlot`, the same on every path.

### IngestStore

One deferred transaction per batch. `lock` is SQLite's lock of the connection in
rollback-journal mode, `view` the database as its transaction sees it. `Upsert`
is `ingest_one`, with the effective release date, the fingerprint over it and the
two timestamps. `Fail` is every error, including a busy lock and the loss of the
process; SQLite's journal rolls back.

### StoreReads

A SELECT is one step, a function of the committed store (`Of`, `FirstAfter`,
`NewestFirst`, `Count`, `Summed`). `call` is the command a client is in, between its
SELECTs: the posts its answer names, those whose child rows are still to be read, the
counts read so far. `walk` is what the client of `view posts` keeps between commands: the
cursor and what it was given. The fields `held` record, for the properties alone, which
posts there were at a command's first SELECT.

### SchemaOpen

Every statement is a step that commits by itself, because neither `open` nor
`initialize` begins a transaction. `table`, `extra` and `version` are what those
statements read and write of the file; `saw` is the answer of `path.exists()`.
Any file at all may be there at the start.

### PluginCatalog and Commands

A directory is the sequence of its entries; a manifest is what the two loops tell apart
of it. `DiscoverPlugins` goes through them turn by turn (`Load`) and keeps the first error,
`InspectManifests` gives each its errors. `Commands` runs init-db, discover, inspect and view on top of
SchemaOpen's statements: `stage` is how far `run_discover` is beyond the store, `exit`
how a command ended (`"died"` is a kill or a panic), `stored` whether its records are
committed.

### UiExtRead

One request is one HTTP connection: `req` is who sent it under which id, `at` how
far it has come, `reply` whose answer its connection carries and `got` what the
iframe was given. `pending` and `counts` are the script's, `served` and `active`
the threads and the counter behind `ConnectionSlot`, `failed` the latch of
`ProviderClient`, `asked` and `wire` what the provider still owes and what lies in
the socket. An event handler of the script is one action (`Post`, `Settle` with
`Finish`), as is each stage of a connection (`Accept`, `BadRequest`, `Ask`,
`ReadFrame`, `ReadFails`, `EndConnection`); holding the mutex is being at
`"asking"`. `Reload` and `Answer` are the browser's and the provider's.

### UiExtHost

`phase` is the position in `run` of `ui_ext.rs`: options, store, registry, the look at
the provider's socket, the connection, the second look, the hello, the listeners; every
stage may be the last (`Refuse`). `sockets` are the provider's, one for each of its
starts; `before` and `peer` the one that was looked at and the one connected to. `disk`
is the files at their places and where the links point, `load` an asset request between
the steps of `open_confined_file`. `named` collects, for the property, which files the
path named since the request began. The reads are UiExtRead's, of registered extensions
(`PostRead`), and a provider that restarted has left the channel (`AskProvider`).

### SafeFetch

`pc` is the position of `fetch_with_address_policy`, with its two blocking calls as
`"resolving"` and `"asking"`/`"reading"`; `url`, `hop`, `addrs`, `response` and `body`
are its locals. `clock` is the time since `started` and `until` when the current
wait gives up: time passes between any two steps, but not beyond the end of a
wait. `looked` and `sent` are the history of lookups and requests. The resolver
and the servers (`Resolved`, `HeadArrives`, `BodyArrives`, ...) may do anything or
nothing. `Init` takes the budget as the host's provider does, from what is left of
the run.

In all modules an operator named `Action_SomeBug` is a plausible bug in that action,
used by a mutant only.

## 3. Runs

| Run | Question | Outcome |
|---|---|---|
| `host_safety` | Whatever the plugin, its descendants, the reader and the world do: complete success, no leak, caps, spool arithmetic, all or nothing | holds |
| `host_deadline` | What may keep a run past its deadline, with a descendant on the pipes and a stdin pipe that fills up? Only the two waits that no deadline covers: the write to stdin and the join of the reader | holds |
| `host_hang` | Does the deadline end the run when a descendant inherits stdout? | violated: `join_reader` waits for it |
| `host_descendants` | Does no descendant survive a timeout or a cancellation? | violated: no signal once the leader is gone |
| `host_eof_slot` | Does the channel overflow only when a frame too many comes? | violated: the end-of-file error takes a slot |
| `sdk_run` | Is a conforming plugin accepted, is every reply there for the request that waits for it, does the process end, is it a plugin the host allows? | holds |
| `managed_run` | The server with more clients than slots, slow, broken and silent ones, two runs, restarts: accepted cancellations, one run at a time, truthful report, a registry freed by every worker whose host returns, slots held exactly as long as needed and always given back, a status that only goes forward | holds |
| `ingest` | Two writers and a reader: atomic serial batches, durable posts, unique ids, truthful `updated_at`; complete walks, nothing forgotten that was told, fitting counts | holds |
| `schema_open` | Two processes at init-db, discover, inspect and view on any file, failing anywhere: whole before marked, foreign untouched, accepted means ready, ready means accepted, exit codes tell the outcome; and over any small plugin directory, do the two versions of the manifest rules agree? | holds |
| `schema_interrupted` | May a half-finished `initialize` be repeated? | violated: the file is refused as unknown |
| `ui_ext` | The extension host from its start on: is the provider's socket the checked one, are assets files their paths named; with reused ids, a reload, a late, bad, silent or restarted provider, does every answer reach its request and every read its end, are counts and slots given back? | holds |
| `safe_fetch` | Redirects, changing answers of the resolver, slow and silent servers: is only asked what was checked, does every wait stay in the budget, are the limits exact, does it end? | holds |

The four violations are the findings: places where the code does something else
than a document or a comment says; `PROJECT.json` quotes both.

1. *Descendants can survive* (`host_descendants`). `terminate_tree` returns at
   once when `try_wait` says the leader has exited, so a descendant whose parent
   is gone gets no signal; `docs/plugin-host.md:86` promises that none is left.
2. *The deadline does not bound the join* (`host_hang`). If such a descendant
   holds stdout, the reader never sees its end and `join_reader` has no limit.
3. *The end-of-file error competes for a slot* (`host_eof_slot`). A plugin that
   exits with exactly 16 unread frames makes the reader overflow the channel with
   the marker, and the run fails with `FrameQueueFull` without a 17th frame.
   SuccessIsComplete shows that this errs on the safe side.
4. *An interrupted `initialize` cannot be repeated* (`schema_interrupted`).

## 4. Bounds, and why they are enough

* `host_safety`: three frames, one descendant which may hold the pipes, one slot
  in the channel and one in stdin, caps of three records, two bytes and three log
  bytes. Three frames are the least that lets both responses and a batch through;
  one slot makes both overflows (by a frame, by the end-of-file marker) and every
  blocked write happen; the frames include batches that fit, are invalid half
  way, exceed the batch bound or, taken together, a cap. A second descendant adds
  nothing: descendants only enter through "somebody alive" and "somebody with the
  pipe". `SpoolCountsEveryRecord` is stated over the history of frames.
* `host_hang`, `host_descendants`, `host_eof_slot`: the frames of a run without
  records, two slots, and stdin roomy enough for every message of such a run, so
  that the only thing that can delay the host is the one the run is about.
* `host_deadline`: the same frames, but one slot in stdin, which the first message
  fills, so that the second blocks when the plugin does not read, and a descendant
  that may keep the pipes. A cancel token is left out, which makes `RecvTimeout` the
  only way to notice the deadline while nothing arrives. `HeldByPipe` names the two
  blocking calls; the property says that whoever outlives the deadline is in one of
  them for good.
* `sdk_run`: two calls of the callback, four frames, one slot, so that the
  overflow and the failing write happen; two calls are what it takes for a late
  reply to come before the one a later request waits for. Batches of one or two records, limit three.
* `managed_run`: two runs, so that a worker of an earlier run, or one lost in a restart,
  meets a later one; three connections and two slots, so that one is turned away; a
  budget of three ticks and a socket time-out of two, so that each can be the shorter
  and a late read gets less than a whole time-out. A connection may be used again, so
  there is no bound on how many there are; a request to start a third run is answered
  like one that finds a run under way (`NoneToStart`).
* `ingest`: two writers, three keys of two sources, three transactions, five batches
  chosen for a dated and an undated sighting, a repeated post, an invalid second record
  and an empty batch. Two writers are what the lock protocol can tell apart. One reader:
  readers share nothing. Pages of one and of two (`MaxLimit`, which also cuts the limit of
  three), offsets of zero and one, one asset id at a time: a walk over three posts has
  pages that are full, short and empty, with commits between any two.
* `schema_open`: two clients, three operations, three core tables: first, middle
  and last of the loops. Sixteen manifests, wrong in each of the ways the rules know, in
  directories of up to three, over a store that is ready; one good manifest over any file.
  `schema_interrupted`: one client and two operations.
* `ui_ext`: two iframes on one page, two ids, one request of an iframe at a time,
  two slots, three requests. Two iframes collide on an id; one request fills an
  iframe's count; a third request meets full slots, a second one may use the
  id of one that a reload left at the server. To the server a reloaded page and a second page are
  the same thing, so one page is enough. `Quotas` splits the run in three, to keep each
  small: three reads; two reads with reloads while the provider may restart once; no
  read, but assets with three changes of files and links. The extension directories:
  one in order with two extensions, and one for each reason to refuse.
* `safe_fetch`: two redirects, so that a check could be carried over from the first
  hop or the second, and the limit is met exactly; a good URL on each of two
  hosts, one whose host is not allowed, one that is not good; a public, a loopback
  and a private address, in any combination; a budget of two ticks and a connect
  time-out of one, so that each can be the shorter. `MaxClock` is beyond the last
  moment any wait can end.

`MaxClock`, `MaxBudget`, `MaxFrames`, `MaxCalls`, `MaxTx`, `MaxOps`, `MaxRequests`, `Quotas` and the
number of `Runs` are the only bounds on behaviour;
all other constants are parameters of the code (16 slots, 100 records a batch,
10 000 records, ...) made small. Deadlock is checked in the host, SDK and managed
runs; the store runs, `ui_ext` and `safe_fetch` switch it off because they
stop when their operations are used up, the host refuses to start or the fetch has
returned.

## 5. Fairness

* `FairSpec` of PluginHost: the two host threads are scheduled, and the deadline
  comes. Nothing is assumed of the plugin: it may hang, fork or write for ever.
* `FairSdkSpec`: Python's two threads run on: the main thread once the callback is
  over, the watcher while there is something to read. Nothing of the callback, the host
  or time.
* `ServerFairSpec` of UiServer: the worker threads (`OwnSteps`) and the connections'
  threads run on, and time goes on while somebody reads a request. That the host returns
  is not assumed, as `host_hang` shows that it may not, nor that a thread can be made:
  `WorkerFreesRegistry` is about the workers that are not in the host. Nothing is assumed
  of the clients, nor that anything is accepted. (`FairSpec` of ManagedRun is its part
  for the workers.)
* `ExtFairSpec` of UiExtHost: the browser settles a promise whose connection ended,
  the server accepts, the mutex goes to one of those waiting, and a read from the
  provider ends, as its socket has a time-out of five seconds. That time-out is
  per system call, so a provider that sends a frame byte by byte, each in time,
  holds the mutex longer; it is left out. Nothing else is assumed of the provider,
  and nothing of the browser's posting and reloading.
* `FairSpec` of SafeFetch: the host thread runs, time passes and a time-out that is
  due is acted upon. Neither resolver nor server is assumed to answer.

All fairness is weak. There is none in the store modules: they promise safety.

## 6. Proofs

All of it for arbitrary constants: any set of frames and descendants and any
caps, any runs, connections, slots and time-outs, any writers, readers, page sizes, batches and finite set of keys, any clients and
number of tables, any hosts, addresses and redirects, any pages, iframes, ids, extensions
and files.

* **PluginHostProofs.** `HostInv` is inductive. None of the properties is by
  itself: that success is complete needs to know, at the moment of the closing
  checks, that a stopped reader means the pipe was drained or an unreadable frame
  or an overflow was met (`ChannelInv`), that those were not passed over, and that
  a pipe once closed stays so (`PipesStayClosed`); and which verdicts are possible
  where the host stands (`ControlInv`). From it: `SuccessCompletes`,
  `NothingLeaks`, `SpoolStaysWithinCaps`. `FrameStepShape` reduces all message actions
  to one shape. `SpoolLosesNoRecord` needs no more than that the sum over a history does not change when the history grows (`RecordsInPrefix`),
  each frame handled adding what it carries (`CountStep`). `DeliversAllOrNothing` is the
  refinement of `AtomicDelivery` under the mapping in `PluginHost` (`Delivery`).
* **SdkRunProofs.** Each step of the SDK is a step of PluginHost's plugin or a
  stutter, given that the callback's count stays within its limit (`SentInv`), so
  `SdkImplementsHost`, and every theorem above carries over (`SdkInheritsHost`).
  `HostInv` so holds of this run too, and `SpoolLosesNoRecord`. On both rests
  `MessagesInvariant`, that `SdkInv` is inductive. Its parts: `MailInv`, a reply the host
  writes answers the frame it handled last, which is a fetch because the SDK writes
  nothing else that is answered (`Answering`, `FramesFromSdk`), and as output only grows
  (`OutputGrows`) goes on doing so; `FramesInv`, one greeting first, one result last, its
  count the sum of what was sent; `PhaseInv`, the host's phase follows the frames it
  handled; `EndInv`, until the host gives up the process ends by itself, after its result
  or an exception; `ExchangeInv`, a request is unanswered only while the main thread
  waits, or gave up. The last is what says that the pipe of a plugin that did not give up
  is not broken: a plugin that owes nothing and is owed nothing cannot be gone while the
  host writes. For every step of the host the verdict is taken on its own (`FrameVerdict`,
  `SendVerdict`, `EndVerdict`, `CloseVerdictIsOk`), then `ConformingRunsPass` follows.
  A callback that leaves with a `SystemExit` is raised as well, so none of this changes
  by it; only the watcher may then outlive the callback (`MailInv`). `RepliesStayTakeable`
  has two halves. The host is through with the request waited for only in the step that
  writes its reply (`AnsweredByWriting`): as long as the main thread waits, the plugin
  lives, so the write finds its pipe whole, and the request comes in the phase in which
  it is answered; and what the watcher takes out of the pipe it either stores or is the
  cancellation (`WatcherKeepsReplies`).
* **UiServerProofs, the runs.** `RunInv`: a live worker is the active run, an acknowledged
  cancellation of a live run shows in its token, and ingesting means that neither
  the token is set nor a cancellation possible any more. Then
  `AcceptedCancelHolds`, `SingleRun`, `ReportIsTrue`.
* **UiServerProofs, the server.** Two invariants together: `RunInv` and `ServerInv`. The counter is
  the number of connections that hold a slot, which needs that a connection is at
  `"starting"` exactly for the run it registered, and that there is one such connection
  at most; the sum of `age` and `quiet` never exceeds the budget. `ServerImplementsRuns`:
  every step of the server is a step of ManagedRun or a stutter, so
  `RunsAreSafeBehindServer`. `StatusOnlyAdvances` needs `RunInv` to say that a run not
  yet started was never reported or cancelled, and that only a set token ends in
  `"cancelled"`.
* **IngestStoreProofs.** `TxInv`: one connection writes at a time, and what a
  transaction that holds any lock sees is its batch so far, applied to the committed
  store (`SnapshotOK`): nobody can commit while it holds one. It has a time no other one
  and no stored post has (`TimeIsFresh`), so a changed fingerprint shows. `UpsertKeeps` is
  the lemma about `ingest_one`. Then `IdsStayUnique`, `PostsStayDurable`,
  `WholeBatchesOnly` and `UpdatedFollowsContent`.
* **StoreReadsProofs.** `ReadInv` says of a walk that it has seen exactly the posts up to
  its cursor (`WalkInv`) and of a command what its parts have in common (`CallInv`).
  It is inductive because ids are given out in sequence and never again (`TxInv`): a
  post that is committed later comes after every id a client has seen, so a page which
  is not full is the end of everything there was. `Least` and `Greatest`, that a finite
  set of ids has a least and a greatest member, are proved by well-foundedness of the
  strict subset relation; that every id up to the next one is in use by counting
  (`EveryIdIsUsed`). Then `WalksAreComplete`, `ToldPostsStayFound`, and, since readers change
  nothing, `ReadersDisturbNoIngest`, with which the theorems about ingests carry over
  (`IngestsAreSafeBesideReaders`). `ReadInv` has a second part, `CountsInv`: no count read
  earlier exceeds the posts there are. That a page of the newest posts is then full, or
  ends where the posts do, is `PageIsFull`: in an order without ties the places of n posts
  are the numbers up to n. Then `CountsAlwaysFit`.
* **SchemaOpenProofs.** `SchemaInv`: whoever migrates does so on a file that is
  whole or that nobody else owns, and all tables behind it are there. Then
  `MarkerIsLast`, `ForeignStaysUntouched`, `AcceptedStaysReady`,
  `ReadyStaysAccepted`. *The directory*: `DiscoverFinds` follows the loop of
  `discover_plugins` through any directory, with `FoundIn` as its loop invariant (no error
  yet means that every file so far is good and its id new), and `LoopsAgree` compares it
  with the two passes of `inspect_plugin_manifests`; so `InspectionAgrees`. *The
  commands*: `CommandsImplementStore`, so the store's theorems hold under them
  (`StoreIsSafeUnderCommands`). `CommandInv` is inductive because nothing takes a store
  away that was ready (`FileKept`), so a command past the store can rely on it whoever
  else is at work, and a command under way has not yet reported (`StageInv`). With it
  `CommandInvariant`, and `SuccessIsStored`, about the step in which a discover ends.
* **UiExtProofs.** `ExtInv` is inductive. Its part about the reads (`UiInv`) says that
  there is one reader of the channel at a time, and that a channel which has not failed
  owes, and holds, nothing but the answer that reader waits for (`Owed`): a frame that
  is good and comes while the channel is good is therefore about the request it is given
  to, whose id alone would not show it. The count of an iframe is the number of its
  pending requests, with one more or one less at each `Post` and `Finish`, and none on a
  page that is loaded anew; that a request is pending at most once is in `ScriptInv`. For
  an asset, `LoadInv` says that the files a path names are noted and that a file which
  was opened and is found again where the second look leads was one of them; a changed
  file has a number no request has met (`ChangeStep`). For the start, `before` and `peer`
  bracket the socket that was connected to (`StartInv`). Then `AnswersReachTheirRequests`
  and `AssetsStayNamed`.
* **SafeFetchProofs.** `FetchInv`: where the fetch stands determines how long the
  histories are and what the current hop has checked (`PlaceInv`); a request is
  sent only from there, so `EveryRequestWasChecked`. `BudgetIsKept` rests on the
  second `remaining_timeout`, after the resolver; `OutcomesAreTrue` on both.

Assumptions on constants are the named ASSUMEs of the modules, which TLC
evaluates in the runs: caps and bounds are naturals, the channel and the stdin
pipe have at least one slot, pipe holders are descendants, `NoRun`, `NoRow`,
`NoDate` are not values, keys and places of files are finitely many, and the frames of `SdkRun` are
those the SDK can write.

Loops of the code that sum, collect or apply are recursive functions over the positions
done so far. What holds of them is proved by counting up (`CountingUp`, from the
well-foundedness of `<`), on a set of positions, not a predicate; that the recursion has a
value at all by counting up the traces of its turns (`LoopHasTrace`), where its values are
not numbers.

Every safety property of the passing runs is a theorem. Model-checked only is liveness:
`OnlyPipesOutlastDeadline`, `WorkerFreesRegistry`, `SlotsComeBack`, `PluginEndsAfterCallback`,
`EveryReadSettles`, `FetchEnds`, which rest on fairness and `ENABLED` and which the
installed provers do not reach. The instance `PluginHost` has in `MCPluginHost` and the
like (constants, symmetric sets, the choice of directories in `MCSchemaOpen`) is of course
TLC's alone.

## 7. Abstractions

* Time is abstract: a deadline, grace period or wait may end at any moment after
  it began. Polling intervals are steps that change nothing.
* A state query or a fetch is answered or fails, in any way; what is in the answer
  is not modelled.
* PluginHost begins where `PluginProcess` exists. If the program cannot be started there
  is nothing to reap; but between the start of the child and the thread that reads from
  it, the panic of `thread::spawn` (`mh-host/src/lib.rs:1214`) leaves a child nobody
  waits for. That way out is not in `NothingLeaksFromTheHost`; ManagedRun has what it
  does to the registry.
* A signal that can be caught (SIGTERM) adds nothing to what a plugin may do on
  its own; for the SDK plugin it ends the interpreter.
* In SdkRun the callback returns None (the SDK supplies the count), its waits have
  a time-out, and an error response is a frame the host refuses (`stray`).
* The store: every transaction has a time stamp of its own (SQLite's are to the
  millisecond, so two ingests within one are not told apart by `updated_at`);
  fingerprints do not collide; a lock upgrade that SQLite refuses is `Fail`; the
  rollback-journal protocol and atomic commits are SQLite's and trusted.
* UiServer: time passes only for requests that are being read; the time-out of a write
  is a step that may come at any moment. Head and body of a request are read alike. Of
  what a request says, only what a handler acts on is kept.
* StoreReads: of the columns there are id, source and time of update; child rows are read
  but not looked at. A client does one thing at a time.
* Commands: of the plugin's run and of the ingest only the outcome (PluginHost and
  IngestStore say more); the directory and the plugin a client names do not change
  during a behaviour. PluginCatalog writes environment names in upper case, in which
  they are compared.
* UiExtHost: what is a link stays one, and a file that was replaced does not come back,
  neither at its place nor at another (inodes are not used again while a request runs).
  The registry is loaded in one step. HEAD requests, which answer without the
  provider, are left out.
* UiExtRead: operation and payload are left out, so are requests the script or the
  route refuses before anything is counted. The provider answers a request at most
  once. That an iframe's own document is reloaded while its page stays is not
  modelled: its answers then reach the new document.
* SafeFetch: the tables behind "allowed", "good" and "forbidden" are constants; method
  and headers are one refusal. What reqwest does is external: it connects only to
  the addresses it is given, and its blocking client applies the time-out to the
  wait for the response and then again to every read of the body. The body is
  therefore not covered by `WaitsStayWithinBudget`, although `docs/protocol-v1.md:96`
  and `SECURITY.md:14` count it into the total time-out; that the fetch ends
  (`FetchEnds`) does not say that it ends in time.
* SchemaOpen leaves out the indexes, which no check looks at, and assumes that
  nobody removes or replaces the file between two statements.

## 8. Not modelled, and why

* Framing, JSON, domain validation: sequential parsing of bytes and
  strings. They enter the models as outcomes: a frame that is unreadable, a
  request that is malformed, a record that does not validate, a preparation that
  fails.
* Output, scripts, conformance kit and examples: no state that outlives a call.
* HTML, headers and the content of answers: wording and layout.

## 9. Plan

Done: `PluginHost` with `AtomicDelivery` and proofs; `ManagedRun` with proofs;
`IngestStore` with proofs; `SdkRun` with its refinement proof; `SchemaOpen` with
proofs; `UiExtRead`; `SafeFetch` with proofs; then around that core `StoreReads` and
`UiServer` with proofs, `PluginCatalog`, `Commands`, and `UiExtHost` with proofs. The order was by what
the system stands or falls with: the run, who starts it, what it writes, who talks to
it, what it writes to, who else reads, what is fetched on its behalf, and last the doors
through which people come.

What is left: a provider that sends its frames in pieces, each in time, and journal files
of SQLite left behind by a crash. Of the
proofs, liveness; and, beyond what the runs check, an abstract specification of the
management registry as its clients see it, for `ManagedRun` to implement.
