# NeedleDB: specifications, model checking, proofs

NeedleDB is a single-process vector database: SQLite is the source of truth, FAISS
indexes in memory answer queries, snapshots make restarts fast, and a dashboard in the
browser (`src/ui`) works it over HTTP. This directory holds TLA+ modules that model the data
path and the dashboard, TLC configurations that check them on small instances, and TLAPS
proofs. `PROJECT.json` maps every definition to the lines it models and lists
runs, mutants, hazards, findings and theorems. Paths below are relative to
`src/needledb/core/` unless they say otherwise.

## 1. The system

| Component | State | Operations | What makes it correct |
|---|---|---|---|
| `rwlock.py` RWLock | `_readers`, `_writer`, `_waiting_writers`, the condition's wait set | read, write (context managers) | writers alone, no lost wake-up, writers not starved |
| `storage.py` Storage | tables `records`, `meta`; `seq` in memory; `_lock` | upsert, set_metadata, delete, drop_namespace, purge_deleted, rows, metadata_map | one number per batch, numbers never reused for what a snapshot covers |
| `index.py` Index | dict namespace → Collection, snapshot lock, write count, settle timer | upsert, update, delete, deleteAll, query, fetch, list, snapshot, open, close | memory and SQLite in step, no acknowledged write lost, recovery = live rows |
| `collection.py` Collection | slots, tombstones, id → slot, live count, rebuild job and its write log, FAISS index | apply_upsert, apply_set_metadata, apply_delete, rebuild, save, load, query | tables agree, each write exact, rebuilds invisible |
| `filters.py` MetadataIndex | postings, numeric columns | add, remove, evaluate | the mask is the meaning of the filter |
| `registry.py` Registry | dict name → Index, directories | create, get, delete, close | what exists on disk is what is served |
| `../client/` | retry counters, page tokens | every call over HTTP, scan, batched upsert | a retried call does what one call does |
| `../embed.py` | LRU cache of vectors | embed_cached | bounded, right row for each text |
| `../server/` | routes, keys, sessions, audit log | HTTP API | dispatch; beside the data path |
| config, cpu, metrics, cli, bench | — | — | no shared state with the above |
| `src/ui/src/api.ts`, `App.tsx`, `lib.ts`, `SignIn.tsx` | calls in flight, who is signed in, the hash, polls | call, sign in and out, navigate, poll | a session that ended is noticed, sign-in stays possible |
| `Shell.tsx` | polls of the list and of health, palette | links, commands | links by role |
| `pages/Keys.tsx`, `Settings.tsx`, `Security.tsx` | lists, sheets, confirmations | create and revoke keys, test and save provider keys, end sessions | a secret that was closed does not stay, a key goes where it was typed for |
| `pages/IndexPage.tsx` and its panels | the polled index, a draft per panel, what is loaded | browse and delete, query, upsert in batches, map, settings | results stay with their requests, drafts survive tabs |
| `pages/Indexes.tsx`, `Playground.tsx`, `ConnectModel.tsx`, `brands.tsx` | sheet, searches, the shared catalog of models | create, search as you type, compare | only the newest answer shows |
| `pages/Overview.tsx`, `charts.tsx` | history of samples | poll, choose a range | points do not shift |
| `docs/Docs.tsx` | route, menu, search | read, search | — |

Interactions. A request thread runs one Index operation: it looks up the namespace's
Collection, takes that collection's RWLock, commits to Storage (which has its own mutex),
applies to the Collection, releases, and counts the write. Every `SNAPSHOT_EVERY` records
a snapshot thread saves each collection under its *read* lock, one after another, then
purges delete markers. A Collection starts a rebuild thread from inside a write; the build
runs outside the lock while writes go on and are logged, and the swap takes the write
lock. The process may die anywhere; reopening loads each snapshot and replays newer rows.

The dashboard is one thread, but not one sequence: a handler runs to its next `await`, and
between that and the answer the user goes on, polls fire, the hash changes and the page
that waits may be gone. Pages share the list of indexes, the catalog of models and the
session; everything else belongs to the page mounted.

What is hard in the data path: namespaces have separate locks but share one sequence counter, one purge and
one snapshot thread; `seq` is read outside its mutex; a collection object outlives its
registration; numbers are given back on failure; the log of a rebuild is replayed by the
same code that may start the next one; drop, purge and save are several durable steps.
What is hard in the dashboard: answers that overtake each other, that arrive for a form,
a record or a provider no longer chosen, or that never come; panels that stay mounted and
sheets that are reused; a session that ends in the middle of any of it.

## 2. Modules

| Module | Models | State and actions |
|---|---|---|
| `ReadersWriters` | the promise of `rwlock.py` | who holds which side, which writers asked |
| `RWLock` | `rwlock.py` | the three counters, the wait set and a place per thread; one action per `with self._cond` block, the wait loop as *test, sleep, wake, test again* |
| `RWLockProofs` | — | the proofs about `RWLock` |
| `Records` | the data: rows, records, merging | constant-level operators |
| `Storage` | `storage.py` | `rows`, `savedSeq` (durable), `seq` (memory), `holder` (the mutex); a write is *take lock and number* then *commit* or *fail*; drop and purge are two commits each |
| `Store` | the promise of an index | per namespace a durable map; each call takes effect once, atomically, or reports an error |
| `Index` | `index.py`'s write path, namespaces, snapshots, crash, `open` | extends `Storage`; see below |
| `IndexInv` | — | the inductive invariant of `Index`, in named parts, and the hypotheses on its environment |
| `IndexTypeProofs`, `IndexMemoryProofs`, `IndexProofs` | — | the proofs about `Index`: types and locks; memory against rows; numbers, snapshots, the theorems and the refinement of `Store` |
| `Collection` | `collection.py`'s writes, rebuilds, save and load | one record `self` with the object's fields; writes, replay and swap share the same operators, as in the code |
| `CollectionInv`, `CollectionProofs` | — | the inductive invariant of `Collection`, and the proofs about it |
| `Client` | `ui/src/api.ts`, `usePoll` of `lib.ts` | `calls`, the calls in flight; what any page may do with them |
| `SignIn` | `SignIn.tsx`, the session of `App.tsx` | sign-in with its lockout, sign-out, sessions that end |
| `Shell` | `Shell.tsx` | `shell`: the list of indexes, health, the palette |
| `Keys`, `ProviderKeys`, `Security`, `Overview`, `Docs` | the pages of those names (`ProviderKeys` is `Settings.tsx`) | `view` while the page is mounted |
| `Catalog` | `brands.tsx` | `catalog`, the promise all pages share, and who waits for it |
| `ConnectModel` | `pages/ConnectModel.tsx` | the picker of a model inside an index page |
| `BrowsePanel`, `QueryPanel`, `UpsertPanel`, `VectorMap` | the panels of those names | fields of `view` on the index page |
| `IndexPage` | `pages/IndexPage.tsx` | composes the panels with the poll and the settings |
| `Indexes`, `Playground` | the pages of those names | list and creation sheet; search and comparison |
| `Dashboard` | `App.tsx`, routing | composes everything: `Navigate`, `MeDecided`, what reaches a page from outside, `Next`, fairness, the properties of the whole |
| `DashboardInv` | — | the inductive invariant of the dashboard: its calls, the fields they are made from, the newest search, what the page on screen waits for, the samples of the chart |
| `DashboardProofs`, `DashboardShownProofs`, `DashboardWaitProofs` | — | the proofs about `Dashboard`: calls, panels and drafts; what is newest, what a key sheet shows, and lemmas about charts; what is waited for, and the theorems of the whole |
| `MC*` | — | the small instances |

`Index` composes `Storage` with collections, clients and the snapshot thread and
implements `Store`. It stands on the other two modules: it lets one thread at a time into a
collection (`lock`), which `RWLock` shows, and it keeps a collection's contents as a map
`mem`, which `Collection` shows slots and rebuilds amount to (`WritesExact`,
`RebuildInvisible`). Read locks of queries are left out of `Index`: they can only delay a
writer, and what they would read is `mem`.

How `Index` corresponds to the code:

| Code | Actions |
|---|---|
| `_collection` (118) | `Call` — lookup and, for upsert, creation |
| `with coll.lock.write()` and the early returns of update and delete | `AcquireWrite` |
| `storage.upsert/set_metadata/delete` | `Begin` (mutex, number), `CommitWrite` or `StorageFails` |
| `coll.apply_*`, leaving the lock, `_after_write` | `Apply` |
| `delete(delete_all=True)` | `DropSaveSeq`, `DropRows`, `PopNamespace`, `RemoveSnapshot` |
| `snapshot()` | `SnapshotStart`, per namespace `SnapshotNext`, `SnapshotSave`, `SnapshotPublish` or `SnapshotFails`, then `SnapshotDone`, `SnapshotPurge` |
| process death | `Crash` |
| `Index.open`, `_load`, `_replay`, `Collection.load` | `Open` with `Recovered`, `Unloadable`, `Loaded` |

How the dashboard corresponds to the code (paths under `src/ui/src/`):

| Code | Model |
|---|---|
| `await api.x(...)` | the handler appends a call to `calls`; a `Serve…` action or `Refused` or `Failed` answers it, in any order; an action named for the answer (`ListLoaded`, `Saved`, …) is the rest of the handler, its `catch` and `finally` included |
| a component unmounted while it waits | the call stays in flight with `live` false: its rest runs, except for what React drops |
| `useState`, `useRef` | fields of `view` (a page), `shell`, `catalog`, `me` |
| `useEffect` | part of the action that changes what it depends on, but for the key sheet's (`KeySheetEffect`) |
| `usePoll` | `Ticks`; `Polled` keeps old data when a load fails |
| `window.location.hash = …` | `hash`, apart from the route React has rendered until `Navigate` |
| disabled buttons, roles, sheets that cover the page | the `…Controls` operators, which the guards use |
| the server | `server`: the session, keys, indexes, records, provider keys — what the answers depend on |

A record is a number, a text one of a few, a route a record; metadata, scores, figures and
wording are left out.

Abstractions of the data path. A vector is one of a few values, metadata a set of present fields (so that
merging differs from replacing); `Tiny` names the vectors that are not zero and whose
float32 norm is. FAISS is a sequence of slots. Writing a snapshot's files is two steps: the
point where saving again at the same number removes the directory `CURRENT` names
(collection.py:549), and the point where the new one is published (553); a crash between
them leaves no usable snapshot. A write is durable once committed (a process crash, not a
power cut: WAL with `synchronous = normal`). `_writes_since_snapshot` is counted together
with the release of the lock: it is an unlocked `+=`, and a lost count would only delay a
snapshot. Collection objects are reused in the model when nothing refers to them.
`Collection` gives loops over a batch by what they amount to: the ids of a delete form a
set (tombstoning one does not depend on another), a batch is appended in one piece, and of
several items with one id the last one stays, in the order of the batch (`Pick`). The log,
whose order matters, is replayed write by write.

## 3. Runs

Run them with `tlc -workers 2 -config <cfg> <module>`.

`Inv`, in the runs of `Index`, `Collection` and the dashboard, is the inductive
invariant of the proofs: TLC finds on the small instance that it holds before the prover
shows that every step keeps it.

### Passing runs

**rwlock** (`MCRWLock.cfg`, 324 states). A reader, a writer and two threads that are both:
two writers can meet two readers and every order of wake-ups occurs. `CountersExact`:
each counter equals the number of threads it is to count. `Exclusion`: a writer is alone.
`NoLostWakeup`: a sleeping thread's loop condition is true. `ImplementsReadersWriters`:
refinement. `UpsertsNotStarved`: once a write waits, a writer is let in.

**index_crash** (`MCIndexInv` with `MCIndex_crash.cfg`, 1,142,919 states). One namespace, two clients with
an upsert batch, a metadata update, an overwrite and deletes of one and of two ids; transactions and
snapshots may fail; two crashes. `InStep`: when no write is inside a namespace, readers
see exactly its live rows. `SameResult`: in *every* state, dying now and reopening gives
the live rows. `NewerWritesReplayed`: a live row that a snapshot claims to cover is in
it. `ImplementsStore`: the index, seen through what a restart would load, is the durable
map `Store`.

**index_namespaces** (`MCIndexInv` with `MCIndex_namespaces.cfg`, 353,179 states). Two namespaces,
each written by its own client, one partly deleted, the other dropped and refilled
with other records; deletes and snapshots may fail;
`SnapshotEvery` 2, so snapshots lag behind the writes. `MarkersOutliveSnapshots`: what a
snapshot holds, its rows hold or mark deleted; `Inv`, which implies the properties of
`index_crash`, and `ImplementsStore` again. For these two runs `MCIndexInv` assumes
`Environment`, the hypothesis of the theorems, so TLC checks that both instances meet it.

**collection** (`MCCollection.cfg`, 458,612 states). Two ids, batches with a repeated id,
promotion at two records, compaction at two dead slots and 40 %, at most five slots and
two logged writes, failing builds, save-and-load at any moment. `TablesAgree`: slots, id
table and live count agree. `WritesExact`: a write changes readers' view as it says.
`RebuildInvisible`: a swap, a failed build and a reload change nothing for readers.
`PromotionSticks`: never back from HNSW. `RebuildsEnd`: chained rebuilds end once writing
stops.

**dashboard_index** (`MCDashboard_index.cfg`, 1,187,307 states). The page of an
index, its panels alone and in pairs, for readers, writers and admins, with two calls in
flight that overtake each other, and with failures. `NothingHangs`: a spinner, or a button
disabled while it works, always has a call in flight that ends it, for the component on
screen (but for "Deleting…", see below). `ResultMatchesRequest`: the request shown under results is the one they answer.
`BatchesComplete`: each batch goes where the first one went, in order, none skipped.
`MapIsCurrent`: an idle explorer shows the map of its present choices.
`DraftsSurviveTabs`: changing tabs keeps a half-written query and the records typed.

**dashboard_pages** (`MCDashboard_pages.cfg`, 1,476,062 states up to symmetry of the two
keys). Keys, provider keys, indexes, playground, overview, security, docs and the palette.
`KeysSentAsTyped`: a provider's key goes to the provider it was typed for, and a key that
fails its test is saved only by "Save anyway". `NewestOnly`: an idle search or comparison
shows the answer to what is asked now, and a comparison names the documents it ranked.
`OldSecretsGo`: once the effect of opening the key sheet has run, a secret is on screen only
if it was before or came with that very answer; what is shown until the effect runs is
described at the end of this section. `BucketsStay`: the points of a chart stay where they are while samples arrive. `NothingHangs` again, and
no history outgrows its cap.

**dashboard_session** (`MCDashboard_session.cfg`, 141,000 states, with fairness). Sign-in
and sign-out around pages that poll and search, sessions that end at any moment, lost calls.
`ExpiryNoticed`: an open dashboard finds out that its session has ended.
`SignInOffered`: a typed key can be submitted in the end, after a lockout too.
`SearchSettles`: a search one waits for ends.

Deadlock is checked in the runs of the data path; the dashboard runs turn it off, because a
page with nothing in flight and nothing to click within the bounds really stops. `Index` has an explicit `Rest` step: an idle process
waits for calls, so a state where every thread is idle is not a deadlock and any other
state where nothing moves is.

### Why the bounds are enough

Two threads per role reach every pairwise order; the hazards found need two or three. Two
ids separate "this record" from "another"; two vectors separate old from new. `MaxSeq`
caps new calls once `seq` reaches it: five numbers fit write, overwrite, delete, refill
and one more after a snapshot; with two namespaces three calls start below the cap and a
fourth beside the third. Two crashes let a reopened process crash again, which
number reuse needs. `MaxSlots` and `MaxLog` cap the collection: five slots hold a promotion
and a compaction with live records left, two logged writes give an order of replay.
`MaxCrashes`, `MaxSeq`, `MaxSlots` and `MaxLog` are the only bounds of the data path, each
in a guard.

In the dashboard, `MaxInFlight` = 2 calls (the guard `Free` of every handler that starts one
and of `Navigate`; the rest of a handler may exceed it): two calls give every overtaking,
and what a third could do to one of them another pair shows. A *journey* says which pages
and panels a behaviour visits, where it starts and with which roles; the panels are taken
alone and in the pairs that share state, since all of them at once is beyond TLC. Some
kinds of step are only taken in journeys that name them (`visits`): `"list"` the shell's
polls, `"polls"` a second poll of what is loaded, `"palette"` the command palette,
`"typing"` the keys of the
palette and the form fields that would multiply the states (in exchange such a journey
revokes no key, nor does one with `"palette"`, and on the indexes page chooses between models and a dimension rather than
among the models), `"models"` the changes of models and the refresh of the catalog, `"rows"`
the saved provider keys at the start, `"failures"` errors of any call, `"signin"` the
changes of session.
Whatever the journey, a call about records fails once its index is deleted. `MaxListed` = 2
and `PageSize` = 1 give a second page; `MaxRecords` = 3 with `Batch` = 2 and `Samples` = 3
give a short last batch; `MaxHistory` = 4, ranges 2 and 4, gaps 1 and 3 and `MaxTime` = 5
fill a history, slide it and change the length of a bucket; `MaxWait` = 2 is the countdown.
Two indexes, keys, models, texts and places separate "this one" from "another".

### Environments, and the findings

A passing run's environment leaves out exactly what a violation run isolates; nobody
should read the passing runs without the violation runs.

| Left out of the passing runs | Run that puts it back | What happens |
|---|---|---|
| a write to a namespace another thread is dropping | `drop_while_writing` | the upsert waits on a popped object: acknowledged, durable, invisible until a restart |
| `Tiny` vectors in `Index` | `tiny_vector` | committed, then refused by the collection; reopening raises |
| a crash while two namespaces are written | `seq_reuse` | a snapshot carries a number that is handed out again; replay skips a newer write |
| a restart after a namespace was emptied, beside another namespace | `emptied` | stale snapshot kept, its delete markers purged |
| `Tiny` vectors in `Collection` | `collection_tiny` | a refused batch is replayed, the replay raises, later writes are lost from memory |

Each finding quotes the sentence of the code or docs it contradicts.

Three neighbours of the data path's findings were met and have no run of their own; the passing runs leave
them out too. A crash between `drop_namespace` and the removal of the snapshot directory
(index.py:333-336), then a refill and a restart, brings old records back. A failed upsert
gives its number back (storage.py:78) after another namespace's snapshot may have read it.
And a failed delete or set_metadata does *not* give its number back (storage.py:82-103), so
a snapshot can be tagged with a number that neither a row nor the saved mark records: a
crash before `purge_deleted` saves it hands the number out again, as in `seq_reuse`. In
`index_crash` only upserts, overwrites and snapshots fail; deletes fail in
`index_namespaces`, which has no crash.

React runs an effect after the commit of the render it belongs to, and what it sets is
rendered later still. Where that window shows something a text of the code forbids, it is
modelled: opening the key sheet (`CreateKey`, the link `?new=1`) and its effect
(`KeySheetEffect`) are two steps, with answers, closings and changes of page in between. The
render that opens the sheet again still has the old secret (Keys.tsx:227), although
Keys.tsx:241 says "this key can't be shown again"; the effect takes it away, and
`OldSecretsGo` is about what is left then.
Elsewhere an effect is merged with the step that triggers it: the sheets of a provider and of a
new index, which reset a form in the same way but show nothing that was to be shown once, and the lists, maps and
searches that start loading when a choice changes. What one could do between such a commit
and its effect, within a frame, is left out.

Browsing an index keeps whatever answers last (BrowsePanel.tsx:28-35 and 55-61). Open A, open
B, let B load and arm its delete; A's late answer then puts A's card on the screen, and
Confirm deletes B (line 74). Likewise a list that was asked for before the namespace or the
prefix changed lands in the new one, and its token pages on from there. `RecordLoaded` and
`ListLoaded` do the same, so no property says that the card and the list are those of the
present choices.

In the dashboard, four behaviours were met that no property forbids, since no sentence of
the code or docs does, and that the modules follow as they are. A comparison in flight when
the text is cleared is outdated but never ends its spinner until the next one runs
(Playground.tsx:448-468; `NothingHangs` leaves out a comparison without a text). An index
created from a sheet that was cancelled, or after leaving the page, still takes the user to
its page (Indexes.tsx:140-145). After a delete succeeds, a tab clicked before the address
takes effect keeps the page of the index that is gone, and its button says "Deleting…" with
nothing in flight (IndexPage.tsx:530-541; `NothingHangs` leaves this button out). A poll of the index that was sent before a setting was saved
and is answered after it shows the old value until the next poll (lib.ts:63).

### Mutants

A comment `mutant of X` marks an operator that is `X` with a plausible bug: a notify forgotten,
a lock not taken, a purge of everything, a `max` over rows only, replace instead of merge,
a namespace not popped, a batch not deduplicated, a write not logged, an answer taken
though it is outdated, a sheet not cleared, a spinner not ended. For every property of
every passing run, `PROJECT.json` names a mutant under which TLC finds it violated. No
specification uses a mutant.

## 4. Fairness

`RWLock` assumes weak fairness of waking up and of leaving: a notified thread gets the
mutex at some time, and a `with` block ends. Threads need not call the lock at all. There
is no fairness on entering, so `UpsertsNotStarved` is not helped by readers staying away.
With several writers the promise is that *a* writer enters, not a particular one: the
condition variable has no order.

`Collection` (`FairSpec`) assumes weak fairness of a rebuild ending, by swap or by failure: it runs in
a thread of its own and the lock lets it in (`UpsertsNotStarved`, it being a writer).
The field `generation` (the code's `_generation`, modulo 2) makes each swap a change, so that
an endless chain of rebuilds of one unchanged table counts as progress and would violate
`RebuildsEnd`. That property is conditional on writing coming to an end: under a load that overwrites a
fifth of the slots during each rebuild, the chain has no end, and `wait_for_index`, hence
`snapshot()`, does not return.

`Index` has no fairness: its properties are safety.

`Dashboard` (`FairSpec`): the oldest call in flight is answered, refused or lost some day,
and its answer delivered (`OldestAdvances`, `MeDecided`: a fetch settles and its promise is
awaited by the event loop); not every refusal is lost on the way (strong fairness of
`Refused`); the timers of a visible tab fire (`WaitTick`, `PollShell`, `RunSearch`). The last
two have strong fairness because the bound `MaxInFlight` can take their room away; the code
has no such bound. There is none on the user: nobody need click, and `ExpiryNoticed` rests
on the polls alone.

## 5. Proofs

All theorems hold for any values of the constants: any clients, namespaces, ids, vectors,
batches, thresholds and intervals, not only those of the runs. `PROJECT.json` lists them.

### The lock

`RWLockProofs` proves, for any finite sets of readers and writers (assumption
`ThreadsFinite`), everything the run `rwlock` checks except liveness:

* `TypeCorrect`, `CountersCorrect`, `MutualExclusion`, `WakeupsNotLost`: `Spec => []P`;
* `Refinement`: `Spec => ImplementsReadersWriters`.

The inductive invariant is `Inv == TypeOK /\ CountersExact /\ Exclusion /\ NoLostWakeup`.
No conjunct is inductive alone. That a thread about to enter meets nobody inside follows
from *counters*, which are all the code tests, so `Exclusion` needs `CountersExact`; that a
reader's exit may leave sleepers asleep needs the count to say whether it was the last;
and a decrement stays a natural number because the count is the size of a set the thread
is in. Lemma `Move` says what moving one thread between places does to the sets of
threads and their sizes, with the library's facts on cardinality; then each way through a
wait loop (`ReaderSleeps`, `ReaderEnters`, `WriterSleeps`, `WriterEnters`) and each exit
(`ReaderLeaves`, `WriterLeaves`) has a lemma with a step per conjunct.

For the refinement, `ReadRefines` and `WriteRefines` map each step to `StartRead`,
`AskWrite`, `StartWrite`, `Finish` or a stutter, using `Inv`: an entering reader has seen
`_waiting_writers = 0`, which by `CountersExact` is an empty queue.

### The index

`IndexTypeProofs` proves `Spec => []Base` without any hypothesis on how the index is used:
types, what a busy client's job is, that whoever is past `AcquireWrite` holds its
collection and at most one thread the storage mutex, that a process which is down has
nothing left, that a purge has nothing more to save, and that the highest number exists.
`TypeOK` follows. That `seq` stays a natural number, though failed upserts give numbers
back, is the one part that needs the mutex.

Safety holds only in the environments the violation runs of section 3 leave, so the other theorems
assume `Environment`: no request holds a `Tiny` vector (`tiny_vector`); nobody else calls
on a namespace that a client drops (`drop_while_writing`); and either there is one
namespace, with any number of crashes (in which case deletes do not fail and nothing is dropped), or
there are many namespaces and no crash (`seq_reuse`, `emptied`; in which case upserts do not fail).
Each hypothesis has a run that shows what happens without it or is one of the neighbours
named there; the instances of `index_crash` and `index_namespaces` satisfy it.

`IndexProofs.InvCorrect` proves `Spec => []Inv` with
`Inv == Base /\ Objects /\ Memory /\ Numbers /\ Snapshots /\ Running` (`IndexInv`), and
from it `InStep`, `SameResult`, `NewerWritesReplayed` and `MarkersOutliveSnapshots`. Why the
parts are needed:

* *Objects*: the dict has one object per namespace, and a client's object stays registered
  until that client pops it. Otherwise a commit and its apply could concern different objects.
* *Memory*: memory equals the live rows except between a commit and its apply (then the
  rows are memory overlaid with the write) and between a drop and its pop (then no row is
  left). `InStep` is the part of this a reader can see; it says nothing of the places in
  between, so it is not inductive.
* *Numbers*: rows and the saved mark carry committed numbers only; a snapshot's tag is at
  most `seq`, and not the number in flight of its own namespace; with crashes, each
  committed number and each tag can be read off the tables, so none is handed out twice.
* *Snapshots*: what a snapshot covers it holds (`SnapshotsGood`, which is all that
  `SameResult` needs); a snapshot on disk is still to be saved in the running round, or
  bounds its purge, or is being removed (`RoundCovers`), which is why the purge removes no
  marker it needs.
* *Running*: reopening never raises, because a live row has a vector that is not `Tiny`.

Memory after a reopening comes from snapshots, snapshots are right because of the numbers,
and the numbers because of who is registered and locked. Each conjunct has its own step
lemma (`OneEntryStep`, `InMemoryStep`, `CountedStep`, `SnapshotsGoodStep`, `RoundCoversStep`, ...) with a
step per action that can disturb it.

`IndexProofs.StoreImplemented` proves `Spec => ImplementsStore`, with a lemma per kind of
step: `Call` maps to `Ask`; `AcquireWrite` of a call with nothing to do to `Refuse`;
`CommitWrite` and `DropRows`, the commits, to `TakeEffect`; `StorageFails` to `Fail`; `Apply` and
`RemoveSnapshot` to `Return`; `Crash` and `Open` to `Crash` and `Reopen`. `Begin`, `DropSaveSeq`,
`PopNamespace`, the steps of a snapshot and `Rest` stutter: by `SameResult` what a restart would
load (the abstract `data`) is the same before and after them.

### The collection

`CollectionProofs` proves `Spec => []Inv` and from it `TypeOK`, `TablesAgree`, `WritesExact`,
`PromotionSticks`, and, if no batch is refused (`NoneRefused`; `collection_tiny` shows why),
`RebuildInvisible`. The invariant (`CollectionInv`) is stated of any record, because a swap takes
as many steps as there are logged writes: slots, id table and count fit together
(`Tables`), a rebuild's copy holds live slots of different ids and no HNSW goes back to flat
(`CopyOf`), and copy and log together give what readers see (`Follows`). Readers never see a
job or a log, so nothing weaker is kept by a write while a rebuild runs.

The argument: `PickFacts`, `TombstoneFacts`, `AddSlotsFacts`, `LastWinsFacts` and `NewFacts` say what the operators on
slots do; `UpsertFacts`, `MetaFacts` and `DeleteFacts` say of each write how it changes the view
(`Effect`) and that it appends itself to a running rebuild's log or may start a rebuild
(`Logs`). `ReplayAppend` shows that one more logged write is replayed after the
others; with it, `WriteFollowed` shows that every write keeps `Follows`: the replay of the longer log
applies the same write to a record with the same view. `ReplayInduction` is the induction along a
log, since a replay may itself start the next rebuild, whose own log must follow too. The
library's induction theorems take an operator, which the provers cannot instantiate;
lemma `Induction` states induction over the naturals for a *set* and is proved from the
well-foundedness of `<`.

### The dashboard

The inductive invariant `Inv` (`DashboardInv`) is the conjunction of `CallsInv`, `ShownInv`,
`WaitInv` and `ChartInv`; `NewestInv` is the first two. `ShownInv` and `WaitInv` rest on each other. `DashboardProofs`
proves `Spec => []CallsInv` and, from it, `BatchesComplete`, `KeysSentAsTyped`,
`ResultMatchesRequest` and `DraftsSurviveTabs`; `DashboardShownProofs` proves that every step
keeps `ShownInv`; `DashboardWaitProofs` proves `Spec => []Inv` and, from it, `NewestOnly`,
`OldSecretsGo`, `NothingHangs`, `MapIsCurrent` and `BucketsStay`: for any number of calls in
flight and any journeys, pages, panels, roles, keys and records.
The assumptions are those the modules declare of their constants: the default namespace is
one, a batch holds at least one record, there is a search width, a journey's index has a
model that exists or none, the models are finitely many, and `None`, which stands for `null`
and `undefined`, is no key, model, record of an index or state of a picker. Of the chart: at least one sample
is kept and shown, a bucket has a length, and the clock that stamps samples (`Date.now`) is not set back
between two of them, as `Gaps` are natural numbers; were it, a late sample could fall in an
earlier bucket and its point would move.
`ResultsGoWithTheirRequest` adds `NoneIsNoAnswer`: it is not an answer's record either.

`CallsInv` is about the calls in flight and about what the next ones are made from:

* `BatchOk`: all records before a batch are written in the namespace of the first, and its
  own too once it is answered. The rest of the handler makes the next batch from the answered
  call alone, after the user has retyped the namespace or left the page, so it is the
  call that must carry what is known, and `BatchesComplete`, which speaks of pending calls
  only, is not inductive.
* `KeyOk` and `SheetOk`: a key on its way is for the provider it was typed for, and so is the key
  in the open sheet, from which the next test or save is made. A test that succeeded says
  that its key works; this is what the save made from its answer needs.
* `AnswerOk` and `PanelsOk`: an answered query names its own request, and the panel's result and
  request came from one answer. Two queries may overtake each other; without `AnswerOk` the
  panel could take the result of one with the request of the other.

The argument has a layer for the calls and one for the pages. `CallsAppend`, `CallsConcat`,
`CallsDrop`, `CallsMap` and `CallsSet` say that what `Client` does to the sequence of calls
keeps all good calls good, and `CallsMoreWritten` that records once written stay. A step
changes the page in one of few ways: `Keeps` (no field that matters), `Follows` (the page after is
good, drafts are kept), `Aside` (on another page, whatever happens). Each
module of a page has a lemma with a step per action (`KeysStep`, `UpsertStep`, `BrowseStep`,
...), leaving a page is `DetachedCalls` and `StillHeardCalls`, arriving is
`FirstView` and `NavigateStep`, and `EveryStep` puts them together: every step is a
`GoodStep`, which keeps `CallsInv` and obeys `DraftsSurviveTabs`.

`ShownInv` is about the playground and the calls that are `Heard`, those that the page on screen
waits for:

* `SearchOk` and `CompareOk`: results are of what is asked, or more is to come. That is
  `NewestOnly`; by itself it is not inductive, as the answer that ends the wait replaces the
  results.
* `HeardOk`: so the newest call in flight asks for what the fields hold now. Every edit must mark
  the calls before it as outdated, also one that comes from elsewhere: the list of
  indexes that no longer has the one searched, the models that fill in the first choice.
* A comparison whose text was cleared is the exception: the code leaves it in flight as the
  newest (Playground.tsx:448-468), so its answer may be of what was asked before. Such an answer
  is shown while there is no text; the next text outdates it. `CompareOk` and `HeardOk`
  therefore except `text = None`, and without a model nothing may be in flight, because
  models that arrive later start a comparison without outdating any (`CompareOk`, last line).

Each page's lemma shows `ShownStep`: `ShownInv` afterwards, and `Hidden`, which is what
`OldSecretsGo` needs: a key sheet that is open and whose opening is over holds no secret, the one
it held (`Settles`), or the one that an answer just brought. That the sheets of other pages cannot
come between needs `OfPage` of `WaitInv`: an answer about a provider is not heard by the page Keys
(`ProvidersHear`). Most
steps are `StaysStep`: the fields that matter stay and no more is heard (`HeardAppend`,
`HeardConcat`, `HeardDrop`, `HeardSet`, `HeardKept` of what `Client` does to the calls). Of a page
that is left nothing is heard any more (`HeardOrphan`), and one that mounts shows nothing
(`MountedShown`).

`WaitInv` is about the calls that are `Awaited` by the page on screen: those whose end it waits
for, or whose answer changes what it waits for. It says:

* of the calls (`Asked`): what was sent with each and what may be in its answer. That a saved
  embedding comes back as it was sent decides whether the picker that sent it is still there.
* `FrameOk`: sign-in, documentation or shell is on screen as who is signed in and the address
  say. An answer that signs out or in therefore takes the page that awaits it away.
* `OfPage`: no page hears what another page asked for; whatever unmounts drops its calls.
* `PageWaits`, page by page: what turns or is disabled has *its* call in flight. `NothingHangs`
  says this too, but more coarsely, so it is not inductive: the sheet of a provider waits for a
  test of a typed key and a row for one of the saved key, so the end of one must not be
  counted on to clear the other; a search without its timer waits for the *newest* call, as the others are
  dropped; a comparison without a model never waits, since models that arrive start its timer
  without ending what is in flight.
* `ConnectWaits`: while a picker's choice or its fields are on their way the picker is there. A
  new search width mounts the settings anew and takes the picker away, and `Unpicked` and
  `Detached` must then have told its calls so.
* `MapWaits`: there is a map exactly while Explore is on screen, each load it hears is of the
  choices now made, and the data is of these choices unless a load is to come or there is an error. That is
  `MapIsCurrent` made inductive: leaving Explore must drop loads and neighbours, because the
  map that mounts when one returns would hear them.

The lemmas `WaitingAppend`, `WaitingConcat`, `WaitingDrop` and `WaitingPut` say what `Client`
does to what is awaited. Most steps are `QuietStep`: the fields that matter and the awaited
calls stay. The others are `PageStep` with a lemma per action; on the page of an index, whose
panels each have calls of their own, `SameBut` says that all but some kinds of calls are awaited as
before, so that one lemma (`PanelsMove`) covers the panels that do not move. Data that arrives
(`ShowIndexWaits`) is `FirstWaits`, where everything mounts, or `AgainWaits`, where the picker
comes or goes; a tab that comes on screen is `ActivateWaits`. A page that mounts waits for nothing
(`MountedWaits`) and nothing of the page before is heard (`DroppedWaits`).

`ChartInv` is about the samples that the overview draws: they are in the order of their times
(`HistoryOk`), no more than `MaxHistory`, and the page is there for its own route. The last
part makes the rest inductive: another route of the same page keeps the samples, any other step that
changes the page mounts it anew with none (`Charted`, `NavigateCharts`, `MeCharts`). On the overview, the
steps of other pages change nothing it draws (`KeysStill`, `PanelsStill`, ...): what they would
hear was dropped with them, which is `OfPage` again (`HomeUnheard`). The rest is about
`Calm` alone, in lemmas of `DashboardShownProofs`: one more sample drops some at the front of what is shown and adds
one that is no older (`WindowMoves`), of which `BucketsKept` follows the points. A point before the last
sample is of a bucket that has ended (`PointTime`), so the new sample is not in it
(`LaterBucket`) and changes no value held before (`HeldSame`); if nothing was dropped its
samples, count and sum are the same (`PointSame`), and if something was, either a sample of
the bucket is left and its point is at the same time, or the bucket is before the first one shown.

### Only model-checked

Liveness under fairness is beyond the prover: `UpsertsNotStarved`, `RebuildsEnd`,
`ExpiryNoticed`, `SignInOffered` and `SearchSettles`.

Of the safety properties, the dashboard's `TypeOK` alone has no proof. It gives
each field of each page its set, bounds of the instance included; what the other proofs need of
types is in `Inv`, and so is the cap on the samples kept.

`Storage` has no theorems of its own; what matters of it (numbers, the mutex, durable rows)
is proved of `Index`, which extends it.

## 6. Not modelled, and why

FAISS (search quality and its internals) is a library. Of the server, the routes the
dashboard calls are modelled by their answers, and of keys and sessions what a browser meets
of them; the audit file, signatures and the other routes are beside the data path.
Configuration, CPU and memory limits, metrics, the command line and the benchmarks keep no
state the data path depends on. SQLite is taken to do atomic, durable commits and the file
system atomic renames.

Of the dashboard: the texts of the documentation and the benchmark figures
(`docs/guides.tsx`, `reference.tsx`, `sdk.tsx`, `benchmarks.tsx`, `benchmarkData.ts`) are
content, with no state but the tab of a figure; icons, cards, toasts and the highlighter show
what they are given. Drawing, zooming and hovering on the map and the charts, the small map
and the traffic history on the overview of an index, formats, titles and breadcrumbs,
recent searches, the number of results, the graph settings of a new index, and the namespace
the map starts with when the default one is absent are left out of the modules that model
those pages.

## 7. Plan

In order of what they add; each keeps RECURSIVE operators out of what is to be proved.

1. `Lifecycle`: the settle timer with its races, `close()` against a running snapshot,
   `wait_for_index` against a thread not yet started, the registry's create/delete/close with
   crashes between mkdir and `index.json`. Two indexes, two threads.
2. `Filters`, `Planner`: postings and numeric columns under add and remove against a
   reference meaning; the plan chosen, the masks, chunked exact top-k against a sort, over
   bounded inputs.
3. `ClientCalls`: retries over a network that loses requests and answers, concurrent
   batches, and paged scans of a namespace that is being written.
4. `EmbedCache`: LRU with misses filled outside the lock.
5. Storage retyping (fp16 and float32) in `Collection`.

These five complete the data path. The dashboard is complete but for what section 6 names.

Theorems to come: `Planner` — a filtered search returns only live, matching slots;
`Lifecycle` — what exists on disk is what is served.
