# A verification project for `mct`

`mct` (this repository) indexes a source tree into a SQLite database beside it and answers questions
about it: from a command line, from MCP servers that language-model clients start, and from a local
web dashboard. Several of these processes, of several releases, share one database and one file of
review decisions, while the tree they describe keeps changing. The TLA+ modules in this directory
model that shared state. TLC checks them on small instances, and TLAPS proves the central theorems
for every value of the constants.

Paths below are relative to the repository; `mct-index` stands for `crates/mct-index/src`,
`mct-mcp-server` for `crates/mct-mcp-server/src`, `mct-cli` for `crates/mct-cli/src`.

## 1. The system

### Components, their state, their operations

| Component | Code | State it keeps | Operations |
|---|---|---|---|
| Database coordination | `mct-index/coordination.rs`, openers in `lib.rs` | `.access.lock` (shared / exclusive), `.writer.lock`, `user_version` of the database | open read-write, open read-only, migrate, begin and end a write, close |
| Index runs | `mct-index/indexer.rs`, `lib.rs` | rows of each file, `index_issues`, `last_indexed_at` (the published generation), `last_full_reconciled_at`, `applied_exclusions` in memory | full reindex (forced or not), reindex of reported paths, `apply_exclusion_changes` |
| Exclusion rules | `mct-index/exclude.rs` | one rule set and its generation behind an `RwLock`, shared by clones | reload, try_reload, match |
| Background reindexer | `mct-mcp-server/background.rs` | pending batch, deadlines, failure counter, a channel of one place | classify, merge, wait, update, retry, reconcile, stop |
| Review decisions | `mct-index/reviews/` | `review-decisions.toon`, its `.prev` copy, older formats, a lock file | load, resolve, save |
| MCP server | `mct-mcp-server/server.rs`, `main.rs`, `readiness.rs`, `shutdown.rs` | the index mutex, readiness, the process' life | startup index, tool calls, search in steps, refusal, shutdown |
| Ranking cache | `mct-mcp-server/cache.rs` | rankings keyed by query, answers sent | look up, validate, store |
| Embeddings | `mct-index/semantic.rs`, `mct-mcp-server/embedder.rs` | vectors of symbols | snapshot, embed without the lock, commit |
| Obsidian vault | `crates/mct-obsidian` | notes and a manifest on disk, a lock file, stage directories | publish after each run, recover |
| Queries | `mct-index/queries.rs`, `traversal.rs`, `cycles.rs`, `dependency_graph.rs`, `dead_code.rs`, `search.rs` | none (one snapshot) | resolve relations, traverse, find cycles, rank |
| Context budget | `mct-index/context_budget.rs`, `mct-mcp-server/pack_budget.rs` | none | pack results under a token limit |
| Manifests, assets | `mct-index/manifests.rs`, `assets.rs`, `luarocks.rs` | their own tables and hashes, written by the same runs | read, store, forget |
| Duplicates | `mct-index/duplicates.rs` | none | compare code |
| Dashboard, CLI | `mct-cli` | an `Index`, a `Reviews`, HTTP connections | the pages, commands and saves |
| Parsers | `crates/mct-lang-*`, `mct-tree-sitter` | none | text to symbols and relations |
| Evaluation | `crates/mct-eval`, `mct-corpus` | none | offline measurement |

### How they interact

- **Processes meet at the files.** Every opener of a database goes through
  `DatabaseAccess::open_with_setup`; every run takes `.writer.lock` with one attempt
  (`Index::writer_guard`) and is one SQLite transaction (`atomic_run`). Every save of a decision
  takes `review-decisions.lock`. Nothing else synchronises two processes.
- **Inside a server** the index lives behind one tokio mutex. Tool calls take it (`server.rs`) and
  so does the watcher's thread, through `blocking_lock`. The watcher also holds a clone of the rule
  set and reloads it from the debouncer's callback, without the mutex.
- **Before a tool answers** it calls `apply_exclusion_changes`: if the generation of the rules is
  not the one last applied, a full reindex runs first.
- **A search releases the mutex** while vectors are computed, and takes it again; runs of other
  processes are published between any two of its reads. What it computed is fenced by the published
  generation and by a hash over every indexed file.
- **Every run ends in a hook** that publishes the vault, inside the process' publication guard and
  under the vault's lock file; a process that exits while starting takes the guard first.
- **The operating system** adds file events that may be late, merged or lost; permissions that
  change; a power cut between a rename and the sync of its directory.

### What is hard here, and what makes each component correct

- *Coordination.* There is no atomic downgrade of a file lock, so opening is a loop with gaps in
  which anybody may migrate. Correct means: an opened index always has the schema of its binary, a
  migration is alone, writers exclude each other, and `open` returns.
- *Index runs.* The tree changes while it is walked, files become unreadable, renames are reported
  by one end only, the rules are swapped by another thread, a run may die at any step. Correct
  means: what a committed run covered is stored as a fresh index would store it or is on record as
  unreadable, and nothing alive is dropped.
- *Watcher.* Batches are dropped on a full channel, updates fail, four timers share a single timed
  wait, and the guard goes away in the middle. Correct means: no reported change is forgotten, each
  is indexed at last, and the thread ends.
- *Reviews.* Clocks go back, writers race, processes die, older binaries write without the lock.
  Correct means: the decisions form an append-only log whose acknowledged entries stay, nobody
  overwrites a decision unseen, and a saved decision is the one that applies.
- *Cache and embeddings.* What was computed without the lock is stale when it is stored or served,
  and rowids are given out again. Correct means: a vector belongs to its symbol, and a ranking that
  is served is one the index would still produce.
- *Vault.* The swap is two renames under a lock file which only its writer removes, beside a user
  who edits the same directory. Correct means: what is published is one whole generation, the user's
  text stays, and an exiting process leaves no lock file.
- *Queries and packing.* Sequential algorithms with cycles, limits and boundaries; correct against a
  direct definition of reachability, components and budgets, whatever the pages.

`PROJECT.json` lists every hazard at its line with the properties that cover it.

## 2. The modules

| Module | Models |
|---|---|
| `Coordination` | the lock protocol of `open_with_setup`, the two openers, `writer_guard`, the drop order of an `Index` |
| `Indexer` | index runs of one process, the rule set and its clones, the tree and its user |
| `Watcher` | the debouncer's callback, the channel, the watcher's thread, the tool calls it competes with |
| `ReviewLog` | what the review store promises: an append-only log |
| `Reviews` | `Reviews::load`, resolution, `Reviews::save` and `publish`; implements `ReviewLog` |
| `Retrieval` | `hybrid_search_like` with the ranking cache, the refresh of vectors, and publishing processes |
| `Vault` | `publish_with`, its hook in every run, exits, kills and recovery |
| `ContextBudget` | `rank_and_dedup`, `select`, `render` and `render_search`, and a client that pages |
| `Traversal` | relation queries, direct and over hops, their pages, affected tests |
| `Dependencies` | `walk_dependency_graph` and `find_cycles` |
| `Queries` | the three sequential modules side by side: the next-state relation the theorems about them are stated for, with any inputs |
| `*_proofs` | the theorems about the module of that name, for every value of its constants; those about the sequential algorithms are stated over `Queries`, in `Queries_proofs` and, for walks, in `Traversal_proofs` |
| `MC*` | constants for TLC; `MCQueries` gives `Queries` its inputs and its fairness |

A definition named "Mutant" in a comment is a plausible mistake in the definition that follows it.
It is used by no specification; substituted for the real one it makes the property named in
`PROJECT.json` fail, which shows that the property depends on that code.

### Coordination

A client is a process with one handle. `pc[c]` is its place in `open_with_setup`: `share` (polling
for shared access), `queue` (for the writer lock), `preflight` (connected, looking at the schema),
`release` / `exclude` (giving shared access back, polling for exclusive access), `migrate`,
`migrated`, then `open`, `writing`, `closing`. `shared`, `exclusive` and `writer` are the holders of
the lock files as the system sees them, `connected` the live SQLite connections. Each polling loop
of `acquire` is an action that takes the lock when it is free and `TimeOut`, which may happen
whenever it is not (when the timeout runs out is not modelled; both orders are). `Crash` is the
death of the process at any step: the system releases its locks. `Migrate` moves the schema to
`Latest[c]` in one transaction and refuses a newer one; `Recheck` is the next iteration of the loop,
or the `bail!` after the third.

Not modelled: the checks of the lock files' identity and permissions (`safe_file`), which are
preconditions; the contents of migrations. A read-only client ends in the same `open` state as a
writing one, but cannot write.

### Indexer

The tree is `disk` (a content per file: a hash a parser accepts, or `broken`, `foreign`, `binary`,
or absent), `denied` (permissions taken away) and `ruleFile` (what the ignore files on disk
exclude). The user changes them between any two steps; `MaxEdits` bounds these changes, restarts of
the process, and reloads that a clone has begun and not finished. `db` is the committed database,
`work` what the transaction sees; `rows[f]` is the hash the stored rows of `f` were parsed from,
`issues` the recorded syntax and read failures.

The rule set is `rules`, shared by the clones the server hands out. `try_reload` reads the ignore
file, compares and swaps, without one lock around the three: `HoldRules` is a clone that has read
(its text joins `held`), `LateSwap` the rest, at any later time, and `SwapElsewhere` that outside
the index. `ReloadElsewhere` is a reload nobody gets between. A clone may also finish between the
reload of `BeginFull` and its read of the generation.

A full run is `BeginFull` (reload the rules, remember their generation, start a transaction),
`ListDir` per directory, `ReadFile` and `WriteFile` per file (the parser runs between them; the
bytes are read again afterwards), then `FinishFull`: the two sweeps, the stamp and
`applied_exclusions`, which are set before `Commit`. A run over reported paths is `BeginPaths`,
`VisitPath` or `ListDir`/`SweepDir` per path, and `FinishPaths` with the search for the old ends of
renames (`RenamedAway`, after `remove_renamed_away`). `AbortRun` is an error or a panic before the
end; `CommitFails` one after the last write; `Restart` the death of the process and a new one.

`dirty` and `owes` are history: files whose last change no committed run covered, and files whose
rows are only found through the file they were renamed to. A rule set that goes astray from the
ignore file on disk makes the files it misjudges `dirty`: no run covers them until it is set right.

Files differ by their extension: some registered parser takes it (`Parsed`), or its language is known
and has no parser yet (`Pending`, which leaves a note in `issues`), or neither. Of the last two
`index_file` never reads the bytes, so `ReadFile` neither clears a read failure of theirs nor makes
one. `denied` may hold files and directories; one of a directory hides what is in it from the walk
and from `on_disk_as_stored` (`OnDisk`).

Abstractions: directories are flat; excluded directories are the files in them; a parser is the set
of contents it accepts; a reported path equal to the project root is `BeginFull(FALSE)`, as in the
code; other processes are kept out by `Coordination`'s writer lock. Manifests and assets, which have
tables and hashes of their own, symbolic links, and an ignore file that cannot be read are left out.

### Watcher

`raw` is what the debouncer gathered, `channel` the one place of the channel, `handler = "blocked"`
the callback inside `tx.send(Rescan)`. `pc` is the thread: `top` (computing `wait_until`), `receive`
(the timed wait), `due` (an expired deadline seen before waiting), `lock`, `run`, `gone`. `Changed`
is the enum of the code as a record, a walk or a set of paths that turns into a walk above
`MAX_INCREMENTAL_PATHS`. `deadline`, `age`, `retry` and `reconcile` are the four timers, in ticks,
which pass only while the thread waits. `stale` and `lost` are the files whose rows differ from the
disk, and those of them nobody will report. An update of the index is one step here; `Indexer` shows
what it does, and `racing` are the files it may miss because they were written after it started.

### Reviews and ReviewLog

`canonical` and `previous` are the two files, each with rows and history; `survivors` are the pairs
of files a power cut may leave, which a rename extends and a directory sync collapses. `draft` is
the file older binaries write, without the lock. Each writer goes through `Look` (the page a person
acts on, from what `load` makes of the files it can read: nothing without the canonical one), `Acquire`, `Prepare` (everything read again; refused when a file is unreadable, the
decision seen is not the one that applies, nothing changes, or there is no room), then for the copy
and for the new file `CreateTemporary`, `Rename`, `SyncDirectory`. `Fails` is an I/O error at any of
them, `Killed` the death of the process, `PowerLoss` of the machine. Resolution is translated from
`resolve.rs`: candidates of both formats, `precedence`, winners, revision, logical time.

The refinement maps the log to `canonical.history` and the acknowledged prefix to `acked`, the
length when a save that recorded an event last returned `Ok`. `Rename` is `Decide`, the last `SyncDirectory` is `Acknowledge`,
`PowerLoss` may be `Vanish`, everything else stutters.

The two formats before the draft's are read and merged as it is and are left out, with notes, byte
limits and the text itself. Hand edits of the files between the read of a save and its rename are
left out: no lock prevents them and the code claims nothing about them.

### Retrieval

A file holds one symbol. `rows[f]` is its rowid and the text it was read from; `vectors[i]` the
stored vector of a rowid, with the symbol and the text it was computed from. `Publish` is a whole
run of another process: rewritten and deleted symbols lose their vectors, and SQLite may give their
rowids to others. `OtherRefresh` is another process that fills vectors in. `entries` and `used` are
the cache and its order of use; `mutex` holds the server's index mutex.

A call of `hybrid_search_like` goes through `Ask` (keyed by its query and by whether the model
loaded), `LookupExact`, and for a candidate the validation of `QueryCache::check` in the reads the
code makes: `Refresh` (the state of the repository), `CheckPrint` (the fingerprint of the files the
hits are in), `Rerank` (ranking again where something else changed), `Fence` (the published
generation, unchanged since before). `AfterLookup` serves or goes on to `EmbedQuery`,
`LookupSemantic` with the same validation of a similar query's ranking (a miss when another cached
query may be as close), then without the mutex
`Snapshot`, the embedding, `CommitBatch` (only rows still as in the snapshot), and `TakeForRanking`,
`Answer` with the final fence, `Insert` and eviction, which is silently left out when the state of
the repository cannot be read. `EmbedFails` is an error of the embedding model.

Similarity is a constant: which texts a query matches by words (`Lexical`) and by vector (`Near`),
and which queries are `Similar`. Scores, order, scopes and exact phrases are left out, as are
`search_symbols_like`, whose lookup and answer are one snapshot, and the record of sent answers.

### Vault

`vault` is the tree at its place, with the manifest of what was generated; `next`, `previous` and
`retained` are the staged tree, the one moved away, and stage directories that are kept after a
failed rollback. `lock` is the writer of the lock file. A process publishes at the end of a run
(`Reindex`): `Build` the notes, `Acquire` the lock file (`create_new`), `Check` (manifest,
conflicts, nothing to do), `CopyUnmanaged`, `WriteNotes`, the two renames `MoveOut` and `MoveIn`,
`Release`. `Fail`, `MoveInFails`, `Rollback` and `RollbackFails` are the error paths. `Kill` ends a
process anywhere, `ExitStarting` is `exit_when_not_publishing`, `ExitRunning` the return from
`main`; `Recover` is what `COMMANDS.md` tells a person to do with a lock file that is left. The user
writes and deletes files at any time (`Write`, `Delete`); `settled` are the paths where their text
must stay. A change made after the publication looked at that file for the last time is excused
(`Unseen`, see section 7).

### ContextBudget, Traversal, Dependencies

Sequential algorithms over one snapshot, one action per round of a loop. `ContextBudget`: `Ask`;
`Lower`, `Drop` and `OneRow` are the branches of `select` until the rendered page fits; `Spare`,
`Begin`, `Halve` and `KeepHead` spend what a pack has left on lines of source; `Render` answers and
`Receive` is the client that asks on, from the next offset or with the tokens the answer asked for.
What a page costs is the operator `Tokens`, a constant; `Sent` adds the line that a minimal answer
ends with (`NoteTokens`), which the loop of `select` does not count. `Traversal`: `AskDirect` (one hop, paged by
SQL) or `AskWalk` and then `ReadPage`, `Visit`, `Fetch`, `EndLevel` of `bfs`, `CutPage` or
`CutTests`, on an index of relations whose targets are proven, ambiguous or external.
`Dependencies`: `Expand` and `EndHop` of the graph walk with its limit, then the iterative Tarjan
search `StartAt`, `Look`, `Finish`; the order in which roots and neighbours are taken is left open.

Their properties compare the outcome with a definition by other means: pages put together with the
answer without pages (`PagesAddUp`, `PagesInOrder`), depths with shortest paths, cycles with the
modules that lead to each other along the edges (`Onward`), lowered rows with what would still have fit
(`LeastRelevantFirst`, `NothingToSpare`).

## 3. The runs

| Run | Shows |
|---|---|
| `coordination` | all safety properties, and that `open` returns |
| `indexer` | what a committed run covered is exact or flagged; live rows stay, a file or a directory denied or not, save in the one case the code gets wrong |
| `indexer_rules` | a query is served only under rules that the last full run walked under from its start, whatever clones do; a reconciled generation has no read failure of what is read |
| `indexer_commit` | finding 1 (expected violation) |
| `watcher` | nothing reported is forgotten; a lost change is found when nothing is written for ever |
| `watcher_live` | with one file written for ever, reported changes are indexed and the thread stops |
| `reviews` | refinement of `ReviewLog`, history, clocks, older binaries, damaged files, temporary files, no unseen overwrite |
| `retrieval` | vectors belong to their symbols; what the cache serves matches the index |
| `retrieval_stale` | finding 2 (expected violation) |
| `queries` | pages, budgets, depths, graphs and cycles against their definitions; every answer ends |
| `vault` | publications are whole, exclusive and keep the user's text, through failures, exits and kills |
| `vault_exit` | finding 3 (expected violation) |

### Bounds, and why they are enough

- `coordination`: one client of an older binary and two of a newer one, the database found at any
  schema from 0 (new) to 3 (newer than both). Two new clients race to migrate the same schema; the
  old one meets a database that became too new. No bound on steps. The theorems remove the bound on
  clients.
- `indexer`: two files of the same name in two directories (either may be the old end of a rename
  into the other), two hashes, one odd content, two changes during any sequence of runs with up to
  three published generations. Two changes are enough for one to race a run and the other to follow
  it; a generation at its limit is refused, so the boundary is met. One file and the directory of
  the other can be denied, so that a path run that indexes a new file searches for old ends behind a
  directory that denies search.
- `indexer_rules`: three changes (a rule set, changed and set back is the dangerous sequence; so is
  a text read by a clone, changed, and swapped in late), one hash, batches of both files or both
  directories, one file of a language that has no parser yet; that file's directory and the other
  file may be denied, so that such a file can come to have a read failure. `CommitMayFail = FALSE`: otherwise finding 1
  breaks the property, as it should.
- `watcher`, `watcher_live`: two files and `MaxPaths = 1`, so that two paths are already a walk;
  timers of one to three ticks, chosen so that the batch age is reached before and after the quiet
  period and the retry doubles to its cap; one edit of each file that is not written for ever.
- `reviews`: two dashboards, one finding with two versions of its code, a clock that says 1 or 2 in
  any order with a last time of 3, two events of room, one decision by an older binary beside what
  it left before.
- `retrieval`: two files of two texts and two rowids (so that a rowid changes its owner), two
  queries that are similar to each other, two calls at once on a cache of one ranking (so that every
  insert evicts), two published runs, one edit. `retrieval_stale` needs one call only.
- `vault`: two processes, two paths, two texts, two runs and two edits; at first there is no vault,
  a file of the user's, or a published vault. `vault_exit` is the same protocol with one property.
- `queries`: corpora of up to three of five overlapping fragments and one mixed corpus, budgets on
  both sides of every boundary of a page of three rows, one symbol whose signature costs more than
  the first lines of its source and one whose costs less; ten relations among six symbols, three at a
  time, and some larger sets, depths 1 and 5 under a greatest depth of 4, pages of 1 and 2; import graphs over four files with
  four, five or all eight of eight arrows, and odd imports.

Deadlock is checked in every run.

### Fairness

- `Coordination!FairSpec`: each client inside `open` keeps taking its own steps. Every wait in the
  code is a polling loop with a deadline (`acquire`), so a step is always enabled: the lock, or the
  timeout. Nothing is assumed of a client that holds an open index.
- `Watcher!FairSpec`: weak fairness for the thread's own steps and for the callback; strong fairness
  for the clock (time passes though messages keep arriving) and for the mutex (tokio's is first
  come, first served); and strong fairness for the success of an update. The last is an assumption
  on the environment: the code promises to retry, not that the disk recovers. A file written during
  every run makes the runs abort (`SourceChangedDuringIndex`), and then nothing is promised.
- `MCQueries!AllSpec`: weak fairness of the whole next-state relation: the tool runs its loop, and
  the client asks on until it has the last page. Nothing else is at work.
- `Indexer`, `Reviews`, `Retrieval` and `Vault` have no liveness property: a run, a save, an
  embedding or a publication may always fail.

## 4. What is proved

`Coordination_proofs` proves, for every set of clients, every assignment of versions `Latest` to
their binaries and every set of initial schemas (`LatestAssumption`, `SchemasAssumption`): type
correctness, `OpenedAtItsSchema`, `MigrationRunsAlone`, `WritersExclude`, `NeverGivesUp` and the
action property `SchemaOnlyAdvancesAlone`.

None of these is inductive. They speak of where clients stand; the code ensures them by locks. The
inductive invariant `IInv` therefore adds `HoldersInv` (the place of a client says exactly which
locks and connection it has), `ModesInv` (the access lock is shared or exclusive, the writer lock
has one holder) and `AttemptInv` (in its second iteration a client finds a schema at least its own,
and leaves the fast path only for a newer one, which `to_latest` refuses; hence the third iteration
is never reached). Every action that drops the guards of a client goes through one lemma,
`DropKeepsIInv`; `Migrate` is the interesting step, since it moves the schema that
`OpenedAtItsSchema` compares: exclusive access means that nobody has the index open.

`Watcher_proofs` proves `NothingForgotten`, for every set of files, every `MaxPaths` and all timers,
and that the thread ends only after the last message. `NothingForgotten` alone is not preserved by a
successful update, which takes away the batch, the owed walk and the failure count that carried a
change. `IInv` adds that a walk that is owed while an update runs is that update (`OwedIsRun`), that
a file written behind the update's back is already on its way again (`RacingReported`), and that the
thread knows its source is gone only when the callback is idle and the channel empty (`FinalInv`).
The second needs the index mutex (`MutexInv`). The timers play no part: they decide when something
happens, never what. They have an invariant of their own, `Bounds`, which gives `TypeCorrect`
(`TypeOK`): every timer stays within its period, the retry doubles from the debounce to its cap and
no further, and the count of failures saturates.

`Reviews_proofs` proves, from `ReviewsAssumption` alone (clocks say times, limits are numbers), for
any number of writers, findings and older decisions:

- `LogImplemented`, the refinement of `ReviewLog`;
- `DecisionsTakeEffect` (`SavedDecisionApplies`), `CopyStaysBehind` (`CopyOneBehind`),
  `TemporaryStays` (`TemporaryKept`), `UnreadableKept` (`BrokenFilesKept`) and `TypeCorrect`;
- `RowsAreLastEvents` (`RowsFollowHistory`) and `DecisionsWereSeen` (`OnlySeenDecisionsReplaced`).

The argument: whoever is past `Lock::acquire` is the one holder of the lock (`LockInv`). Hence the
file a save read is the file its rename replaces, and what it is about to write is that history with
one event appended, whose row is later than the older file's decision as it was read (`SaveInv`,
with `NewTimeLater` and `LatestTimeType` about logical time). `SurvivorInv` says that every pair of
files the machine may come back with is a prefix of the history no shorter than what was
acknowledged, which makes `PowerLoss` a `Vanish`. `CreateTemporary` with no canonical file, which
skips the copy, is where `CopyOneBehind` is needed to know that there is no copy either. `LaterWins`
turns the later time into the winner of `precedence`; it covers the two formats of the model.

The last two relate a file's rows to its history. `HistoryInv` says, of every file the machine may
come back with and of every file a save has prepared, that a row is the last event of its finding
and that the times of a finding's events increase; appending one later event keeps both. `PageInv`
says that a page shows the events of its finding in a prefix of the history: a history only grows,
except when the machine goes down, and then no page is left. While no older binary has decided about
the finding, the revision comes from the last event shown. Times increase, so an equal revision
under the lock means that nothing about the finding was appended since the page was read
(`UpTo`, `AllEvents`, `LastEvent`).

`Indexer_proofs` proves `TypeOK` and three properties that speak of the committed database, which a
run replaces at its end by what it gathered in many steps; each has an invariant that says what the
open transaction knows in between.

- `ReconciledReadable` (`ReconciledMeansReadable`), from `Reconciling`: of a file a parser
  takes no read failure is left in the transaction once a full run has seen it, as long as the run
  met nothing unreadable; the sweep at its end removes those of directories and of what was not seen.
- `ServedByRules` (`ServedRowsFollowRules`) under `CommitMayFail = FALSE`, from `Following`:
  generations only rise, and a run that began under the current generation walks under the current
  rules; a path run that will count keeps its transaction clean. Without the assumption it is false
  (finding 1).
- `LiveRowsKept` (`LiveRowsStay`), from `Keeping`: while nothing changes, a live file is still to be
  visited, or seen, or retained, so no sweep takes it. What remains is the search for old ends of
  renames, which takes only what it cannot look up (`TakenForMoved`, section 7).

`Indexer_proofs` also proves `NothingSilentlyStale` (`NoSilentStaleness`), whatever is denied. The
property speaks of clean files in the committed database; a run makes it true file by file, in a
transaction, while the tree and the rules go on changing. `Fresh` says that only
files a parser takes have rows (`Kinded`) and has four more parts:

- `Settled`: a file that is not dirty is exact; or its read failure is on record and it still cannot
  be read; or it is out of reach and nothing of it is stored (what the search for old ends leaves of
  a file it cannot look up); or it was moved away, its rows are still those of the content at the new
  place, and nothing is stored there yet (which is how `remove_renamed_away` will find it);
- `Straying`: files the rules misjudge are dirty, and no run takes them for covered;
- `Covering`: a run over paths covers no excluded file, a full run all that may become clean;
- `Progress`: of the files that will be clean if the run commits (`Steadfast`), those seen are
  exact, those unreadable are on record, those under a directory that was listed are accounted for,
  and any that is not right yet is still due; once the end was written, each is right or is owed by
  a file that stays dirty (`Concluded`).

A visit disturbs one file (`VisitedBeside`, one lemma per visit); the sweeps forget a covered file
only if it is absent or excluded. The bytes the parser was given are compared again before they are
stored, which is why a file that is seen is exact.

The constants' assumptions say that contents and paths are told apart; tree, hashes, batches and
bounds are arbitrary.

`Retrieval_proofs` proves, for any files, texts, queries, similarity, calls and capacity,
`VectorsOfTheirSymbols`, `HitsMatchIndex` and `ExactHitsAreCurrent`. A vector stays right because
rowids are not shared (`OwnRowids`) and because `CommitBatch` compares rowid, file and hash again.
This is about what the snapshot recorded: the text that is embedded is read from the disk at the
snapshot and may be newer than the recorded hash (section 7).
A hit is right because the state a validation has seen is the index for as long as no run is
published (`Validating`), a cached entry says what a ranking of the state it is stamped with says
(`EntriesInv`; one that was ranked again over a newer index is `Doomed` until the fence drops it),
and the fences compare the generation before and after (`HitsInv`). Nobody else changes the cache
meanwhile (`MutexInv`). `RetrievalTyped` (`TypeOK`) adds that the order of use lists what the cache
holds, each key once (`UsedInv`): a key that is moved to the end or evicted leaves the others in
place, and so the cache never holds more than its capacity.

`Vault_proofs` proves `TypeOK` and `VaultIntact`, for any processes, paths and texts: `Staging` says
what a publication has staged at each step, `Carried` that the user's settled text is in the tree
that will be moved in, `Safe` that one of the trees that stay holds it, and `LockExplained` and
`Whole` are conjuncts of the property itself.

`Queries_proofs` proves five properties of the sequential modules for any inputs. They are stated
for `AnySpec`, in which the three modules take steps side by side; the specification that
`queries` checks, with its inputs and its fairness, allows no other behaviours.

- `GraphIsRight` (`GraphIsNeighbourhood`). `GraphInv`: the modules expanded so far have all their
  imports among the modules found, unless the limit is used up. `BallInv`: the hops that are
  complete found exactly the modules so many steps away.
- `CyclesAreTheComponents` (`CyclesAreComponents`). The cycles reported are the components of the
  edges shown that hold a cycle, in whatever order roots and neighbours are taken. `SearchInv` says
  what an iterative depth-first search keeps: the stack and the path on it are in the order of
  discovery; every module on the stack leads to one of the path that was found no later
  (`LeadsBack`), and the modules of the path lead to all found after them (`LeadsOn`); arrows not
  followed yet are still to look at (`Followed`); closed modules lead to closed ones only
  (`ShutIn`). The value noted for a module of the path belongs to one on the stack that it leads
  to (`LowIs`), and is no greater than the place of any that what was found after it points at
  (`LowLeast`). `ComponentIs` draws the conclusion: when a module of the path has looked at
  everything and still notes itself, what lies on the stack from it on is its component. That
  `Onward`, which the property uses, is the least transitive set with the edges in it needs an
  induction and a count (`StepsEnd`: what so many steps reach stops growing).
- `PagesAreInOrder` (`PagesInOrder`). The ranking is the corpus in order, without what a better
  candidate covers (`RankedIs`), because keys compare as tuples of integers and because what lies
  within a kept span that lies within another lies in that one; and what the client has got is the
  head of what it will get (`GotInv`).
- `LeastRelevantPayFirst` (`LeastRelevantFirst`). The page before its last loss was too dear
  (`RowsInv`), for any estimate of cost at all.
- `PackLeavesNothing` (`NothingToSpare`). Of the bisection of `spend_spare`, the lower end always fits
  (`FitInv`) and one line more than the upper end never does (`EndsInv`). That lines given to one row
  could free room for an earlier one, where they cost less than the signature they replace, cannot
  happen: `select` lowers the last row that can still be lowered, so of a page that starts with all
  its detail at most one row is down to its signature (`OneSummary`), and no other row is given
  lines. The theorem therefore assumes nothing about the estimate, and the run uses one in which a
  signature is dearer than the first lines of its definition.

`Traversal_proofs` proves, over the same specification, what the walks over relations promise:

- `PagesAreTheAnswer` (`PagesAddUp`). The reference is the walk without a budget, hop by hop
  (`Levels`, `FullWalk`). A bounded walk stops as soon as its page and one hit more are there, asks
  for no more rows than it has room for, and reads hop 1 in pages that it filters. `WalkInv` places
  it in the reference at every step: in hop 1 the queue is what the pages read so far leave
  (`HopAt`); while a hop is visited the hits are the first of the reference, the queue is the next
  rows of this hop, all of them or enough, and the symbols noted are those the visited rows were
  the first to lead to (`VisitAt`); between hops the queue is what the symbols asked so far answer
  (`FetchAt`). So a walk ends with the beginning of the reference (what the comment on `bfs`
  promises), and with all of it unless its budget is full. `PagesInv` makes pages of that: the client
  has the first `offset` hits of the answer. Selecting the tests among the hits preserves beginnings
  (`TestsBegin`), so a search for tests that starts over with twice the budget loses nothing, and the
  filter of hop 1 agrees with the one SQL applies to a direct query (`DirectIs`).
- `DepthsAreShortest` (`DepthIsShortest`). The hops of the reference reach what is that many proven
  hops away (`NearIs`), although each goes on from the symbols new to it alone, because what was
  reached before leads nowhere new (`AllClosed`); the bounded walk's hits carry the hops of the
  reference.
- `AllTyped` (`AllTypesOK`). The types of the three modules, from the invariants above; the theorem
  assumes that an estimate is a number (`EstimateIsNumber`).

`BudgetAssumption` says of a corpus what the callers of `select` see to: it is finite, spans are not
empty and no two candidates have the same key.

These proofs need induction over positions and over hops. The library's induction theorems cannot be
instantiated here, so `Queries_proofs` derives what it needs in the form of sets from the theorems on
well-founded relations (`SetInduction`), and the existence of functions that are defined by recursion
with it (`RecursionExists`, and `FoldIs` over the positions of a sequence). An operator that takes an
operator, like `SelectSeq` and the folds, stays closed to the provers: `Traversal` selects with
`Those` and joins with `FlattenSeq`, about which lemmas can be stated.

Only model-checked:

- liveness (`OpenReturns`, `LostChangeReconciled`, `ReportedChangeIndexed` and `StopsWhenUnwatched`
  of `Watcher`, `AnswersEnd`): fairness is out of the prover's reach.

## 5. Findings

Each is a run that TLC ends with a counterexample to a sentence of the repository.

1. `indexer_commit`: `reindex_inner` stores `applied_exclusions` (`indexer.rs:176`) before the
   transaction commits. If the commit fails the rows roll back, the rules count as applied, and the
   next tool call does not try again, contrary to `lib.rs:364`.
2. `retrieval_stale`: a run published between the snapshot of the pending symbols and the ranking's
   read leaves rewritten symbols without vectors. The ranking made without them is still cached
   (`server.rs:2112`), stamped with the new state of the repository, and every later exact lookup
   accepts it, contrary to `cache.rs:20`. The state does not cover the stored vectors.
3. `vault_exit`: when the client disconnects after the startup index, `main` returns without the
   publication guard (`main.rs:178`), so the watcher's thread may be cut off in the middle of a
   publication and leave the lock file, contrary to `crates/mct-obsidian/src/lib.rs:276`.

## 6. What is not modelled, and the plan

The modules cover the state that outlives a step: files, locks, tables, caches, rules, threads. The
larger part of the code is functions from text to text, and stays out:

- **Parsers** (`mct-lang-*`, `mct-tree-sitter`): a parser is the set of contents it accepts.
- **Formats** (`format.rs`, `reviews/format.rs`, `identity.rs`, pages and JSON of the dashboard,
  intents, argument handling): wording and layout, tested by round trips and snapshots in the
  repository.
- **Duplicate analysis, dead-code report and ranking arithmetic**: heuristics over text and floating
  point, without a promise to check them against.
- **Manifests and assets**: tables of their own, written in the same transaction as the rows of
  `Indexer`; they would be files of a second kind there.
- **SQL and migrations**: what a migration does to tables. `Coordination` has the version and who
  may change it.
- **Dashboard and CLI**: clients of what is modelled (the watcher, the index, the review store). The
  rule files' editor is one optimistic check and one rename in one thread.
- **Evaluation and corpus**: offline measurement.

Done of the plan: coordination, watcher, reviews, index runs with reloads in steps, cache and
embeddings in one module, vault with exits, and the sequential algorithms. Left of it: an abstract
index that publishes generations, refined by `Indexer` and used by `Retrieval` in place of
`Publish`; a server that composes `Watcher` with readiness; manifests and assets.

## 7. Where the code keeps less than it says, and what was noted while reading

The first three are exceptions that properties of passing runs state: the runs and the proofs show
that the code keeps the rest of the promise, and that nothing else is excepted. The others have no
run.

- `on_disk_as_stored` (`indexer.rs:831`) takes every error of `canonicalize` for absence. A file
  whose directory denies search is then taken for the old end of a rename, once an incremental run
  has indexed a new file, and loses its rows and its read failure, where "the result is the same
  index a full `reindex` would produce" (`indexer.rs:665`) and the search drops the rows "of those no
  longer on disk" (`indexer.rs:864`). `LiveRowsStay` excepts exactly this (`TakenForMoved`);
  `NoSilentStaleness` says what is left of such a file: nothing.
- A read failure of a file no parser takes is cleared by no later run: `index_file` returns for such
  a file (`indexer.rs:382-401`) before `clear_read_failure` (`413`). An incremental run records one
  when it visits the path behind a denied directory; the next full run, with the permission back,
  sees the file, keeps its record and moves `last_full_reconciled_at`, although `indexer.rs:104`
  calls that a walk "without an unreadable path" and by `indexer.rs:109-111` a status that lists a
  read failure is not fully healthy. `ReconciledMeansReadable` speaks of directories and of files a parser
  takes.
- The line "No row fits" of an empty page is appended after `select` and not counted
  (`pack_budget.rs:438`, `585`), so an answer without rows may exceed its limit while `over_budget` is
  false, although "the budget covers the whole response" (`pack_budget.rs:475`,
  `context_budget.rs:7`). `LeastRelevantFirst` bounds `Sent`, which counts the line, and excepts the
  answer without rows.
- The text of an embedding is read from the disk at the snapshot and stored under the content hash
  of the index (`semantic.rs:459-479`): a file edited after its run and before the snapshot leaves a
  vector of the newer text, which stays until a run notices the edit. `VectorsOfTheirSymbols`
  compares what the snapshot recorded.
- A save of a decision that is already so answers `Ok` without a write or a sync (`store.rs:387`).
  When the save that made it was killed or failed after its rename, a power loss may still undo the
  decision after that `Ok`. `acked` counts the saves that record something.
- Every update of the watcher pushes the periodic reconciliation back (`background.rs:401`), so
  steady writes to one file keep a lost change from being found (`main.rs:29`, `background.rs:202`).
  `Watcher!LostChangeReconciled` holds without a file that is written for ever.
- `publish` of the review store returns the error of the directory sync after the rename
  (`store.rs:497`), so a save may fail although the decision is in the file (`store.rs:348`).
- An exact hit that is dropped at the last fence falls through to code that expects an embedded
  query, and the search ends in an internal error (`server.rs:2058`, `2085`, against the comment at
  `2075`). The next search works.
- Two clones that call `try_reload` at once may swap in an older ignore file (`exclude.rs:186-202`).
  The next tool call reloads; `indexer_rules` shows that nothing is served in between.
- An ambiguous relation may be reported twice in one walk. Both callers of `select` already make
  candidates unique.
- A user's edit between the vault's conflict check and its swap is lost (`manifest.rs:200`); notes
  are built before the lock is taken, so an older generation may replace a newer one
  (`COMMANDS.md:372`); the swap of two renames is documented as not crash-safe.
- A panic in the watcher's thread ends it silently (`background.rs:365`). A manifest that stops
  being UTF-8 keeps its old dependencies (`indexer.rs:351`). A writable open takes the writer lock
  for a moment, so an open and a run of another process exclude each other briefly.
