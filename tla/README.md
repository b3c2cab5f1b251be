# Dynamic report service: verification

TLA+ models of the report service in `src/dynamic-report` (Go) and of its web
console in `src/web` (TypeScript): state machines checked by TLC on
small instances, and theorems about them checked by TLAPS for every value of
their constants. `PROJECT.json` lists the components, the runs, the source lines
behind each definition, the hazards and the theorems.

## 1. The system

A *report definition* is a JSON document (data source, dimensions, metrics,
styles). The console edits a draft of it, publishes it as a numbered version and
exports it: a background task reads the rows, lays them out with groups,
subtotals and merged cells, and writes an `.xlsx` file.

| Component | Keeps | Operations | Correct when |
|---|---|---|---|
| Orchestrator (`internal/orchestrator`) | task map, bounded channel, `started`, id counter, artifact files | `Submit`, `Start`, `worker`, `execute`, `Wait`, `GetTask` | no accepted task is lost or run twice; *done* means the task's own whole file; a status is final once acknowledged; submissions cannot block for ever; one task per idempotency key |
| Catalog store (`internal/catalog/store.go`) | table of (id, version, status, payload) | `SaveDraft`, `Publish`, `Rollback`, reads | published versions never change; a publication takes the newest draft and loses none; a save does not go below a newer draft |
| Catalog cache (`internal/catalog/cache.go`) | published payload per report and process | `GetPublished`, `Invalidate`, `StartTTLRefresh` | holds published versions; fills never go backwards; every instance ends up with the newest version |
| Data hub (`internal/datahub`) | an open cursor | `CSVSource`, `DBSource`, `SliceSource` | rows sorted as the definition says, so that a group appears once |
| Report engine (`internal/engine`) | group stack, layout rows, spans, formulas | `Feed`, `Finish`, `PositionPass`, `AssemblyPass` | every row in one subtotal per depth and in the total; merges nest; the cached value of a cell is its formula's |
| Style engine (`internal/style`) | rules sorted by priority | `Validate`, `NewEngine`, `Resolve`, `ResolveTraced` | the highest rule that holds sets a field, whatever the order of the document |
| Pipeline (`internal/pipeline`) | nothing between calls | `build`, `CompileOverrides` | an override has the last word in the cells its scope covers; a report fails for its document only |
| Schema (`internal/schema`) | the cells, row heights, formats | `Build`, `PageRows` | the formats of a group keep to its rows; windows show every row once |
| Render (`internal/render`) | nothing | writes the workbook | no conditional format replaces another |
| Model (`internal/model`) | nothing | parses and validates a document | - |
| HTTP API (`internal/httpapi`) | nothing of its own | one handler per route | invalidates after a commit; binds an export to one definition |
| Editor (`web/src/store`, `hooks`, `editor`) | document, undo and redo stacks, dirty flag, pending save | edits, undo, redo, autosave, load, publish | undo stays within one load; *saved* means what is on screen is stored; edits get saved |
| Export and version dialogs (`web/src/components`) | polled task and its timer, list of versions | export, poll, rollback | what is downloaded is the export of this button; a link it settles on works; no timer outlives it |

Interactions. The editor saves drafts and publishes through the HTTP API, which
writes the store and then invalidates the cache of its own process. An export
request takes the cached published version, or the version it names, copies the
definition into a task and submits it. The console polls the task and downloads
the file under the task's id. Inside a task the data source hands its rows to the
engine's passes, the style engine resolves every cell, the schema collects cells
and formats, and the renderer writes them; a preview stops before the renderer.

What is hard: HTTP handlers run concurrently and none holds a lock over two
store calls; the queue uses one mutex in several short regions and a bounded
channel; the process may die at any moment and only the database and the files
stay; the cache reads the store without its lock; the store's atomicity depends
on the database; in the console, answers arrive after further edits and after the
editor was left and opened again, and other clients write the same draft; in the
engine, indices of three passes and of the sheet must agree although a total row
may be inserted in front at the end; rules, overrides and formats are addressed by
group paths, priorities and row ranges that those passes produce.

## 2. Modules

Five concurrent components and the sequential report pipeline.

| Module | About |
|---|---|
| `TaskLifecycle` | abstract: what the export service promises about a task |
| `Orchestrator` | the queue, its workers and the artifact files |
| `OrchestratorProofs` | theorems about it |
| `VersionChain` | abstract: what the definition store promises about one report |
| `DefinitionStore` | the SQL statements of three store operations under two lock models |
| `DefinitionStoreProofs` | theorems about it |
| `PublishedCache` | cache, publishing handlers, readers, refreshers of several processes |
| `PublishedCacheProofs` | theorems about it |
| `Editor` | one browser's editor over `VersionChain`: store, autosave, load |
| `EditorProofs` | theorems about it |
| `ReportLayout` | group stack, position pass, assembly pass |
| `ReportLayoutProofs` | lemmas about it |
| `RowOrder` | the order in which the data sources hand over their records |
| `StyleEngine` | rules, conditions, overrides, and the loop that resolves a cell |
| `StyleEngineProofs` | lemmas about it |
| `ReportPipeline` | a report from its data source to the workbook or the preview; composes the three |
| `ReportPipelineProofs` | theorems about it |
| `ExportService` | export buttons against the export handlers, over `TaskLifecycle` |
| `ExportServiceProofs` | theorems about it |
| `MC*` | constants for TLC |

Definitions whose comment begins with *Fault:* are not part of any
specification. Each is one definition as a plausible bug would have it; with it
in place of the original, the property listed with it in `PROJECT.json` under
`mutants` must fail.

### Orchestrator

A call `c` of `Submit` stands for the `taskEntry` it creates. `pc[c]` walks
through Submit: `Scan` (the loop over the map under the lock), `Identify` (the
atomic counter), `Register` (the map insertion), `Send` (the channel, which
blocks), `Start` (the launch of the workers, guarded by `started`).
`wpc[w]` walks through the worker loop: `Take`, `SetRunning`, `BuildFails` or
`CreateFile`, `RenderFails` or `RenderAndClose`, `SetArtifact`, `SetDone`, or
`SetFailed` and `SetError`, then `Ack`. Each lock region and each channel
operation is one action. `setStatus` looks its entry up by id, so `WithStatus`
does too: an entry that another one replaced in the map would not be updated.
`disk` is the set of artifact files with their writer and whether they are
whole. `Restart` kills the process anywhere and runs `NewOrchestrator`: all is
forgotten but the files, and ids count from 1 again.

Left out: an explicit `ExportRequest.ID` and `ArtifactName` (no caller outside
the tests sets them; the handler leaves both empty), the progress numbers, and
the sink. `Wait` and `GetTask` change nothing; what they may return is what
`AckedIsFinal`, `DoneIsWhole` and `FailureIsExplained` speak of.

`Orchestrator!Lifecycle` maps the queue to `TaskLifecycle`: the state of a task
is `status`, and a task is delivered when its status is done and its own whole
file is on disk.

### DefinitionStore

The table of one report as a function from versions to rows. Each statement
outside a transaction is an action (`SaveCheck`, `SaveWrite`, `RollbackRead`);
inside one, each read is an action and the writes are one action with the commit
(`PublishRead`, `PublishMax`, `PublishCommit`, `RollbackMax`, `RollbackCommit`).
`Dialect` chooses the isolation the code gets from its database:

- `sqlite`: a transaction keeps its read lock to its end, so nobody else commits
  a write while it is open. A write that finds another transaction open returns
  `SQLITE_BUSY` (the DSN sets no busy timeout) and its operation ends with an
  error: `Busy`. The model takes a busy commit to end its transaction.
- `postgres`: `db.Begin` without options is READ COMMITTED; every statement sees
  what is committed when it runs, and every write commits.

`Rollback` may give its new version a number that is an open draft, whose row
the upsert then replaces (`store.go:221`); `VersionChain!Rollback` says so.

### PublishedCache

A published payload never changes (`PublishedStay`), so its version number
stands for it. `Commit` and `Invalidate` are the two steps of the publish and
rollback handlers; `Lookup`, `ReadStore`, `Fill` are the three steps of
`GetPublished` (the lock is not held during the read); `Poll` and `Refresh` are
those of the TTL refresher, which runs only when `TTLRunning`. Nothing outside
the tests calls `Subscribe`, so `NotifyChanged` reaches nobody.

### Editor

One browser with one report. The store is `screen` (the draft), the two stacks
and `saveState`; a draft is its version and its body, and `baseVersion` is the
version of the draft on screen. `load[m]` is the `load()` of `EditorLayout` that mount
`m` began last, one action per answer: `ReadDraft`, `ReadPublished`, `Show` (which is
`setDraft`), `Preview`, and `LoseLoad` or `NotFound` for its catch. `Open` cancels the
load that the previous mount's effect began. The retry button drops the function that
would cancel its load (`EditorLayout.tsx:136`), so a load that `Retry` began goes on
after its mount is left (`Left`): its answers change the store, and only its error
page and its end are lost with the component (`Ended`). `Edit` is `checkpoint` followed
by `mutateDraft`, as every panel and the theme menu call them; `Tick` is a tick of
the autosave interval that finds something to save. The `inFlight` flag is a ref
of the hook, so each mount has its own: `request[m]` is the PUT of mount `m`.
Leaving the editor clears the interval but neither the store nor the pending PUT,
whose answer `Answer(m)` then still changes the store.

The service is `VersionChain`, which `DefinitionStore` implements on SQLite:
publish and rollback are one step, a PUT is two (`CheckVersion`, `WriteDraft`),
because the store's check and upsert are two statements. `Lose` stands for a
broken connection and for `SQLITE_BUSY`. `OtherSave`, and the publications and
rollbacks nobody on this screen asked for, are the other clients. `synced`, the
documents this editor has loaded or written, and `foreign`, the earlier mounts whose
loads were shown since the last reset, exist for the properties only.

Left out: the rendered schema, the selected cell, the zoom, and the override
patch of the inspector, which writes the draft on the service.

### ReportLayout, RowOrder, StyleEngine and ReportPipeline

`ReportPipeline` is `pipeline.build`: `stage` says which of its calls is next.
`Load` (or `LoadFails`) is the data source, `FeedRow` and `LayOut` are the engine's
passes, `ReadRules` (or `RulesInvalid`) parses, validates and ranks the rules with
the compiled overrides, `NextCell`, `ApplyRule` and `RuleStops` resolve the cells row
by row, `BuildFormats` ends `schema.Build`, `Render` writes the formats, `ShowWindow`
is the window of the render route. The other three modules hold the variables and
the steps of their part. `def` and `plan` are the definition; nothing changes them
but `ShowWindow`, which records the window that was asked for.

*RowOrder.* A record has, per dimension, the value of the dimension's field and,
unless it lacks it, that of the column its `sort_key` names: a line of a CSV file may
be short and a slice holds any maps, and `sortValue` then compares the dimension's own
value (`SortValue`; a scope has such records if it has `gaps`). Files and slices are
sorted by a stable sort that looks at `by` and `dir`; a table is sorted by ORDER BY,
which looks at neither (`DBPrecedes`) and leaves ties open, so `DBOrders` has every
order that SQL allows. `GroupsAppearOnce` says when a group may be split: only if, in
its own or an outer dimension, two values share the column the rows are sorted by, or
one value has two. Inner dimensions do not matter.

*StyleEngine.* A condition is its tree, flattened; `Verdict` evaluates it with the
code's short circuits, so an operator that does not fit its operand is an error only
if it is reached. `Setting` resolves the position of a border and the indent per
depth. `ByPriority` is an invariant of the loop: it holds after every rule, not just
for the finished cell. `Covers` reads the scope of an override from the document
and not from the rule `CompileOverrides` makes of it, so that `OverrideWins` compares
the two.

*ReportLayout.* One step per call of `Feed`, `Finish`, per iteration of the loop of
`PositionPass`, and for `AssemblyPass`. Columns never meet, so there is one
metric. Positions are the code's indices plus one. A metric value is a pair of a
kind (number, digits in a string, other text, nil) and a number, which is what
`toFloat` and a spreadsheet tell apart. A result is a fraction, so an average is
exact; the code's is a float. `Shares` compares a row with the open groups from the
outermost inwards, `Continues` with the open spans; the number of those it shares
or continues is the \E k of `Feed` and of `PositionRow`. `Operands` and `SubtotalOf`
model the spreadsheet's SUBTOTAL, the reference the code's cached values are
compared with.

### ExportService

An export is a click on a button of this console or another client's. Its task
lives in `TaskLifecycle`, which `Orchestrator` implements, with at most `Workers`
tasks running. `call[c]` is the POST: `Click` sends it, `Export` is the handler,
which binds a version that was published at some time (`Loadable`: the cache may be
behind) and gives the task an id, `Submitted` and `SubmitFails` are the two ends of
`start` in `ExportButton.tsx`. `Tick`, `Status` and `Polled` are an interval, the
status handler and the answer; `polling` is the guard that keeps one request at a
time, and `mounted` is `!cancelledRef`. `LoseSubmission` and `LoseStatus` stand for a
broken connection before or after the handler ran, or a refusal. `Restart` forgets
the tasks and counts ids from 1 again, so an id kept by a button then names nobody's
or another client's task; `restarts = 0` in two of the properties marks this. A
button is not disabled before its submission is answered, nor before the first poll
of a later one: `overlapped` remembers buttons that were clicked while a submission,
an interval or a status request of theirs was still under way (`Settled`).

## 3. Runs

| Run | Instance | Shows |
|---|---|---|
| `queue_safety` | 3 submissions, 2 with one key; 2 workers; channel of 1; 1 restart | types, `DoneIsWhole`, `AckedIsFinal`, `InOnePlace`, `WorkIsServed`, `EntriesStay`, the refinement of `TaskLifecycle` |
| `queue_liveness` | 1 worker, channel of 1, 1 restart | every accepted task is acknowledged unless the process dies, also in the restarted process; every failure gets its text |
| `queue_idempotency` | as above | **refuted**: one task per key |
| `store_sqlite` | 3 clients, 2 bodies, versions to 3 | published versions stay, none gets a number twice, publications take the newest draft, the refinement of `VersionChain` |
| `store_postgres_history` | 2 clients | **refuted** on PostgreSQL: published versions stay |
| `cache_ttl` | 2 instances, a handler and a reader on each, polling | caches are sound, fills never go back, all converge |
| `cache_server` | 1 instance, no polling | **refuted**: the cache converges |
| `editor` | 2 bodies, versions to 2, opened twice, 2 edits or undos with their redos, 1 lost call (a save or a load), 1 other save | *saved* is saved, undo stays within a load that no earlier one disturbs, edits get saved, conflict, or have a published number |
| `editor_fallback` | opened once, 1 edit, nothing lost, nobody else | **refuted**: what the editor opens can be edited and saved |
| `editor_overwrite` | as `editor` | **refuted**: a save replaces only a draft that this editor has seen |
| `report` | the scopes below: up to 3 dimensions, 2 keys, 4 rows | fourteen invariants: subtotals, totals, merges, edges, traces and formulas; groups brought together; styles, overrides and failures; formats and windows |
| `export` | 1 button, 2 clicks, 1 other export, 1 worker, 2 versions, 1 restart | a button downloads its own export of the version it was bound to; a link it settles on works; no timer outlives it; it does not stay busy |

Bounds and why they are enough. *Queue*: a channel of one place with three submissions
makes a submission block with its entry visible, with one task waiting and others with the
workers; two workers write files at the same time; one restart makes new tasks reuse the
ids and files of old ones. Workers are interchangeable, hence the symmetry; it is not used
where liveness is checked. *Store*: the races need two clients; the third lets one more
operation fall into each window. A client whose next version would pass `MaxVersion`
stops: that, and nothing else, is why deadlock is not checked there. The queue stops when
all submissions are served. `report` checks deadlock: `Finished` is its only idle step, so
no report gets stuck between two calls. *Cache*: three publications, because a stale fill
needs one version before and one after an invalidation, and one more overtakes it.
*Editor*: an answer can only come late if the editor is opened twice; two edits or undos
and the redo give edit, undo and redo within one load, or edits around a save; the loss
can hit a load, so that it is retried and outlives its mount; starting from a draft 1 or a
published version 1, two versions give a publication or a rollback. The bodies are alike,
so `MCSpec` fixes the first one. It stops when there is nothing left to do. *Report*: all
combinations at once would be far too many, and most parts of a definition do not
interact, so `MCScopes` is a set of families, each of which varies what one group of
properties is about and keeps the rest small. `Shapes` and `Deep` vary the groups (all
sequences of up to four rows, the total at either end; with three dimensions a row can
close one, two or three groups while an outer one stays open; with four rows a group can
have one row, several rows and several subgroups). `Amounts` and `NestedAmounts` vary
aggregations and kinds of values. `OneSort` and `TwoSorts` vary directions, sort keys and
sources, with ties; `Gaps` lets records lack the sort key's column. `Files` varies what a
CSV file may hold, and the row cap. `Styled` and `Misstyled` have every kind of condition,
border and override, rules of equal priority, one above the overrides, and documents that
fail before or while cells are resolved. `Formatted` and `Windowed` have formats that
share ranges, more groups than `GroupLimit`, and windows before, across and behind the
rows. Only the last four are followed beyond the layout (`followed`). `SampleCap` is 2
instead of 5 so that traces overflow, `GroupLimit` 2 instead of 200. *Export*: two clicks
overlap, or one follows the other; the other export takes an id in between and the only
worker; one publication changes what is newest while a task waits; the restart makes ids
repeat. A third click before the first poll of a second export is beyond the bound, for
the state space, and within the theorem about links. The versions of forgotten exports are
forgotten as well. It stops when the clicks are used up and every task has ended.

Fairness. The queue assumes that each goroutine that can run runs (weak
fairness of each submission and each worker), which the Go scheduler gives;
nothing forces renders to succeed. A blocked `Send` stays enabled only while
the channel has room, and with several senders it could starve under weak
fairness alone; TLC shows that it does not, since the senders are finitely many.
The cache assumes that handlers and readers finish what they began and that the
ticker keeps ticking where it was started; nobody is forced to publish or read.
The editor assumes that its interval ticks and that each call is answered, or
fails, in the end; no user, no loss and no other client is forced to act, and as
the user's actions are bounded, *eventually* means: once the user stops. The
export service assumes that the queue begins and ends what it accepted, which is
what `queue_liveness` shows of it, that intervals tick, and that each status request
is answered or fails; nobody is forced to click, to publish or to restart. The
other specifications have no fairness.

## 4. What the code does not keep

- `OneTaskPerKey`: the scan for the key and the insertion are two locked regions
  (`queue.go:108` and `:121`), so two concurrent submissions with one key both
  pass. The design document says (line 655) "任务幂等键防重复提交".
- `PublishedStay` on PostgreSQL, and `PublishTakesNewest` in the same run when it
  takes its place: the comment at
  `store.go:155` reads the draft inside the transaction "so a concurrent
  SaveDraft cannot slip in between the read and the write"; READ COMMITTED does
  not give that, and two transactions can compute the same new version, whose
  second upsert overwrites history ("不覆盖历史", design document line 769). Both
  hold on SQLite, which is what the server opens by default.
- `BaseCanBeEdited`: publishing deletes every draft, so the editor opens the
  published version (`EditorLayout.tsx:62`, "回退到已发布版本作为编辑基础"). It sends
  its edits under that version's number, which `SaveDraft` refuses
  (`store.go:141`, a 400); the autosave takes this for a failed connection and
  sends them again for ever. After each publication the console can save nothing
  until some other client stores a draft. `EditsGetSaved` excepts this case.
- `NoSilentOverwrite`: `SaveDraft` compares the version in the document with the
  newest draft's, refuses only lower ones, and no save raises a version. So two
  editors on one draft overwrite each other, although saves "carry base_version"
  (design document line 712). Moreover the check and the upsert are two
  statements without a transaction.
- `Converges` for the server as started: `main.go:46` makes a cache and never
  starts the refresh that the README (line 16) and `cache.go:96` count on, so a
  fill that raced with an invalidation stays, even with a single process.

Met without a run of its own, in the editor: the late answer to an earlier mount's PUT makes
the state `clean` while the current mount's save is under way
(`useAutosave.ts:18` cannot tell the two apart), until that save is answered,
hence the condition in `SettledIsSynced`; `load()` throws the document away when
the preview fails, and the preview of a report that was never published always
does, since it renders the published version; an undo after a redo leads nowhere,
as redo pushes the document it restores (`editor.ts:96`; `editor.test.ts:70`
expects it). The retry button's load is never cancelled (`EditorLayout.tsx:136`). Its
late answer replaces the document of a later mount without clearing the stacks, so undo
leads to the version of another load, which `StacksFitScreen` excepts (TLC reaches it:
a load is lost, retried, the editor left and opened, the retried load is shown and
edited, another client saves a newer draft, the new mount's own load is shown). It also
drops unsaved edits and calls them clean, which `EditsGetSaved` does not count. If it
fails, it empties the later editor. Had the later mount another report on screen, it
would get this report's document; the model is about one report.

In the queue: a key whose task failed is refused as a
duplicate although the design document (line 803) has failed tasks retried.

In reports: `CSVSource` leaves every row number 0 (`source.go:123`) while `layout.go:9`
says the source numbers rows from 1, so traces over a CSV cannot tell rows apart;
`DBSource` ignores a descending direction and the choice to sort by value, which the files
respect; contexts are built without `DimKey` (`schema.go:386`), so an override scoped to a
dimension matches no cell; rules of a priority above 10000 beat the overrides
(`overrides.go:12`), which `NoHigherRule` excludes; the height of a row is that of its
first cell whose style has one, so a height set for a metric column loses to one of the
first column; a rule that validates may still fail the whole report, because `Validate`
does not look at whether the operator fits its operand (`FailuresExplained`); the cached
AVG, MAX and MIN of a group without numbers is 0, nil and nil where a spreadsheet shows an
error, 0 and 0, and strings of digits are added by the code and skipped by SUBTOTAL
(`aggregator.go:57`). `FormulaAgrees` says exactly where the two agree: always for COUNT,
for SUM when no value is a string of digits, and for the others when moreover there is a
number.

At the export button: a second click before the first answer submits two exports,
and an answer about the first can stop the polling of the second, whose link then
leads to a task that may not be done; after a second start the state stays *done*,
with a link to the new task, until its first poll, and the button lets a third click
through while it does. `SettledLinkWorks` excepts both: it speaks of buttons that
were never clicked before they had settled;
`cancelledRef` is set by the cleanup and never reset (`ExportButton.tsx:21`), so
under the double mount of React.StrictMode in development (`main.tsx:22`) the button
ignores every answer. The model mounts a button once, as the production build does.

## 5. Proofs

All theorems hold for every number of calls, workers, clients, instances and
versions, and for reports of any size. Every safety property that a passing run
checks, invariants, action properties and refinements, is the statement of a theorem.
Their assumptions are the named ASSUMEs of the modules: the queue has a finite,
nonempty set of workers and a positive capacity; the dialect is one of the two; each
goroutine has a home instance. Of a report they say what its types and the checks
before `build` give: a scope's sets lie within the module's; the values of dimensions
are ordered like integers, and the bounds of a window are integers; rules, overrides
and formats are lists; a condition is a tree (`IsCond`), a priority an integer and a
row height positive where there is one (`IsRule`); an override has no anchors but the
four of its scope, none of them empty (`IsOverride`), and passed the check of the
definition (`ValidOverride`).

*Queue.* None of the invariants is inductive alone. `OrchestratorProofs` builds
one in layers, each proved from those below:
1. `TypeOK` and `JobHeld`: a worker that is past `Take` holds an entry.
2. `EntriesKnown`, `IdsDiffer`: the entries in the map have ids between 1 and
   the counter, and different ones. From this, `EntriesStay`, and that the
   id-based `setStatus` updates exactly one entry.
3. `PlacesKnown`, `PlacesDiffer`: an entry in the channel or with a worker is
   registered and not acknowledged, the channel holds no entry twice, no entry
   is both queued and held, and no two workers hold one entry.
4. `StatusFits`: the status of an entry fits the place it is in.
5. `FilesFit`: a worker that has rendered has its own whole file under its id.
   Two live entries never share a name (layer 2), so no one else writes it.

`DoneIsWhole`, `AckedIsFinal`, `InOnePlace` and the step simulation of
`TaskLifecycle` follow. `WorkIsServed` rests on `Served`: once `started`, the
workers exist, and before that each channel entry has its submission at `Start`.

*Store.* `TypeCorrect` holds for both dialects. The other four hold for SQLite and rest on
`ReadsHold`: what a client has read in its transaction is still so when it commits,
because a write ends with no other transaction open (`WriteEndsTransactions`).
`VersionIsNew`: the version to be written is above every published one; `VersionsAreFresh`
is this at the commit, the fact that two transactions with one number would break.
`DraftHeld`: the body to be published is the newest draft's. `TargetHeld`: the body to be
restored is a published version's; `Rollback` reads it before its transaction, so this one
needs `PublishedStay`, not the lock.

*Editor.* `Shape` joins the types with `StacksFitScreen` and two facts about loads.
`FetchedIsDraft`: a load that is about to show has a document to show. `EmptyUntilShown`:
until the current mount's load is shown nothing is on screen, hence nothing on the stacks,
unless an earlier mount's came first (`foreign`). For `SettledIsSynced`, `OkIsWritten`
says that a PUT answered *ok* was written, and `SentOrSynced` that while the state is
*saving* or *clean* the screen is synced or is what the current mount has sent; a late
answer of another mount, to a PUT or to a load, keeps that. `VersionsHaveOneBody` follows
from the steps of `VersionChain`, which the service beside the editor takes
(`ServiceSteps`).

*Cache.* `CacheSound` is inductive with the types; `NeverBackwards` follows from
the comparison that each fill makes under the lock (`FilledIsMax`).

*Report.* `MergesNest` is not inductive: `SpansFit` adds that outer spans began
no later than inner ones, and that each merged range ended before every span opened
since and lies inside the outer spans that were open with it; then the ranges that
`Ending` adds nest with the old ones and with each other (`ClosedSpansNest`).
`ByPriority` needs `Ranked`, that the rules are tried from the lowest to the highest:
the rule tried next outranks all that were tried (`TriedByPriority`). Verdicts and
settings stay opaque, so it holds for every vocabulary of conditions and styles.
`SubtotalCoversGroup` needs what a closed and an open group have in common,
`IsGroup`: the rows from its start on are under its key or no detail rows, and no row
before is under it. `GroupsOpen` says so of the stack, where the outer group of two
began no later and has the shorter key (`GroupsFit`). Closing a group writes a
subtotal of what `IsGroup` says (`ClosedIsLawful`), further rows lie outside it
(`AppendIsLawful`), and a total put in front moves rows and ranges together
(`ShiftedIsLawful`). `MergeKeepsValue` adds the values: the rows of an open span, and
those of a merged range, show one value in its column, where a cell hidden by an outer
column's range counts as blank (`ValueKept`). It uses that a detail row has a value for
every dimension (`RowsStayDeep`) and that a subtotal ends the spans below its level.
`EveryRowIsTotalled` rests on `TotalsFit`: each row fed so far is in a subtotal, or in an
open group, of every depth. Closing a group moves its rows from the second to the first
(`ClosedTotals`), and the layout ends with all groups closed. No row is in two subtotals of
one depth, for the lower one would cover the upper, and a subtotal covers subtotals of
deeper groups only (`OneSubtotalPerDepth`). `TraceNamesRows` needs `TracesFit`: what an open
group or the root has counted and sampled is the trace of the detail rows it holds, which
each further row extends (`OneMoreTraced`) and the total in front moves down
(`ShiftedTrace`). `GroupEdges` has two parts. `NumbersFit` says that a row below a subtotal
belongs to another group, so a row goes on counting exactly when it follows a row of its own
group. `EdgesFit` says that the position pass has open, at each depth, the span of the group
that it has entered and not left, and has marked the edges of those it has left; a
span goes on through its group's rows and its subtotal, and ends there (`SpanGoesOn`).

`FormulaAgrees` compares a running tally with a sum over a set of rows, which is a
recursive function over finite sets. `TalliesFit` says that each open group's tally is
that of the rows it has so far, and each written row's of its range (`Aggregates`): the
sum and the number of the values that parse, their least and their greatest.
`FittingFormulas` then compares the values that parse with those that SUBTOTAL counts.

`GroupsAppearOnce` joins the order of the source with the layout. `FedFit`,
`SortedOnceLoaded` and `SourceFits` say that the rows are fed as the source sorted them (a
comparison reads the columns only, `PrecedesByColumns`; the rows fed and those to come are
together what the source handed over, `FeedKeepsLoaded`), `OrderFits` that the layout
keeps them in this order with nothing but subtotals between them. If a group had two
subtotals, a row of another group would stand between two of its own; at the first depth
where it differs, its sort column would have to lie strictly on both sides of the group's
(`FirstDifference`, `NothingBetween`).

`BandsAreGroups` rests on `GroupEdges` and the ranges of subtotals: each band is the
detail rows that a subtotal of the innermost depth covers (`LeafBandsAreGroups`), and a
format per group has the bands unless there are too many. Two formats may have one id,
so its condition is about all formats of that id. `NoFormatLost` needs of `FormatsFit`
that the formats built are those of the metric, which the loop keeps in their order:
`Kept` models it by the positions kept, and `KeptKeeps` shows by induction what it
returns. `WindowIsSlice` is about clipping (`Clipped`): both bounds of a window may lie
outside the rows, and the first above the second.

`FailuresExplained` needs the rules the engine has: those of the document, then those of
the overrides with anchors, in their order (`RulesFit`, `CompiledRules`). Verdicts of a
tree are defined by induction over its nodes from the last to the first
(`VerdictsAreDefined`), for what is below a node comes after it. The last node with an
error has no node with an error below it, so it is a leaf (`ErrorsComeFromLeaves`); a
leaf that validates errs only if its operator does not fit (`LeafErrors`); and those
that overrides are made of never do (`OverrideNeverFails`).

`OverrideWins` has two parts. In a cell all of whose rules were tried every rule that
holds has hit, as `order` leaves out none (`OrderFull`); the rule of an override holds
exactly where its scope covers the cell (`CoversIsVerdict`, which is where *every context
is built without dim_key* counts: `ContextFits`); and of those that set a field the last
override's outranks all others (`OverrideHasTheLastWord`). For the heights `HeightsFit`
says which rows have theirs: those whose first cell is resolved. A row's first
cell is reached before the others (`FirstCell`), and a height that is set stays
(`HeightenedRows`); after the last cell this is every row (`FirstCellIsCell`).

*Export.* `NoTimerLeaks` is inductive with the types. `OwnWorkbook` rests on `OwnIds`
(ids are different and at most the counter, a task without one was not accepted,
and a button's id is that of one of its clicks, while the process lives) and on
`OwnVersion`, which survives restarts. `SettledLinksWork` says more than `OwnIds`: a
button that was never clicked too early waits for one submission or polls, never both
(`ButtonFits`), so the answer that ends its polling is about the task its link names,
and *done*, where a button or an answer on its way says so, is true of that task
(`DoneIsDelivered`). The proof is what showed that a third click must be excepted too.

Inductions. What a recursive definition computes is proved by hand where a theorem needs
it: the least number of a set of natural numbers (`LeastNatural`, from the well-founded
order of the library) gives the smallest counterexample, hence inductions over sums of
finite sets, over the iterations of a loop and over the nodes of a condition. The library's
own induction theorems take an operator as a parameter, which the provers cannot
instantiate. No module with theorems declares a RECURSIVE operator.

Only model-checked: every liveness property (`EventuallyAcked`,
`FailureIsExplained`, `Converges`, `EditsGetSaved`, `BusyEnds`), because proofs of
liveness under fairness need ENABLED, which the prover does not handle; and that nothing
gets stuck (deadlock), for the same reason.

## 6. Plan

Done: the queue, the store, the cache, the editor, the report from its source to the
workbook, and the export from button to link. What would come next:

- The override patch of the HTTP API as three steps beside the editor: its read, edit
  and write of the draft. Its effect on the draft is one of `OtherSave`.
- Several metric columns, for conditions and overrides that address one of them.
- Proofs: the safety properties that the runs check are proved; further ones would come
  with the two extensions above.

## 7. Not modelled

- Rendering with excelize: pure output. A render is a step that succeeds, fails or is
  cut off by a crash, and of its calls only those that replace one another (the
  conditional formats of one range) are modelled.
- Of the schema the display texts, widths, the dictionary of styles, the statistics
  of conditional formats and the page setup; of the style engine the wording of
  explanations; of the data hub the missing files, columns and connections, which
  end a report like an unreadable number does.
- The parsing of documents and expressions, and the checks of a document that are a
  function of one document.
- In the console, the panels and the preview (views of the document, whose writes
  are `Edit`), the themes, the pages, the API client and its mock.
- The spikes, and the parsing of flags and DSNs.

None of these holds state between calls.
