# jigbench: TLA+ models, model checking and proofs

Jig is a bench for describing changes to a running web application. A person clamps a
repository to the bench, looks at the app through a proxy (the *plate*), writes *prompts*
(or, in the older tier, *marks* that become *work orders*), and has them built by
`claude -p` or by an agent that pulls them over MCP. All state is files under `.jig/` of the
clamped repository, plus an in-memory index of them in every process that has them open.

This directory models the parts where that can go wrong, in three layers. The core is the
runner of the one `claude` process, the life of a prompt, the life of a work order, and the bench
host with the app it starts, each under every interleaving of requests, background work, failures
and restarts. Around it are the parts of the server that keep files or guard requests, and the
hooks and panes of the page. Below it is what is read from the clamped repository and its app.

Paths below are relative to `src/packages/`.

## 1. Inventory

| part | state | operations | talks to | what makes it correct |
|---|---|---|---|---|
| build runner (`server/src/build/runner.ts`) | `current`, `lastBuilt`, one `RunningBuild` per call | `start` (3 awaits), `cancel`, timer, `error`/`close` events, `finish` (2 awaits) | git, `claude`, prompt service | one claude at a time; every claimed build is settled or its claude told to end; a cancel is final; the slot never names a dead build |
| git snapshots (`build/git-diff.ts`) | none | snapshot with a time budget, diff of two | build runner | one notice per build |
| prompt ladder (`core/src/prompt.ts`) | none | `promptTransition`, `restorePromptState`, serialize/parse | prompt service | no illegal move |
| prompt service and store (`server/src/prompts/`) | index, files, `pendingBuilds` | create, edit, ready, polish, scrap, restore, build, `finishBuild`, `markBuiltExternally`, close; init/migrate/reload/write | runner, HTTP routes, MCP tools, docs index, local model | history and rung tell the same story; `building` means claude runs; index and file differ only after writes that crossed; nothing resurrects a scrapped prompt |
| work-order ladder (`core/src/ladder.ts`) | none | `transition` | orders service | no illegal move |
| orders service (`server/src/orders/`) | `draftsInFlight`, semaphore, `pendingDrafts` | createMark, draft, edit, release, scrap, restore, claim, report, agent's draft, close | jig store, Ollama, shop, watcher | one draft per order, bounded model calls, every draft ends, a shop face wherever a rung needs it |
| jig store (`server/src/store.ts`) | survey, gauges, orders, marks, wiring | init, reload, `writeWorkOrder`, `createMarkAndWorkOrder` | orders service, watcher, MCP process (its own copy) | index and files agree when nothing is under way |
| watcher (`server/src/watcher.ts`) | debounce and poll timers, last snapshot | start, stop, noticing a change | jig store | the bench catches up with other processes |
| MCP server (`server/src/mcp/`, `cli/src/commands/mcp.ts`) | index loaded once, heartbeat file and timer | tools `jig_draft`, `jig_claim`, `jig_report`, `jig_mark_built`, heartbeat start/stop | same files | decisions on fresh state; no heartbeat without an agent |
| bench host (`server/src/bench/`) | current bench, router, generation, target runner, recent list | clamp, unclamp, close, broadcast | everything above | one open bench; nothing of a closed one leaks into the next |
| target runner (`server/src/target/runner.ts`) | child, state, log ring | start, stop, setUrl, exit, probe | bench host, plate | the reported state is the child's |
| plate proxy (`server/src/plate/proxy.ts`, `rewrite.ts`) | current target, interceptors, upgraded sockets | request, upgrade, probe, close | target app, fixtures, loupe | gate before anything else; what it changed of the app's headers is reported; `close()` ends |
| loupe (`server/src/plate/loupe.js`) | mode, survey table, highlight | one handler per message, DOM paths, form filling, snapshot | bench page by `postMessage` | nothing of the loupe is left in hand mode; a path leads back to its element |
| fixtures (`server/src/fixtures/`) | index, files, the loaded one | create, load, unload, scrap, restore; generate; intercept | plate, bench page | nothing scrapped is loaded; lists and items agree; the proof is what is answered |
| sketches, toolpaths (`server/src/sketch/`, `toolpath/`) | index and files each | create, update, scrap, restore | bench page | memory is what is on disk; no half-written file |
| trial fit (`server/src/trialfit/`, `bench/src/trialfit/`) | the mirror, snapshots | start, repoint, stop; ask, sanitize, save | plate, bench host, loupe | one mirror; one picture per order, cleaned twice |
| shop heartbeat (`server/src/mcp/heartbeat.ts`, `shop-freshness.ts`) | heartbeat file, timer | start, refresh, stop, tick | store, sockets | a wired shop is alive; every tab hears of it |
| HTTP server (`server/src/http.ts`, `same-origin.ts`, `json-body.ts`, `bench-serve.ts`) | bound host | gates, routes, static files | all | no foreign origin; files of `dist` only |
| file system browser (`server/src/fs/`, `bench/validate-clamp-path.ts`) | none | list, validate | bench page | no share is touched, no directory read but the one checked, wherever the caller's link moves |
| recent benches (`server/src/bench/recent.ts`) | one file | record, update | bench host | each repo once, newest first |
| setup (`server/src/setup/`, `cli init`, `SetupSteps.tsx`) | other programs' config files | preview, apply | repo | others' entries pass through; nothing before the diff was shown |
| survey (`server/src/survey/`) | files in `.jig/survey` | detect, run, merge, write | adapters | adapters kept apart; survey and gauges of one run after a run nobody disturbed |
| docs clamp (`server/src/docs/`, `core/src/docs.ts`, `rank.ts`) | `docs.json` | walk, cut, index, pick within a budget | prompts | every line once, under its headings; references lead back |
| prompt and drafter context, shop face | none | look up the pick in the survey | survey, docs | only proven files in a shop face; one component |
| target detection (`server/src/target/detect.ts`) | none | detect, start route | target runner | only the repo's own scripts; a port that can be bound |
| prompt files, migration (`core/src/prompt.ts`, `prompts/store.ts`) | files | serialize, parse, migrate | prompt store | what was written is read; no order passed over silently, no edit undone by one process alone |
| bench page (`bench/src/`) | React state, socket, timers | hooks and panes | HTTP, WebSocket, loupe | exactly one of complete/cancel, one socket, words stay with their target, every wait ends |
| survey adapters, CLI argument handling, examples | none | parsing, printing | survey | not modelled, see 7 |

What is hard here: JavaScript runs one handler at a time, so races happen only across
`await`s, and nearly every operation reads a record, awaits something (a probe, a model, a
rename) and then writes the *whole* record it computed at the start. Two processes hold
indexes of the same files and only one of them ever looks again. Children, timers and the
file system fail at any of these points. In the page every answer may land after the person has
moved on. The hazards, with their lines, are in `PROJECT.json` under `hazards`.

## 2. Modules

A step of every model is the code between two awaits, or one event callback.

| module | models | built on |
|---|---|---|
| `BuildOutcome` | `BuildOutcome` of `build/types.ts`, reduced to exit class and cancel flag | |
| `BuildSlot` | the contract of `BuildRunnerLike`: begin, refuse, end | `BuildOutcome` |
| `BuildRunner` | `build/runner.ts`, with git snapshots and stream results as its awaits and events | `BuildOutcome`; instantiates `BuildSlot` |
| `PromptLadder` | the prompt's transition table and restore | |
| `PromptService` | prompt service over prompt store, bench process and MCP process | `BuildSlot`, `PromptLadder` |
| `OrderLadder` | the work order's transition table | |
| `WorkOrders` | orders service, jig store and watcher, bench process and MCP process | `OrderLadder` |
| `TargetRunner` | `target/runner.ts`, any number of runners at once | |
| `BenchHost` | `bench/host.ts`, `bench/bench.ts`, the target routes and the plate's target | `TargetRunner` |
| `BuildRunnerProofs`, `PromptServiceProofs`, `WorkOrdersProofs`, `BenchHostProofs` | TLAPS proofs | their component |
| `ServerProofs`, `PageProofs`, `RepoProofs` | TLAPS proofs about the parts, then about their run | `MCServer`, `MCPage`, `MCRepo` |
| **server parts** | | |
| `ShopLink` | heartbeat of the MCP process, freshness, reload, broadcast | |
| `RequestGate` | JSON parser, host and origin gate, media type, route or static file, in their order | |
| `PathGuard` | spelling and realpath checks, listing and its probes while the caller's link moves and the checked place is replaced | |
| `RecentBenches` | `~/.jig/recent.json` under overlapping read-modify-writes | |
| `Plate` | proxy: gate, interceptor, forwarding, header rewriting, upgrades, close | |
| `FixtureData` | schema walk, generated lists and items, interceptor, path matching | |
| `FixtureStore` | fixture store and its routes with failing writes | |
| `SheetStore` | sketch store and toolpath store over `atomic-write.ts` | |
| `SetupWrite` | `.mcp.json`, Desktop config and `.gitignore`, from page and command line | |
| `TrialFit` | the mirror against a bench that closes | |
| **page parts** | | |
| `LoupeBridge` | both ends of `postMessage`: bridge and poll hooks, loupe handlers | |
| `ToolpathPlay` | recorder, save, replay by timers | |
| `PromptCard` | card target, prompt list, creates that take their number before they write, fetches out of order, refine, a clamp under it, held Ready | |
| `ClampScreen` | the way in and the drawer's unclamp, over late state frames; its folder browser and the numbered reads | |
| `Tray` | work order tray, a component no longer mounted | |
| `JigSocket` | WebSocket with backoff, StrictMode's double mount, logbook | |
| **repo parts** | | |
| `DocsClamp` | walk, references, index; cutting docs and spending a budget | |
| `Survey` | adapters' surveys merged, gauges read later, both written; looked up for a pick | |
| `TargetDetect` | tiers of detection, the start that asks again | |
| `PromptFile`, `PromptMigration` | the file format line by line; work orders turned into prompts | `PromptLadder`; `OrderLadder` |
| `ReleaseSnapshot` | picture of a released order, from ask to sanitized file | |
| `FormFill` | DOM paths, probe and fill of a form in a page that changes | |
| `SketchDesk` | the page's copy of a sketch, its bin and links | |
| `MC*` | model values, bounds and symmetry for TLC; `MCServer`, `MCPage` and `MCRepo` put the parts of a layer into one run | |

`PromptService` is written against `BuildSlot`, not against the runner; `BuildRunner` is shown
(by TLC and by proof) to implement `BuildSlot`. So what is shown of the service holds with the
real runner behind it, as long as no spawn fails asynchronously (see 3, `runner_spawn_error`).

### How state corresponds

* `BuildRunner`: `current`, `lastBuilt` are the fields of the class; `pc[b]` is the await at
  which the call `start(b)` is suspended (`mkdir`, the before-snapshot, the running child, the
  transcript flush `ending`, the after-snapshot); `child`, `cancelRequested` are the fields of
  `RunningBuild`; `before`, `result`, `exit`, `cancelled` are locals of the closure. A promise
  that rejects and one that resolves with no exit code look the same to the service (`Failed`).
* `PromptService`: `mem[proc]` is `PromptStore.prompts`, `disk` the files, `task[w]` a call in
  flight with the prompt it is going to write. A prompt is its state, one word for its text, its
  build records and `scrappedFrom`. `Reread` is what parsing leaves of a text: a requirement with
  a `##` line of its own is cut there.
* `WorkOrders`: `file`, `index` likewise; `call[c].base` is the record a call read when it
  started and `Result(op, base)` what it will write; `drafting`, `free`, `queue` are
  `draftsInFlight` and the semaphore; `changed` is the debounce timer and `loading` a `reload()`
  that has read some files. A file keeps no log, so `parseWorkOrder` forgets `prev`.
* `TargetRunner`: `child` and `state` are the fields of the class; a process is named after the
  `start()` that spawned it, `home` is the runner of that call, `race` its `Promise.race`, and
  `stopping[o]` the process whose `close` the `stop()` of caller `o` is waiting for. `proc` is the
  operating system's view: `failing` is a child without pid whose `error` event is still to come.
* `BenchHost`: `generation`, `current`, `runner` are the variables of `createBenchHost`; the router
  comes and goes with `current`. A bench, its plate and its runner carry the name of their clamp.
  `pc[q]` is the await of a request: closing the bench it found (`runner.stop()`, then
  `bench.close()`), `createBench`, or closing its own superseded bench. `own` is `myGeneration`, and
  the number the clamp's runner checks. With no bench clamped `closeCurrentBench` has nothing to
  wait for, so a clamp goes straight to `createBench`; a microtask lets no other request in. `asked`
  is not in the code: it remembers the last request, for `LastAskedWins`.
* History variables say what is excepted: `crossed` in `PromptService` (prompts whose last writes crossed) and
  `SetupWrite`, `shared` and `typedFor` in `PromptCard`, `overlap` in `PromptMigration`, `pgMoved` in `PathGuard`, `smMixed`
  in `Survey`, `ssMixed` in `SheetStore`, `ffSame` in `FormFill`. No guard reads one.
* The parts keep the names of the source for their operators; the variables of most carry a
  prefix (`sh`, `ga`, `pg`, `rc`, `pl`, `fd`, `fx`, `ss`, `tf`, `lb`, `tp`, `dk`, `dc`, `sm`, `sc`,
  `td`, `mg`, `pf`, `rs`, `ff`) because one run extends several modules. A fetch is a record that is
  sent, served and answered in three steps; a file write that is not atomic has a step in which the
  file is empty. `RequestGate`, `FixtureData`, the cutter of `DocsClamp`, the look-ups of `Survey`, `TargetDetect` and
  `PromptFile` are algorithms rather than protocols: their actions build an input step by step, so
  that TLC visits every input up to the bound, and their properties compare what the operators
  answer with a reference definition.
* In `ClampScreen`, `SketchDesk` and `PromptCard` the server is reduced to what it answers, since
  `BenchHost`, `SheetStore` and `PromptService` model it.

## 3. Runs

| run | instance | shows |
|---|---|---|
| `runner_safety` | 3 builds, 2 prompts, symmetric | one claude at a time, honest slot, at most one notice, `BuildSlot` implemented; spawn failing synchronously, mkdir and git failing, cancel and timeout anywhere |
| `runner_liveness` | 2 builds, 1 prompt, asynchronous spawn errors too | an early cancel is final; every claimed build settles or has its claude signalled, and settles when that closes |
| `runner_spawn_error` (violation) | 3 builds | the `close` after a spawn `error` frees somebody else's slot: two claude processes |
| `service_concurrent` | 1 prompt, 2 builds, 1 bench request and 1 agent at a time, 2 in flight, failing writes, restarts of both processes, scrap from any state | no copy of a prompt ever contradicts its own history; index and file of a prompt differ only after writes that crossed |
| `service_serial` | 2 prompts, 2 builds, 2 texts, a client that waits for each answer and scraps what the pane lets it | `building` means running, only ladder moves, history kept, every build is landed |
| `service_scrap_race` (violation) | 1 build, 2 in flight | a scrap during `finishBuild`'s write is undone |
| `orders_safety` | 2 orders, 2 bench calls, 1 tool call, 1 model slot, failing writes, restarts | draft dedupe and semaphore exact, shop face never lost, the bench catches up with the files, every draft ends |
| `host_safety` | 2 clamps, 1 unclamp, 2 starts, 1 stop, 1 URL; `createBench` may throw, pipes may be held; nothing overtakes a clamp that is closing a bench | one open bench, the one asked for last; no orphaned app, no app on another bench's plate; every start is answered, and every request but for the close of a bench |
| `host_reclamp` (violation) | the same, overtaking allowed | an unclamp answered while a clamp closes the old bench is undone by that clamp |
| `server_parts` | the ten server parts, each by itself | see below |
| `page_parts` | the seven page parts, each by itself | see below |
| `repo_parts` | the ten repo parts, each by itself | see below |

The three violations are the entries under `findings`; each quotes the line of the repository
that says otherwise.

### Runs of several parts

Components that share no state need not be interleaved with each other: a step of one does not
change what another can do. `MCServer`, `MCPage` and `MCRepo` therefore choose one part at the start
(`part`), let only that one move (`OthersRest`), and keep the others at one initial state (`Unless`).
The states of the parts add up instead of multiplying, every part sees all of its own behaviours, and
its invariants are asked while it moves (at rest it is at a first state of its own). The fairness of a part holds while it is the one
that moves. The parts' properties are conjoined by subject; each part of a conjunction is a named
property of its module, with its comment there:

| property of the run | named parts |
|---|---|
| `RequestsStayWithin` | `NoForeignOrigin`, `ForeignLosesOnTheGate`, `ServedInsideDist`, `SharesNeverRead`, `OneDirectoryListed`, `ClampOutsideJig` |
| `MemoryAndFilesAgree` | `LoadedIsLive`, `NeverOnlyInMemory`, `MemoryIsDisk`, `RecentWellFormed`, `OthersPassThrough`, `WrittenIsTrue` |
| `ShownIsTrue` | `WiredMeansAlive`, `EmbedHonest`, `ItemsAgreeWithList`, `ProofIsAnswered`, `DereferenceComplete`, `OneMirror`, `MirrorLeaksOnlyByOverlap` |
| `ServerStepsInOrder` | `GateFirst`, `NeverHalfWritten`, `PlaceTakenOnlyByOverlap`, `DiffFirst` |
| `ServerSettles` | `TabsHearOfTheShop`, `PlateClosesDown` |
| `WordsStayInPlace` | `WordsStayWithTheirTarget`, `NumbersApart`, `WordsForThePick` |
| `OneOfEach` | `OneEar`, `NotedOnce`, `RecordedOnce`, `SettlesOnTheLast`, `HandLetsGo` |
| `PromisesKept` | `FullOath`, `SwornRelease`, `OneReplayAtATime`, `ScreenHeld` |
| `PageSettles` | `SurveyArrives`, `ReadingEnds`, `ClampEnds`, `TabReconnects` |
| `JigFilesReadBack` | `AccountedFor`, `PrintedIsThisSheet`, `DrawnWhereItStands`, `HotspotsHaveElements`, `RefsReadBack`, `StateSurvivesWords`, `RequirementSurvives` |
| `TextsReadBack` | `LinesKept`, `PathIsAncestry`, `PlainChunksFull`, `BudgetSpent`, `HistorySurvives`, `SecondReadingAgrees` |
| `SurveyIsTrusted` | `MergedApart`, `SurveyAndGaugesAgree`, `FilesProven`, `FaceAndContextAgree` |
| `AppAsItSaid` | `OnlyTheReposOwn`, `PortCanBeBound`, `AskedOnce`, `SnapshotCleaned`, `PickComesBack`, `FillStaysInForm`, `FilledIsStored` |
| `RepoStepsWhole` | `WholeOrNothing`, `StartsWhatItSaid`, `EditsOutliveMigration` |

Some of these say what the code promises only up to an overlap it does not prevent: a mirror is left
open by nothing but a close that overtook its start, a sheet's place is taken only by an overlapping
create, what the code leaves open is excepted by name in the comment of the property, and listed in 5.

### Mutants

Every property has a mutant in `PROJECT.json`: a changed definition under which TLC finds the
property violated. The part properties have one each as well, kept in their modules beside the
definition they change (after a comment `Mutant:`) and found violated one by one:

| module | definition and its mutant: part it breaks |
|---|---|
| `ClampScreen` | `HeldAfter` as `NeverHeld`: `ScreenHeld`; `ClampRefused` as `SayOnly`: `ClampEnds`; `Current` as `TakeAny`: `SettlesOnTheLast`; `Current` as `TakeNever`: `ReadingEnds` |
| `DocsClamp` | `fileRef` as `RefOfWalked`: `RefsReadBack`; `ReadFailed` as `LeftOut`: `WholeOrNothing`; `OpenSection` as `OpenAtHeading`: `LinesKept`; `PopTo` as `PopOne`: `PathIsAncestry`; `Overfull` as `FullAtLimit`: `PlainChunksFull`; `Fitting` as `StopAtFirst`: `BudgetSpent` |
| `FixtureData` | `PayloadFor` as `FirstOfThePool`: `ItemsAgreeWithList`; `createFixtureInterceptor` as `MethodsLiterally`: `ProofIsAnswered`; `Expanded` as `CutByDepth`: `DereferenceComplete` |
| `FixtureStore` | `Settle` as `SettleWithoutUnload`: `LoadedIsLive`; `PersistFails` as `FailureSwallowed`: `NeverOnlyInMemory` |
| `FormFill` | `IndexOf` as `AmongSiblings`: `PickComesBack`; `RootOf` as `WholePage`: `FillStaysInForm`; `setFieldValue` as `Intended`: `FilledIsStored` |
| `JigSocket` | `Doubled` as `DoublesOn`: `OneOfEach`; `TimersLeft` as `LeavesTheTimer`: `OneEar`; `IsNew` as `NotNull`: `NotedOnce`; `Retries` as `GivesUp`: `TabReconnects` |
| `LoupeBridge` | `SetMode` as `SetModeOnly`: `HandLetsGo`; `postSurvey` as `FirstTable`: `SurveyArrives` |
| `PathGuard` | `RequestPath` as `RawSpellingOnly`: `SharesNeverRead`; `ProbesAnswer` as `ProbeBySpelling`: `OneDirectoryListed`; `RefusesJig` as `SpellingAlone`: `ClampOutsideJig` |
| `Plate` | `rewriteHeaders` as `ReportBlocking`: `EmbedHonest`; `Arrive` as `GateAfterInterceptors`: `GateFirst`; `Upgrade` as `UpgradeUntracked`: `PlateClosesDown` |
| `PromptCard` | `targetsMatch` as `MatchAny`: `WordsStayWithTheirTarget`; `nextId` as `HighestId`: `NumbersApart`; `CancelHold` as `CancelLeavesTimer`: `FullOath` |
| `PromptFile` | `EndOfFrontmatter` as `LastRule`: `StateSurvivesWords`; `UntilSection` as `UntilAnyHeading`: `RequirementSurvives`; `StartedLines` as `AnyField`: `HistorySurvives`; `parseContextSection` as `DocsUntrimmed`: `SecondReadingAgrees`; `acceptanceOf` as `PlaceholderKept`: `TextsReadBack` |
| `PromptMigration` | `recordMigrationSkip` as `PassOver`: `AccountedFor`; `hasAnyPromptFile` as `NeverAny`: `EditsOutliveMigration` |
| `RecentBenches` | `First` as `WholeList`: `MemoryAndFilesAgree`; `Recorded` as `RecordBlindly`: `RecentWellFormed` |
| `ReleaseSnapshot` | `Claimed` as `ClaimLater`: `AskedOnce`; `sanitizeSnapshotHtml` as `TrustTheLoupe`: `SnapshotCleaned` |
| `RequestGate` | `isAllowedHost` as `NamedAnything`: `NoForeignOrigin`; `AnswerApi` as `MediaTypeFirst`: `ForeignLosesOnTheGate`; `resolveWithinDist` as `LooseWithinDist`: `ServedInsideDist` |
| `SetupWrite` | `mergeMcpJson` as `FreshObject`: `OthersPassThrough`; `PageHears` as `HearsWritten`: `WrittenIsTrue`; `MayWrite` as `AlwaysApply`: `DiffFirst` |
| `SheetStore` | `StepFails` as `GiveUpQuietly`: `MemoryIsDisk`; `nextFourDigitId` as `OnePerSheet`: `PlaceTakenOnlyByOverlap`; `WriteTemp` as `WriteInPlace`: `NeverHalfWritten` |
| `ShopLink` | `isHeartbeatFresh` as `FreshNoClock`: `WiredMeansAlive`; `FreshnessTick` as `TickWhenBack`: `TabsHearOfTheShop` |
| `SketchDesk` | `SavedAfter` as `SavedKept`: `PrintedIsThisSheet`; `BinAfter` as `BinKept`: `DrawnWhereItStands`; `LinksWithout` as `LinksKept`: `HotspotsHaveElements` |
| `Survey` | `mergeSchemas` as `Unqualified`: `MergedApart`; `GaugesFile` as `KeepsOldGauges`: `SurveyAndGaugesAgree`; `FilesOfNone` as `ClaimedFile`: `FilesProven`; `findTarget` as `StrippedFirst`: `FaceAndContextAgree` |
| `TargetDetect` | `HintNamed` as `HintTrusted`: `OnlyTheReposOwn`; `HintPort` as `HintPortRaw`: `PortCanBeBound`; `DetectedNow` as `WithoutTheHint`: `StartsWhatItSaid` |
| `ToolpathPlay` | `StartRecording` as `StartOnTop`: `RecordedOnce`; `Play` as `PlayOnTop`: `OneReplayAtATime` |
| `Tray` | `OpenEmpty` as `OpenAsItWas`: `WordsForThePick`; `SwornOrder` as `SelectedNow`: `SwornRelease` |
| `TrialFit` | `NoneRuns` as `AlwaysNew`: `OneMirror`; `StoppedListening` as `Forgotten`: `MirrorLeaksOnlyByOverlap` |
| `WorkOrders`, `TargetRunner` | also `DraftTwice` (`DraftingBounded`) and `ProbeTimesOutOnly` (`HostSettles`) |

### Bounds, and why they are enough

* Builds are used once. Three are needed for `runner_spawn_error` (one errors, one claims, one
  starts beside it); two already show every pairwise interleaving of the rest.
* `MaxInFlight` bounds how many requests a client keeps open on the bench. 2 gives every race of
  two calls; 1 is the client that waits, for which stronger properties hold. The background work
  (`finishBuild`, the agent, the runner) is not counted in it.
* `BenchCalls` and `McpCalls` are used once each. Two bench calls and one tool call cover a draft
  racing any other call and a tool call; one model slot makes the second draft queue.
* `StartFiles` lets a short run start beside an order that is already released.
* One reload at a time, starting only when the bench has no rename waiting for its index update:
  the debounce is 200 ms and starts anew with each change. The code has no mutual exclusion here;
  a reload slower than 200 ms could overlap the next one and finish after it.
* `Reread` is the identity in the runs; the proofs take any `Reread`, and `PromptFile` says what it is.
* Two clamps and an unclamp give every overlap of a newer request with each await of an older one.
  One stop is enough for two callers of `stop()` on one runner, since clamps, unclamps and timed-out
  starts call it too. `Overtakes` is the one restriction of `host_safety`: a request may arrive at
  any await except while a *clamp* closes the bench it replaces; `host_reclamp` shows what that
  window does to `LastAskedWins`. With a third clamp in that window `OneBenchOpen`, `NoOrphanTarget`
  and `PlateShowsOwnApp` fail too; `UpIsOwned` does not depend on it.
* Parts. Two overlapping calls give every race of a read-modify-write; three (`SheetStore`,
  `RecentBenches`, `TrialFit`) also let a third find what a race of two left. `StaleAfter = 3`
  refreshes keeps a lost refresh apart from a dead shop. `MaxRecent = 2` with three repos and
  `LogbookLimit = 2` with three frames fill the list. `WriteTries = RenameTries = 2` has a retry that works
  and one that runs out. `TrayOath` and `Oath` count ticks of a hold; with 1 a release comes before the tick or after it,
  which is what the timer races, and the proof takes any length.
  `MaxLines = 5` with three words per chunk gives a section that overflows, a fence and two heading
  levels; `MaxSaid = 3` lines are enough for a text to contain a rule, a heading and what follows it.
  Four elements give a form with two fields and one outside it. Two orders and two processes give every overlap of
  migrations. Three `$ref`s give a cycle with a tail.
* `PromptCard`: a named target, a nameless one and the sketch, on two benches; two changes of the words (`MaxTyped`), three fetches
  (`MaxFetches`) and two of them in flight when something new is begun (`MaxFlying`) let two creates overlap and an answer arrive
  after a clamp.
* Sanitizers see what acts in two spellings: `plain`, which their expressions know, and `odd`, which the server's miss and the
  loupe's walk over the tree does not. A page load is one life of the hook; a reload is in 5.
* Symmetry is used only in runs whose properties are invariants or step properties.
* Deadlock is not checked: calls, builds and inputs are used up, and a bench nobody uses may stop.

### Fairness

* Runner: mkdir and the transcript flush answer; git has a 15 s budget after which the await
  ends; the wall-clock timer of a build fires. Nothing is assumed of the child: there is only a SIGTERM and no
  bounded wait, and a grandchild that holds the pipes keeps `close` from coming. So `BuildSettles` ends at the signal, and goes
  on from `close`.
* Service: the event loop resumes what it suspended, the file system answers, `isClaudeAvailable`
  answers, and the runner settles every build (what `BuildSettles` gives where each signalled claude closes). Requests and restarts are not fair.
* Orders: probes, the model (90 s) and the polish pass have timeouts and the file system answers;
  nothing makes anyone call anything, and the watcher need not be fair for `DraftsEnd`.
* Host: timers fire (the probe timeout, the 5 s bound of `stop()`), `createBench`
  ends. Nothing is assumed of `bench.close()`, which waits for the plate's connections and for builds that were told to end:
  `RequestsEnd` says that a request is answered or waits for just that.
  An app left alone need neither answer nor exit, and no request is ever due.
* Server parts: time passes, the MCP process's own renames and the reload end, timers of the bench fire
  (`TabsHearOfTheShop`); `server.close` calls back when no connection
  is left, but the app owes no answer: `PlateClosesDown` says that only a request it never answers keeps the plate open.
* Page parts: messages posted to a loaded frame are delivered, the frame loads and the loupe boots unless
  the page navigates on; a fetch is served and answered (none has a timeout: of a host that hangs instead of refusing `ClampEnds` says nothing); a WebSocket opens or closes, a backoff timer
  fires. No click is ever due. `repo_parts` states no fairness and checks no liveness.

## 4. Proofs

`BuildRunnerProofs` (any builds, any prompts):

* `RunnerTypeCorrect`, `SlotAlwaysHonest`, `NoticesBounded` hold with every failure, asynchronous
  spawn errors included. The notice bound needs to know that a build past its before-snapshot with
  one notice has no before-snapshot, hence never takes the second. The honest slot needs, per
  await, what a call that is suspended there has already done (bookkeeping invariant).
* `OneBuildProved` and `RunnerImplementsSlot` assume `SpawnMayFail = FALSE`. Their inductive core
  is ownership: a call that is between its claim and its end is `current`. That is exactly
  what an asynchronous spawn error breaks, and `runner_spawn_error` is the counterexample.

`PromptServiceProofs` (any prompts, builds, requests, texts and any `Reread`):

* `ServiceTypeCorrect`, `RecordsAlwaysConsistent`. `RecordsConsistent` speaks of every copy of a
  prompt, also the ones computed and not yet written, since those become files later; this makes
  it nearly inductive. The strengthening `Shape` says which call may be at which await: a
  request saves, a build call that finishes is one the runner has settled, so that a record can
  only cite an outcome that exists. Each action computes its new prompt from one consistent copy;
  the lemmas `AcceptStep` and `OnlyCallStep` do the rest once for all of them.

`BenchHostProofs` (any clamps, unclamps, starts, stops and URLs, pipes held or not):

* `HostTypeCorrect` and `UpAlwaysOwned` hold whatever overlaps. Both need `Family`: a process is the
  child of, or shown by, only the runner whose `start()` spawned it. `UpAlwaysOwned` also needs that
  each caller of `stop()` waits once (`Fresh`), or a wait could be forgotten.
* `OneBenchProved`, `LastAskedProved`, `NoOrphanProved` and `PlateProved` assume `~Overtakes`. Their
  core is `NumberOK`: the number in force belongs to the newest request, so a clamp that still finds
  its own number is the newest. It is inductive because a clamp that takes its number late is
  still the newest when it does (`ClosingOK`), which is what `Overtakes` breaks.

* `ApartOnlyByCrossing` holds with everything in flight. `ApartInv` says of a prompt whose writes did not cross: at most
  one call of the bench is between rename and index, what it will index is what the file holds, and without one index and file
  agree already, up to what reading the file back loses.

The serial client, in `PromptServiceProofs` too. Both assume `OneAtATime`: one request in flight,
nothing scrapped while it builds, no restart; that is the client of `service_serial`, and agents still report. The page is
not that client (see 5), so nothing is claimed there that only an overlap could break.

* `LadderIsRespected` needs `SerialInv`: the prompt that the one call in flight
  started from is still what the bench shows, so what it will write is a move from it (`AskedFresh`);
  a build that is being landed finds its prompt `building` (`LandingFresh`); the running build is the
  runner's, with the words that are shown (`RunningFresh`); a prompt has at most one such build.
* `BuildingIsRunning` also assumes that no write is refused (`~WritesMayFail`); 5 says what happens otherwise.

`WorkOrdersProofs` (any orders, calls of both processes, model slots, failing writes, restarts):

* `OrdersTypeCorrect` and `ShopFaceProved` come from `CopiesInv`: every copy of an order, in an index, on disk,
  half reloaded, or computed by a call and not yet written, has its shop face when its rung needs one, also after
  being scrapped and restored. `CallOK` says what the base of a call allowed when the call began.
* `DraftingProved` needs `SlotInv`: the free slots are those nobody holds, and the queue has each waiting call
  once and is empty while a slot is free.
* `BenchCatchesUpProved` assumes `OneReloadAtATime`, as the run does. `WatchInv`: since the last change that was
  noticed, all that a reload has read is what the files say.

`ServerProofs` (any number of calls, sheets, fixtures, repos, ports, ages and policies):

* `RequestsWithin`. `GuardInv` says what each await has behind it: the spelling was local before the place was
  asked for, the place before it was listed, and the later calls read that same place unless it was replaced (`pgMoved`).
* `FilesAgree`. Sheets: `MeetingsKnown` (calls in flight together know of each other), `DiskFollows` (without an overlap a
  file differs from memory only between the rename and the end of its call), `PlaceFree` (a create whose
  place was taken met somebody). Fixtures: a call that has written leaves a file behind. Recent benches: what a call
  read was well-formed when it was written. Setup: `ReadIsLatest` (what a call read is what other programs
  left, unless one wrote since), `JigStays`, `ToldBefore`.
* `ShownIsSo`. Mirror: `AtHand` until the bench is let go, then `GoneAfter`, and `LateKnown` for requests that
  were late. Shop: `LinkInv`, no age on its way is younger than the agent's absence. Plate: `Honest`, the report against the policy the app sent.
  Fixture data: the walk over references returns every chain of schemas without repetition; as this is an
  induction over the graph, it is done by least elements of sets of numbers (the lengths of chains, the
  schemas not yet named), not by the library's induction theorems.
* `InOrder` is the step property; each part contributes its own step lemma (`SheetOrder` and the like).

`PageProofs` (any targets, prompts, folders, orders, sockets, survey versions, any length of oath and replay):

* `WordsInPlace`. The card's `CardInv`: every prompt in the page's list and in any answer on its way is one the server of its bench
  has, on the same target (`OnServer`; prompts keep their target); a call that carries words carries those typed on the target of
  the prompt it goes to, or its number was shared, or it was sent from another bench's list (`CallHonest`, `FilesHonest`); two prompts,
  or a prompt and a create that has its number but not its file, have one number only if it is marked shared (`NumbersHonest`).
The tray's
  `PicksHandled`: the prompt of a pick that was handled last is shut, so an open one is about a pick still to be handled.
* `EachOnce`. Socket: `OneSocket`, `LastListens`, `TimerWaits` (the effect in force has at most one socket that is not closed, only its
  socket listens, and its one timer waits while it has none); log book:
  `BookInv`, the rows and the tail are ends of the same rising numbers. Recorder: `RecordedSoFar`. Folder
  browser: `ReadsInOrder`, the read with the last number is for the folder last asked for. Bridge: `LetGo`, what is
  on in the loupe, or will be once a queued message arrives, is lifted by a message queued after it.
* `PagePromises`. `HoldInv`: the one armed timer is that of the hold that is on, with what is left of the oath (of the card nothing
  more is claimed: it makes ready what it shows when the timer fires);
  `TimerWithPointer` likewise for the tray; `ReplaySoFar`: the timers of a replay are its last steps; `HeldOrLeft`: with no
  bench the clamp screen is held or was left.

`RepoProofs` (any docs, links, folders, clamps, schemas, components, scripts, orders, processes, sketches, pages and prompts of any size):

* `JigFilesComeBack`. Docs index: `ClampSound`, what a clamp has listed and read so far leads back to files of the walk from
  the folder as it was named (`RefLeadsBack`, from `RebasedSame`: taking a prefix off a path and putting it back); `IndexSound`, the same of the
  index. Migration: `Behind`, what a process has read, decided or still has to do of each work order it listed against the files. Sketches:
  `SheetWhole`, the sheet, what it goes back to and the bin are of one sketch that the server numbered, with hotspots only on elements it has;
  `CallWhole`, so is what an answer on its way carries. Prompt files: `FileInv`, the prompt is typed (`PromptTexts`: words are any lines but
  the one that stands for no words) and the file is one that was written. `WrittenFile` brings every file to one shape: frontmatter,
  heading, words, the `##` of the acceptance, the rest. From it `EndsWhere` (no line of the frontmatter is a rule but its last),
  `WordsEnd` (the words end at the first `##`, so not after the acceptance) and `PromptReadBack`: what is read is typed again.
* `SurveyTrusted`. `OneWrites`: unless two runs mixed, one that still has to write its gauges wrote the `survey.json` there is;
  a name qualified by its adapter is never another's (`MergeApart`). Look-ups: `Follows`, face, context and draft are what the look-up gives of the
  survey and the pick as they are, and the least place that matches is the same for all three.
* `AppDoneAsSaid`. Detection: `StartHonest`, what was started is a script of the repo as it was when asked, on a port that was
  checked. Snapshot: `PictureOnce`, an order that is listened for, saved for or saved was asked for once; `LoupeIsClean`, a
  reply of the loupe holds nothing that acts, so what the server's expressions miss can only be the app's own. Form: `PageHolds` (one body, branches
  are taken away whole) makes `PathLeadsBack`: two siblings of one tag differ in their index (`SiblingsApart`, by counting), so two elements of the same path
  agree from the body down, by the least position where they would not; `PromiseKept`, while the page changes only inside or behind the form the probe's path is still that form's.
* `RepoInOrder` is the step property; each part contributes its own. Migration: `Apart`, two processes that are both in the middle know it, and
  `Untouched`, the prompt a process alone is about to write was not edited since it looked.

A part at rest keeps its invariant because nothing moves it, so in the theorems about the runs the invariants
are conjoined.

The proofs assume of the constants only what the modules name: bounds are numbers, the null values
(`NoSheet`, `NoMirror`, `NoCard`, `NoSocket`, `NoSurvey`, `NoFile` and the like) are not in the sets they stand outside of, `Dist` is a path, a repo has
finitely many schemas, a page has a body, and a real file is not inside another file or named through a link.

Out of the prover's reach and left to TLC: liveness (`BuildSettles`, `BuildLands`, `DraftsEnd`,
`HostSettles`, `ServerSettles`, `PageSettles`) and `CancelSticks` (nested temporal). Of the safety
properties one is only model-checked: `TextsReadBack`, what reading a whole text yields (the builds of `PromptFile`, a second
reading of its file, the cutter of `DocsClamp`). It compares recursive definitions over sequences (sums of words, flattened
lines, every section of a file at once) for every input.

## 5. Seen while modelling, not stated as a run

* A cancel that arrives during the after-snapshot is accepted and ignored (`runner.ts:316` has
  already copied the flag); `CancelSticks` stops before that await.
* Exit 0 with an error result: the badge does not say built (`runner.ts:330`), the prompt does
  (`prompts/service.ts:304`).
* With two requests in flight an edit accepted before a build starts may be written after it, so
  claude was given other words than the bench shows, and as a call writes the whole prompt it read, the edit takes the state
  back too. The page is such a client: it sends a PATCH for every keystroke and awaits none (`App.tsx:244-253`); two builds of one prompt may both pass their
  checks (the second is refused by the runner and lands as a failure, on the first one's prompt).
* A claude that ignores SIGTERM, or whose grandchild keeps its pipes, keeps the slot for good (`runner.ts:264, 287, 368`).
* A failed write of a build's result is retried as a *failure*; if that write fails too, the prompt
  stays `building`.
* A draft or a release in flight overwrites a scrap or an edit made meanwhile, and a redraft by
  `person` or `shop` puts the mark's own words over an edited face.
* The MCP process never reloads: an agent connected before a release cannot claim it.
* `TargetRunner.stop` reports `none` after its awaits, over a target started meanwhile; a second
  `stop()` returns at once although the first is still waiting for the process, so a start can get
  in between. The badge then says `none` for a running app until its probe answers, or for good.
* The timer of a start whose child was killed but never closed stops the child of a later start.
* A clamp that arrives while an unclamp is closing creates its plate while the old one still
  listens; with `--plate-port` both want the same port, and no `error` handler is attached.
* `createBench` that throws leaves its plate listening. A mirror started while its bench is closing
  is never closed.
* A build still waiting for `claude --version` when its bench is let go is not yet there to be
  cancelled, so `bench.close()` waits for all of it.
* `PromptStore.create` and `createMarkAndWorkOrder` compute the next id before an await: overlapping
  creates share it (`prompts/store.ts:213`, `store.ts:287`).
* After a restart a prompt that was `building` stays so with nothing behind it (`prompts/store.ts:98`),
  and an agent may mark built, from its stale index, what the bench moved on (`prompts/service.ts:331`).
* The watcher reloads the file that `scrap` itself wrote; the rung to restore is then gone
  (`core/src/work-order.ts:233`).
* `ollama.ts` clears the timer of `generate` before it reads the body (126-148): a body that never ends
  hangs the draft. The fairness of `WorkOrders` assumes that it ends.

Server parts:

* Plate: an app that never answers keeps `close()` waiting, and with it every unclamp and clamp of that bench (`proxy.ts:340-345`). HTML of an unknown encoding is treated as
  decoded; several CSP headers joined into one are rewritten as one; a `default-src` without `script-src`
  is left as it is. `getStatus` names the target that is current after the probe.
* `PathGuard`: when the directory that was checked is itself replaced, listing, probes and clamp follow it (`fs/route.ts:178-184`,
  `setup/route.ts:201-204`). `RequestGate`: a request without an Origin is not stopped by it (`same-origin.ts:24-36`).
* `SheetStore`: overlapping creates share an id; overlapping update and scrap undo each other; the id
  of a file that does not parse is given out again.
* `RecentBenches`: of two overlapping changes one may be lost, or a removed entry come back.
* `SetupWrite`: a `.mcp.json` that does not parse, or that another call has just emptied, counts as absent and is replaced; what another
  program writes between a call's read and its write is lost. `DiffFirst` only says that somebody was shown or told first: the
  file that is written may not be the one that was compared.
* `TrialFit`: `valid-port.ts` says a request never asks for port 0, the mirror's route accepts it; a
  repoint during a close answers with a port nobody listens on any more.
* `ShopHeartbeat.stop` waits for the last refresh only, not for the first write.

Page parts:

* Loupe: the mode is not sent again after a reload of the frame; a pick on its way lands in hand mode;
  a replayed click in loupe mode is swallowed and reported done; a filled checkbox is reverted.
* Toolpaths: the event before a recording becomes its first step; `save()` resets a recording that was
  started during its await; of several events before one render only the last is recorded.
* Prompt card: keystrokes before the first create answers make a prompt each, and those that overlap share a number: an edit for one
  target then rewrites the other's file (`prompts/store.ts:213-229`); words typed after a clamp into the list of the bench before go
  to a prompt of the new one; what is held may change before the hold is over; a second build, and one
  that failed, is never fetched again (`usePrompts.ts:96-102`); a late refresh overwrites a newer list;
  polished words are shown and not saved.
* Clamp screen: a checklist of an earlier bench may arrive late (91-93); `busy` is shared.
* `JigSocket`: frames that React renders together are lost from the logbook; the late close of StrictMode's
  first socket leaves `connected` false.
* Tray: a draft may be saved to another order when both had the same words.
* Sketches: `nextElementId` starts at 0 with every page load, so an element added to a sketch that was reopened
  takes an id that is in use, and scrapping it removes both and keeps one (`sketchWorkspace.ts:114`, `254-265`);
  a save's answer overwrites edits made during it; of two opens the last answered wins; restore loses the link.
  `USING.md:141` describes a bin that the quiet chassis does not render.

Repo parts:

* Prompt files: a line of `##` or `###` in the words, in a document or in a build's summary cuts them on
  reload, and `### Build x` adds a build that never was, although `parseBuildLog` is called the inverse of
  `buildLogLines`. `PromptFile`'s properties are for texts without such lines, where they say so.
* Migration: stopped halfway, the rest is never migrated and not reported; skips are forgotten on restart;
  two processes that migrate at once, each past its look for prompts (`store.ts:132`), may overwrite an edit.
* Docs: a skipped heading level gives a wrong path; a link is not followed, although the comment says links
  inside the folder are; one unreadable file fails the clamp.
* Detection: an explicit port with the Angular tier does not reach `--port`; the CLI does not bound the port.
* Context: `prompts/context.ts` adds the pick's unverified file; the drafter takes the first component
  that matches name *or* file, which may not be the shop face's; the shop face lists a spec file nobody looked for, and for a
  `.tsx` it is the file itself.
* Survey: `survey.json` and `gauges.json` may come from two runs when these overlap or one is killed, until the next run that is not
  disturbed; gauges are read after the survey, so also one run's may tell of different moments; the file of an adapter
  that no longer matches stays.
* Snapshots: a reload of the page asks again for orders that are past release; a reply for one order may be
  saved as another's, or show the app after the work. The server's sanitizer is a few expressions (`sanitize-snapshot.ts:10-47`): markup it
  cannot spell stays in a picture that the app's page sent itself, and is left to the Content-Security-Policy. `App` mounts neither
  hook nor mirror.
* Form filling: after a change before the form its path may lead to another form; when it no longer resolves the fill looks in the whole
  document (`loupe.js:756`); a field that is gone still counts as filled in the message; a checkbox or select counts as filled
  without being read back (`loupe.js:673-676`).

## 6. Plan

What is left to prove is `TextsReadBack`: of `PromptFile` `HistorySurvives`, which needs the place of every heading in the file,
where `StateSurvivesWords` and `RequirementSurvives` needed only the first rule and the first `##`; of the cutter of `DocsClamp`
`PathIsAncestry`, whose headings are read one by one.

Models that would still be worth having: overlapping `create`s as actions of
`WorkOrders` (`PromptCard` has those of prompts), `polish`, the bench host's broadcasts, and the diff of two git snapshots.

## 7. Not modelled, and why

* The survey adapters (Angular, .NET, web) parse other people's source text: no state, and
  inputs out of TLC's reach. `Survey` takes any answer of theirs.
* What is drawn: markup, styles, the place of the highlight, icons, the panes' layout. What the panes keep
  and ask for is modelled.
* Fake values of fixtures, forms generated for them, the scores of `rank.ts`, PDF extraction, the bytes of
  proxied streams, reading stream-json lines.
* Argument parsing and printing of the CLI; `jigbench build` drives the same service as the bench.
* `examples/` are sample applications.

Wording, timestamps and logs are left out of every model; the markdown layout is modelled in
`PromptFile`, and elsewhere only by what reading a file back loses (`Reread`, `parseWorkOrder`).
