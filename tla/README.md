# Modeleaf for Windows: TLA+ models, checks and proofs

Modeleaf is a PDF reader: a native Tauri process in Rust that owns every file
handle, and a WebView2 renderer in TypeScript per window that draws the pages with
PDF.js. Nearly everything it does crosses an asynchronous boundary: a renderer
asks, the native side works on a blocking thread, and meanwhile the user switches
tabs, the window goes away or the application quits. These modules model the
parts that must stay right under every interleaving. Paths below are relative to
the repository.

- `*.tla` without a prefix or suffix: one module per component, or per concern of
  a large class.
- `MC*.tla` and `*.cfg`: small instances for TLC. `MCWindow`, `MCProgress` and
  `MCServices` hold several components each, see section 3.
- `*_proofs.tla`: theorems checked by TLAPS.
- `PROJECT.json`: components, runs, mutants, the map from definitions to source
  lines, findings, hazards, theorems.

Check one run with `tlc -config PdfSession_safe.cfg MCPdfSession`, the proofs with
`tlapm PdfSession_proofs.tla`.

## 1. The system

### Native side (`src-tauri/src`)

| Component | State | Operations | Talks to | What must hold |
|---|---|---|---|---|
| `PdfSessionManager` (`pdf_session.rs`) | the table of sessions with their handles, counters of queued and running file work, external-link launches, print leases, barriers, pending closes, tombstones, fences of owners | open, read, metadata, print lease, links, cancel, close, defer, drain, quit, the cleanup worker | renderer commands, the protocol, window events, dispatcher, ledger | no handle is disposed of while used; every handle is disposed of; a barrier means drained; quotas hold; a destroyed window gets nothing new |
| `PdfFileDispatch` (`pdf_file_dispatch.rs`) | queues per session, a rotation, jobs, handles in use | enqueue, take next, revoke, complete | the manager, blocking threads | fair rotation; one operation per handle; no job stranded |
| `PdfAssemblyLedger` (`pdf_assembly.rs`) | leases and waiting requests of documents, the credit, the queue of waiting documents, watermarks | request, cancel, release, finish, discard a window | renderers of all windows, the manager | credit is exact and within the budget; strict first come first served; a cancelled request is never granted |
| `pdf_protocol.rs` | leases of responses in flight | answer a range request | manager | a lease lives until the response is handed over |
| `native_io.rs` | three counting gates | acquire, release | every command | a permit lives as long as the system call |
| `external_link.rs` | the dispatcher's life cycle, a queue of 32, the start state of each job | start, enqueue, run, expire, shut down | manager, the shell | a link opens or its caller is told that it did not |
| `open_request.rs`, `open_dialog.rs`, `workspace.rs` | requests and their owners, posted dialogs, windows and their generations | reserve, claim, acknowledge, reject, lose the target, post a dialog | renderer client, windows | a document is delivered once, or given up once |
| `lib.rs` | the quit coordinator, second-instance ingress | window close, destroyed, quit, exit | all of the above | quit reports what it did not settle |
| `print_job.rs`, `print_windows.rs`, `commands/print.rs` | the only print job, its phase, a pending operation | begin, submit page, finish, cancel, abandon | manager's print lease, a worker thread | one job; every waiter is answered; an abandoned job is reaped |
| `persistence/*`, `commands/state.rs`, `theme_state.rs`, `recent.rs`, `commands/config.rs` | files, a lock beside each, copies in memory | merge and replace, commit a theme, record, clear and prune recents, reset | several windows and processes | no update lost; memory agrees with disk |
| `diagnostics.rs` | a queue of 32 and a log | record | everything | best effort, bounded |
| `local_path.rs`, `path_shortcuts.rs`, `recent_display_aliases.rs` | none | classify and open paths | the system | string processing |

### Renderer (`src`)

| Component | State | Operations | Talks to | What must hold |
|---|---|---|---|---|
| `TabWorkspace`, `WorkspaceTransitionQueue`, `TabActivationCoordinator`, `OpenAdoptionOwnership`, `main.ts` | the tabs, the queue of transitions, the adoptions that may have to be undone | switch, close, adopt, commit, roll back | sessions, open-request client | one active tab, the selected one; no staged or refused document left behind |
| `NavigationHistory` | Back, Forward, pending transactions, a generation | prepare, commit, roll back, cancel, reset | `PdfTabSession` | bounded; a commit pops what it displays |
| `OpenRequestClient`, `ShellOpenCoordinator`, `OpenFlowCoordinator` | requests and their states, retries | claim, adopt, acknowledge, reject, dispose | native open requests, `main.ts` | each document adopted once |
| `PdfTabSession`, `PdfReaderController`, `PdfContentController` | phase of a tab, load generation, presentation owner, page window | activate, suspend, load, render, search, navigate | PDF.js, native session | late work never touches a newer owner |
| `PdfRangeAssembly`, `PdfDataRangeAdapter`, `BinaryRangeTransport` | descriptors, the active assembly, its handoff phase | request, assemble, hand off, cancel | ledger, protocol | a credit is returned only when the buffer is gone |
| `ResourceBudget`, `ContinuousPageWindow`, `PdfViewportAnchor` | reservations, page windows | reserve, commit, release | controllers | canvases within the budget |
| `PdfPrintService` | one print | render and submit pages | native print job | its lease is returned |
| `KeySequenceTrie`, `RootKeyboardRouter` | the prefix typed, its timer | advance, expire | commands | a late timer does nothing |
| other `domain/*`, `ui/*` | tables, DOM | | | presentation |

### How they interact

A native request (arguments, dialog, drop) becomes an open request; the renderer's
client claims it, which opens a session, and `main.ts` adopts it into a tab in a
transition of the workspace queue; the tab's `PdfTabSession` loads it through the
protocol, or through range assembly under a lease of the ledger; the client
acknowledges, or rejects, in which case the tab is rolled back. Every read is a
job of the dispatcher. Closing a tab cancels the session, obtains a barrier when
nothing uses the handle, and closes; destroying a window defers all of its
sessions; quit drains everything under a deadline. The handle is closed by one
cleanup worker behind a bounded channel.

### What is hard

Command threads release the lock between the steps of one command; jobs finish
after their session was cancelled, deferred or closed; destruction of a window
is several critical sections with commands of that window still running;
cancellations overtake requests; answers are lost; pumps nest; a rollback waits
for a native answer while the user goes on. `PROJECT.json` lists each such place
under `hazards` with the properties about it, and the few that no property covers.

## 2. Modules

| Module | Models | Composed with |
|---|---|---|
| `PdfSession` | `pdf_session.rs`, and what `lib.rs` and the commands do to it | EXTENDS `AssemblyShadow`; its file counters are those of `FileShadow` |
| `AssemblyShadow` | what the session manager relies on of the ledger | abstract specification, implemented by `PdfAssembly` |
| `FileShadow` | what the session manager counts of the dispatcher's work | abstract specification, implemented by `FileDispatch` |
| `PdfAssembly` | `pdf_assembly.rs` | `Shadow == INSTANCE AssemblyShadow` with a refinement mapping |
| `FileDispatch` | `pdf_file_dispatch.rs` and the pump of the manager | `Manager == INSTANCE FileShadow` |
| `PdfRangeAssembly` | `PdfRangeAssembly.ts`, `PdfAssemblyClient.ts` | `Native == INSTANCE PdfAssembly`: the renderer's assembly runs against the ledger's own actions |
| `OpenRequests` | `open_request.rs`, `OpenRequestClient.ts`, `ShellOpenCoordinator.ts` | both sides in one module |
| `PrintJob`, `PdfPrintService` | `print_job.rs`, `print_windows.rs`; `PdfPrintService.ts` | the second EXTENDS the first |
| `PdfReader` | `PdfReaderController.ts`: owning documents and tearing them down | |
| `PdfViewport` | `PdfReaderController.ts`, `ContinuousPageWindow.ts`, `ResourceBudget.ts`: what is displayed | |
| `LinkRegistry` | `PdfContentController.ts` and the registry of `pdf_session.rs` | both sides in one module |
| `PdfSearch` | `PdfContentController.ts`: the search of a document | |
| `PdfTabView`, `ZoomPolicy` | `PdfTabSession.ts`: changing the view; `ZoomPolicy.ts` | the first EXTENDS the second; `PdfTabView_proofs` has the theorems of both |
| `KeySequence` | `KeySequenceTrie.ts`, `RootKeyboardRouter.ts` | |
| `Workspace` | `main.ts`, `TabWorkspace`, transition queue: switch, close, adoption, rollback | |
| `NavigationHistory` | the Back and Forward stacks | |
| `PdfSession_proofs`, `FileDispatch_proofs`, `PdfAssembly_proofs`, `KeySequence_proofs`, `PdfReader_proofs`, `PdfSearch_proofs` | theorems | EXTEND their component and TLAPS |
| `Window_proofs` | theorems of `Workspace`, `NavigationHistory` and `LinkRegistry` | EXTENDS them, as `MCWindow` does; they share no state |
| `Subsequences` | the `retain` of the dispatcher's queues | a recursive function, so that it can be proved about |

Two rules hold throughout. On the native side a step is a critical section; in
the renderer, where one callback runs at a time, it is the code from one `await`
to the next, with everything that code does. A call that crosses the boundary is
sent, handled and answered in separate steps, so that it may be overtaken, and
where the code expects it, the answer may be lost.

### PdfSession

An action is one critical section of the `sessions` mutex. `cancel`
(`pdf_session.rs:1917`) is a thread (`caller`) with a program counter: mark the
session, cancel the assembly outside the lock, wait for reads and prints, wait for
links under a deadline, assign the barrier. `close` waits for the cleanup worker
in the same way. A wait on the condition variable is a guard, because each section
that changes a field somebody waits for ends with `notify_all`; a forgotten notification
is therefore out of the model's reach. The handler of
`Destroyed` (`lib.rs:1683`) is three actions, `DestroyBegin`,
`DestroyDiscard` and `DestroyDefer`, since it takes the lock three times.

`stage[s]` tells where an id is: an admission (`opening`), an entry of the table
(`live`), a task in the cleanup channel (`cleanup`), the handle being closed
(`disposing`), closed (`disposed`). The work on a handle is counted as the code
counts it (`queued`, `inFlight`, `links`, `print`), and the ledger's work is the
state `asm[s]` of `AssemblyShadow`. Left out: the file and its snapshots, the
contents of the link registry (see `LinkRegistry`), the wording of errors. A call
that returns an error and changes nothing is a stuttering step.

### PdfAssembly

An action is a whole call, since the ledger holds its mutex throughout; what the
renderers send comes in any order and repeatedly. `Pump` is the loop of
`pump` (`pdf_assembly.rs:271`) as a fold over the queue. Lease ids wrap around in
the model, so that a repeated release may meet a new lease with an old number
only when as many leases as the bound have passed in between.

`AssemblyShadow` says which documents work, hold and wait, and leaves open whom
the pump serves. `PdfSession` is built from its operators, so what `PdfAssembly`
implements is exactly what the session model assumes of it. It promises that a
request which waits has somebody to wait for.

### FileDispatch

Between the sections of a pump other threads run, and a pump nests: dropping the
token of a revoked job pumps again (`pdf_file_dispatch.rs:362`). A thread is
therefore a stack of pumps. A selected job runs on a thread of its own. The
metadata gate is part of a job's token. The token of a revoked job is dropped by the
thread that pumps. `FileShadow` has the counters of the
manager; every section changes them as one of its actions does.

### PdfRangeAssembly

`assembly` is the object of one document: the queue of ranges PDF.js asked for,
the active range with its lease and its bytes, the flags that stop it, and how far
`finishAfterPdfDestroy` has got. `call` has one entry per kind of invocation.
PDF.js is an environment: it asks, aborts, detaches the buffer it was handed and
reports progress only then, and is destroyed. One other document of the process
competes for the credit. Left out: the physical parts of a range (read in one step
that ends well, fails or is aborted), the proofs that go with a release, which the
native side does not look at, and the exhaustion of sequence numbers. If the answer
of a cancellation is lost, the promise kept in `cancellation` stays rejected and
`finishAfterPdfDestroy` fails however often it is called again; the credit then
waits for the destruction of the window, as
`docs/engineering/architecture/overview.md:41-49` says it may. `RangesEnd` has
that as a premise.

### OpenRequests

`native[r]` is the coordinator's record of a request, `item[r]` the client's,
`cmd` the commands between them, `client` the client's queue, timer, enumerations
and blocked requests, `shell` the window's dialogue, and `doc[r]` what the window has
adopted. A window may be destroyed at any moment; its requests are then lost in
the order of `drain_owner_for_lifecycle`: its commands get a refusal that is not
final first, then requests and reservations are invalidated, then sessions are
deferred. Left out: `target_lost`, which the program never calls, the failures of
opening that travel along, the limits of the histories, which no run could reach,
and the delays of retries. The drain of a rejected request may time out, so that
its rejection is answered before the session is gone.

### KeySequence

A node of the trie is the prefix that leads to it (`node`). `due` says that its
deadline has passed, `timer` is the browser's timer with what its closure
captured, the owner and the epoch. `input` is who owns the keyboard, `owner` who
the router believes it is; the router learns of a change with the next key, timer
or rendering of the window. `PassInput` has the former owner not return unseen,
because the code that shows another tab or prompt renders the window in the same
turn, and generations only grow. `seen` and `said` are observers: the keys the present
owner has pressed, and the last dispatch. The branch of `advance` for an expired
deadline is not reached, since the router expires the prefix first. Left out: the
syntax of bindings, the canonical form of a key event, and which dialogues take a key
before the router does, which is one step, `OtherKey`.

### PrintJob and PdfPrintService

The process has one job. `job` is the manager's record with its phase and the
operation that waits for the worker, `channel` and `worker` the thread of the
dialogue and GDI, `permit` the one submission under way, `lease` what the print
holds of its session. `client` is a call of `printPdfDocument` with a program
counter; its interruptible waits may be left while the raw operation goes on,
whose settlement is then a step of its own and is what the drain barrier awaits. Windows close, reload and are lost meanwhile. Selected pages are
a set, since both sides walk normalised ranges in order. Bytes, sizes, colours and
the progress dialogue are left out. Worth knowing: `print_invalidated` is never
reset, so a session whose window declined to close cannot print again; a page job
whose `finish` answer is lost is reported as failed though it was delivered; a
lost answer of `start` would leave a job that the renderer does not know of, and
only the abandoning of the owner would end it (`Lossy` names the calls whose
answers may be lost, and `start` is not among them).

### PdfReader

`cand[d]` is a `Candidate`: what it owns, its password dialogue, how far its
teardown has come (`cursor`), which of the four phases have resolved, and its retry.
A phase that misses its deadline puts the candidate into quarantine; its late
settlement resumes the teardown. `proc` holds the two calls that may be under way,
`open` and `dispose`. Documents are adopted one at a time, as the window's
transition queue has it.

### PdfViewport

`call` are the requests under way (render, synchronize, change of topology),
`window` the `ContinuousPageWindow` with its generation, `rasters` the resident
pages with the view they were drawn for. The sequence numbers that the code
compares are represented by the call that drew the last one. A call that must give
rasters up first is a transaction: it holds the settlement, and restores what it
saved when it fails or is superseded. Pages are equally large; geometry, anchors
and scrolling are left out, and the caller's guard and the user's scrolling are the
flag `wanted`. What the model shows and the code allows: one page may stay at an old
device pixel ratio beside one at the new; after a pointer zoom the active page
is not displayed until the window is synchronized.

### LinkRegistry

`pubs` are the publications of a tab with their place in the chain of turns, their
deadline and the answers they await; `native` is the session's registry with
its transaction. A publication whose outcome is unknown quarantines the
registry until a late abort has settled it.

A render that waits for its prepare has two timers for one deadline: its own
(`PdfContentController.ts:766`) and that of the call (line 1863). The deadline is a time in
milliseconds, so either may fire first. When it is the call's, `Timeout` ends the render and
quarantines the registry. When it is the render's own, `GiveUp` rolls the publication back: the
abort is put off and the turn passed on, but the quarantine is set only by the second timer, in
a later task (`CallTimeout`), or not at all if the prepare was answered well in
between (`LateAnswer`). `ahead` says of a publication where it is between the two, and
`Hurried` that there was such a render. In that gap the next publication, the
revocation of a suspended tab or the restoring of an authority, finds the registry free
and sends its own prepare beside the unanswered one, and an unmounting that is under way
may end before the answer; `OneCallAtATime` and `UnmountedIsQuiet` are then false, in eight
and seven steps of the model. If the newer prepare is served first, the late abort of the older
revision is refused at every attempt, the registry stays quarantined and every unmounting
stays pending. No doc or comment of the repository promises otherwise, so this is an
observation and no finding. `CallsAreOrdered` therefore speaks of behaviours without a
hurried render; `RegistryAgrees` holds in all of them, except that a transaction may be left open
on the native side when a quarantine of a hurried render stood in the place of a later one.

Publications are begun by one request
of the reader at a time and by the tab's suspension and return. A viewport holds its
authority until the reader has committed it (`Hold`); one that fails has been put back as far
as it could, and registers what it finds before the reader serves another request (`Owed`,
`Restore`); only when that fails too, or the rollback, do the two sides stay apart, and the
reader is told (`Incomplete`). Observations that
are no violations of a stated promise: a failed or late rollback leaves the groups
of a page at the aborted revision (it is reported as incomplete); pages evicted
during a publication may come back among the entries of the next; a finalization after
its deadline quarantines the registry until unmounting. Left out: a second click while one is
in flight.

### PdfSearch

`runs` are the searches that have not ended, each at one of its awaits; `extracting`
is the one that reads pages, the others wait for its settlement. `tab` goes off and
on, results may be evicted in between and are recomputed. A match may have no place
on its page (`Located`). The continuation of a search that waited for another runs in the
turn of the event loop in which that one settled (`HandedOver`). Left out: a query that is too
long, and the publications of partial results.

### PdfTabView and ZoomPolicy

The four owners of a tab's view (the keyboard with the keys typed meanwhile, the
wheel, a resize, an activation) call `settleCurrentView`, of which `call` has one
entry per invocation under way; scrolls synchronize passively, or are put off while
an owner exists. The handlers are functions from a state `s` to a state, so that what
one handler calls of another is written as in the code; an action applies one to
`State`. Continuations of settled promises run before anything else, as microtasks
do. A scale is its logarithm, so that zooming adds; `ZoomPolicy` has the clamped
arithmetic. `committed` is `lastCommittedRender`, which is what the shell shows, and
`shown` what the reader displays. The revisions and intents by which the code fences
work are represented by marks on the work they fence. Left out: pages and
rotation, the landing after loading, and the status line.

The properties except what the code does and the record `odd` observes: a
rollback that failed, and was reported (`broken`); a mode requested at an unchanged scale, which
renders nothing and leaves `lastCommittedRender` in the old mode (`kept`); a second
owner that began to render while the first did (`both`): a key or a wheel step between
a resize and its animation frame, after which the failure of one may bring back a
view, or a `lastCommittedRender`, that the other has replaced; and a zoom reckoned from
a stale view (`moved`), which the attempt to prove `AnswersAreTrue` brought up.
`applyKeyboardAction` corrects the factor of a zoom by the live scale it reads
(`PdfTabSession.ts:756-774`) and then calls `apply`, whose `cancelWheelZoom` rolls a wheel zoom
under way back to the committed scale (906-924, 1661-1670) before the factor is applied. When
the live scale was a stale one, the zoom ends at another scale than was asked for and is answered
true. It takes a zoom key whose rendering fails on a resize that was not yet observed, a wheel
zoom, and another key while it is under way. Only the scale of a custom view is compared with the
committed one: a fitted mode reckons its scale anew, and what it was left with says nothing. Without that
restriction the property is false: a resize whose rendering fails, a return to fit-width at
the scale that is shown, which renders nothing, and leaving the tab and coming back leave a fitted view with
another scale than the committed one.
Two more observations: at a bound of the scale `zoomAt` relabels a Fit Page view as custom and leaves it in
its single-page topology, whereas a key does not (`PdfTabSession.ts:736-742`); and
a zoom whose rendering fails because the content size changed before the observer was
told is answered false with the wanted view left in place until the next
activation (`dirty`).

### Workspace

`run` is the transition under way and what it awaits, `queue` those
behind it, `requests` what the client knows of each request, and `adoptions` what
a refusal would have to undo. Sessions are `inactive`, `activating`, `active` or
`quarantined`, and may settle badly. `conditions`, chosen at the start and never
changed, says what the environment may do in a behaviour: sessions that fail, a
native side that refuses an acknowledgement, a user who acts during an open. An
empty tab never stands beside others (part of `TabsAreOwned`), so the branch of
`adoptRequest` that would reuse an unselected empty tab cannot be reached and has
no action.

### NavigationHistory

A transaction is prepared, the view moves, which takes several awaits, and the
transaction is committed or rolled back by whoever holds it (`held`), perhaps
after others. Where the reader stands is any position, since scrolling records
nothing. Positions are equal within a tolerance, which is not transitive; the
instance has three places in a row of which only neighbours are near.

## 3. Runs

| Run | Question | Bounds |
|---|---|---|
| `session_safe` | opens, work, commands, destruction, quit and the cleanup worker: is a handle ever disposed of while used or held beyond the quota, a barrier given too early, a counter lost, a session forgotten? | 3 ids for 2 slots, 3 command threads, 2 generations of a window, in the scenarios below |
| `session_live` | are the sessions of a destroyed window disposed of, do commands return? | 2 sessions, 1 thread, no late commands |
| `session_late` | the same with late commands: violated, see Findings | 2 sessions |
| `assembly` | credit, fences, order and starvation under calls in any order, and the refinement of `AssemblyShadow` | 3 documents in 2 windows, budget of 2, sizes 1 and 2, lease ids 1 and 2 |
| `dispatch` | do concurrent and nested pumps keep the rotation right and strand nobody? and the refinement of `FileShadow` | 3 sessions, 2 opened again, 2 clients, 4 jobs, 2 at a time |
| `window` | history: do overlapping navigations keep the stacks right? | 3 places, limit 3, 2 search epochs, 2 navigations at a time, 4 generations |
| | viewport: do overlapping requests, a withdrawn view and failures leave a consistent display within the memory? | 2 requests of every kind, 3 pages, overscan 1, 2 scales, 2 ratios, memory for 3 small rasters, 1 byte of other tabs |
| | links: do the tab and the native registry agree after deadlines, late answers, failures and an unmount? | 2 pages, 3 publications, 1 click, 1 fault, 2 attempts at unmounting |
| | tabs: are they consistent with what the native side acknowledged, and with each other, whatever fails? | 3 requests, 2 tabs, 1 close, queues of 1, four kinds of environment |
| `workspace_switch` | one active tab when the user switches meanwhile: violated, see Findings | 3 requests, 3 tabs |
| `reader` | is every document and canvas released in order, whatever settles late or not at all? | 2 documents, 2 attempts at the first page, 1 disposal that may be repeated |
| `reader_quit` | is a cancelled password candidate drained when the close resolves? violated, see Findings | 2 documents, nothing rejects |
| `view` | is the scale on the badge the one displayed, is nothing left half changed, is a scroll that waited taken up, and is a zoom answered true the one asked for? | 2 renderings, 3 scales, 3 sizes of the host of which one has a scrollbar, 3 events |
| `progress` | does the rotation starve nobody? | 2 sessions, 1 client, 4 jobs, 1 at a time |
| | is what a search shows true, and does each search end? | 3 pages with a match each, one of which has no place; 5 searches |
| | are adoptions settled under a user who never stops? | 2 requests, 2 tabs, 1 close |
| | printing: do the service's report and the native job agree, is everything given back, and does a cancelled print end? | 2 windows, page sets {1} and {1, 3}, lost answers of `cancel` and `check`, 1 fault |
| `services` | is credit given back when the buffer is gone, never before, and does the assembly end? | sizes 1 and 2, budget 2, 2 descriptors, 3 ranges, 2 faults, another window |
| | do both sides agree on each document, and is each request opened or refused and drained? | 2 requests, 2 troubles |
| | is an action dispatched only for keys its owner pressed in a row, and does each prefix end? | 4 keys, 5 bindings, 2 tabs and a prompt, 3 keys remembered |

`window`, `progress` and `services` hold several components that share no state. One
of them moves in each behaviour, chosen by `part`, and the others rest in an
initial state: the states are the sum of those of the parts, not their product. A
liveness property of a part that rests is about its initial state, which
makes it true there, or its fairness is asked for only when it moves.

**Why the bounds are enough to meet the cases.** Each limit of the code is
scaled down so that it is reached: two handles, queues and leases of one or
two, one tombstone and one fence, so that eviction happens with the second. Two
sessions make process-wide and per-session counters differ; the third id
competes for slots while two are in use; a third command thread finds the barrier
set by the first while the second waits. Three documents in two windows let one
hold, one wait, and one try to pass, across a destroyed window. Three sessions and
two selected jobs let a session be skipped because its handle is busy while others
are served, and two clients let a pump run between the sections of another; with
one job at a time and four jobs in two sessions, a session that kept its place would
be served for ever. Three documents for two tabs let one arrive when there is no
room. A history limit of three has back, forward and the live position compete.
Two requests of a viewport overlap with each other, and canvas memory for three
rasters of which two are resident makes the third, or a larger scale, give rasters
up first. Three publications of links let one hold its turn, one wait behind it
and one begin after an abort. Two documents in a reader let one be torn down,
late, while the next is adopted. Two windows let one find the print job taken. Two renderings of a
view overlap, beside the synchronisation and the wheel, and a scale at a bound is one
step from the middle. In
five searches one is interrupted, restored and replaced twice. Three ranges under
two descriptors let one be refused, and a budget of two with another window that holds
one or two lets a reservation wait and be overtaken by its cancellation. Every
action and every disjunct is fired by some run. `MaxLease`, `MaxSequence`,
`MaxOpens`, `MaxCloses`, `MaxOwnerGeneration`, `MaxHeld`, `MaxRequests`,
`MaxRevision`, `MaxClicks`, `MaxFaults`, `MaxTroubles`, `MaxUnmounts`,
`MaxSearches`, `MaxEvents`, `MaxAttempts`, `MaxDisposals`, `MaxSeen` and the generation in `FewAtOnce` stand for counters that the code
does not bound, or bounds higher; those that count user requests or faults limit how much happens in
one behaviour. `MaxClosed` is at least the number of documents of a window, as it
is in the code.

**Constraints.** `session_safe` explores the union of four scenarios
(`MCPdfSession`), each of which takes some kind of work out: `Work` has two
sessions under one command thread, with file jobs and either launches, or assembly
and prints; `Contention` has one session with all of them at once and three command
threads; `Quota` has three ids that are opened and closed while their window stays;
`Lifecycle` has two window generations, late opens and the quit. A behaviour may pass from one to
another where they overlap. `Remembered` says that the ledger does not forget a
document before its session was cancelled and 64 others were finished.
`Competing` (`MCPdfAssembly`) stops a behaviour of three documents when the second
is finished. `FewAtOnce` (`MCWindow`) searches a history up to its fourth
generation, does not combine a third publication of links with more than one fault, unmount or hurried render,
and has a third document arrive only when no tab was closed.
`FewAtOnce` (`MCServices`) does not combine a second request with a second trouble.
`SecondIsShort` (`MCPdfReader`) follows the second document until its first page has
been requested, `SecondOnlyStarts` (`MCProgress`) the second print until it
is refused or its worker has started. The runs that check liveness under a
constraint cut off states beyond it, and say nothing about behaviours that leave it.

**Symmetry** is used in `dispatch`, over sessions, clients and jobs, and in `window`,
over the names that the two requests of the viewport and the two pages of the links
share; neither checks liveness.

**Deadlock.** An application without documents and with its bound of opens used up
has nothing to do, and so has one whose quit has finished, a print that has ended or a closed
reader: every run says `CHECK_DEADLOCK FALSE` except `assembly` and
`workspace_switch`. Where something must not get stuck, a liveness property says
so: `DestroyedIsDisposed`, `CommandsReturn`, `NoStrandedJob`,
`LateCleanupCompletes`, `ProgressIsMade`, `ServicesEnd`.

### Fairness

- `PdfSession`: the blocking thread of a job that runs, the revocation of queued
  ones, a print that was cancelled, a link launch, the cleanup worker, the handlers
  of `Destroyed` once begun, and the command threads. These run on threads the
  program owns and do not wait for a renderer. Nothing is assumed of a renderer,
  of the user, or of a print nobody cancelled. That a read of a blocked network
  share ends is an assumption on Windows, without which the program promises
  nothing about its session either (`pdf_session.rs` waits without a deadline).
- `FileDispatch`: pumps go on and selected jobs complete. Clients may stop.
  `QueuedIsTaken` is about behaviours in which every pump ends. One need not: the
  drop of a revoked job's token pumps inside the pump that revoked it, and while
  other sessions go on asking it keeps selecting for them, while the job its outer
  pump has selected is not spawned and keeps the handle of its session.
- `PdfAssembly`: a renderer gives every lease back in the end, or its document is
  finished or its window destroyed. The promise of `WaitingIsServed` is conditional
  on it in the code too.
- `Workspace`: transitions and the client go on, because sessions settle under
  the deadlines of the reader and the native side answers or refuses. Nothing is
  assumed of the user, who may switch for ever.
- `PdfReader`: operations settle, in time or late, and the code after an await goes on.
  No deadline need pass, and nothing is assumed of the user. Work that a
  candidate owns may be disabled for a while as others are begun, hence strong fairness
  for its settlement.
- `PdfSearch`: a search that reads goes on, since a timer bounds each of its waits.
  A read it gave up need never settle.
- `PdfPrintService`: native threads, answers, PDF.js and GDI make progress, and the
  system dialogue ends once its job was cancelled (the worker closes it). The user
  need not answer.
- `PdfRangeAssembly`: the native side answers, PDF.js takes what it was handed and
  reports it, the reader calls a rejected `finishAfterPdfDestroy` again, and the other window
  gives its credit back.
- `OpenRequests`: the native side answers or refuses, adoptions end, the cleanup worker works,
  timers fire, and an open password dialogue is answered in the end. An event
  need never arrive: the enumeration finds what it announced. While a password
  dialogue is open the client's timer does not drain its queue, which is why the
  dialogue has to close.
- `KeySequence`: time goes on, and a timer whose deadline has passed runs.
- `PdfViewport`, `LinkRegistry`, `NavigationHistory`, `PdfTabView`: only safety and action
  properties; no fairness.

### Findings

1. `session_late`, `lib.rs:1697`: the handler of `Destroyed` discards the leases
   of a window before it defers its sessions. A `reserve_pdf_assembly` of that
   window that is still running and gets the lock in between receives a lease that
   nobody can release any more; the session stays deferred and its memory charged
   until the process ends.
2. `workspace_switch`, `main.ts:1143`: the rollback of a document whose
   presentation failed is queued when the native side has answered. If the user
   has switched tabs by then, it selects the tab that was selected before, without
   deactivating the one the user chose, which stays active behind it.
3. `reader_quit`, `main.ts:1398`: a quit first cancels the open that waits for a
   password, which disposes of its candidate in the background, and then awaits the
   disposal of the tab. The reader has no opening candidate by then, so the disposal resolves while
   the candidate is still being torn down, although the comment says that it is
   drained before the native request is rejected.

With the conditions that exclude these, the same properties hold and are checked:
`DestroyedIsDisposed` with `LateCommands = FALSE` in `session_live`, and
`CalmKeepsOneActive` in `window`, which is `AtMostOneActive` for
behaviours in which the user leaves the tabs alone during an open, or no open fails.

### Mutants

Each property of a passing run has a mutant in `PROJECT.json`: a plausible
mistake in one definition under which the run fails. Mutants are defined in the
modules next to what they change.

## 4. Proofs

TLC checks the instances above; the theorems hold for every value of the
constants that the named assumptions allow (`BoundsAssumption`: finitely many
sessions, at least one window, limits that are numbers, at least one handle; `DispatchAssumption`: finitely many
sessions and reservations, threads that are not jobs; `LedgerAssumption`: finitely many documents, any budget, requests
that fit in it alone, at least one lease id and one remembered release; `KeyAssumption`:
tables of bindings that the constructor of the trie accepts, which `MCServices` assumes of its table;
`NavigationAssumption`: positions with pages, any relation of nearness, a positive
limit; `WorkspaceAssumption`: finitely many requests, numbered in order, positive limits, any conditions, which
`MCWindow` and `MCProgress` assume; `LinkAssumption`: finitely many pages, bounds that are numbers, which `MCWindow`
assumes; `ReaderAssumption`: any set of documents, a positive number of presentations;
`SearchAssumption`: at least one page, matches that are pages, of which any are located;
`ViewAssumption` and `ScaleAssumption`: any bounds of the scale, any set of renderings, sizes, steps and fits,
scrollbars that make one of the sizes of another).

**`PdfSession_proofs`**: `TypeCorrect`, `QuotaHolds`, `CleanupAccepted`,
`CountersHold`, `DisposalWaits`. All follow from one inductive invariant,

    TableInv == TypeOK /\ HandleQuota /\ CountersAgree /\ CleanupIsDrained

which beside the types is a conjunction of properties `session_safe` checks. They need each other: that the
cleanup channel has room for every entry of the table (`CleanupAlwaysAccepted`)
follows from `HandleQuota`, whose counters of admissions and cleanups are exact
only if no session is handed over twice; that the process-wide counters do not
underflow (`CountersAgree`) needs a session that left the table to take no work
with it (`CleanupIsDrained`), and that holds because a hand-over is guarded by
`Drained`. The proof has one lemma per action; those that change one counter rest
on two lemmas about units of work, which express a sum over sessions as the
cardinality of a set, so that the theorems about finite sets apply.

The second part of the module proves `NothingForgotten`, `ReportsHold` and `OwnersHold`
(and `LeasesAreWanted`, its half without a hypothesis). The invariant

    SessionInv == TableInv /\ NewIsUntouched /\ CallersWait /\ ClosingIsQueued /\ QuitIsFenced
                    /\ BarrierMeansDrained /\ ClosedMeansDisposed /\ LiveLeaseIsWanted
                    /\ NoForgottenSession

adds to the properties what the waiting threads rely on. `cancel` releases the mutex
between its sections, so what it found must survive what others do: `CallersWait` says
that the session of a waiting command is not active any more, and that one that waits
only for launches has nothing else left, which a barrier taken later needs.
`QuitIsFenced` says that `defer_all` reached every entry and every open and that nothing
is admitted after it; that is why the emptiness `drain_all` saw lasts. Instead of
one argument per property and action, `Orderly` states what any step may do to one session
(along which edges its stage moves, that a teardown never goes back, that a drained session
which is not active stays drained, who may hold a live lease) and `StepSettles` proves it, with
`NoForgottenSession`, once for every action; the other parts follow from it. Two facts carry
`NoForgottenSession`: `ReapTakesAll` (the channel never refuses, so a reap
takes every session it finds idle) and `SettledWork` (promotions and forgotten documents
in the ledger never end the work of another document).
`OwnersHold` has the hypothesis `FencesSuffice`: if commands of a destroyed window may
still run (`LateCommands`), there are at most `MaxOwnerFences` labels. The code keeps 64 fences
and drops the oldest, so after 64 other windows a late open of a window long destroyed is
admitted again; without late commands the theorem needs no bound. An open that is already in flight needs
no fence: it carries its own flag, and the theorem says that this is enough.

**`Window_proofs`**, navigation: `LiveCommitsFit`, `StacksBounded`, `TraversalFits`,
`SearchAndPending`, `HistoryTypeCorrect`. `LiveMayCommit`, which `window` checks,
is the conjunction of their statements that matters to the session: whatever a live
transaction is held for can still be committed. A commit pops a stack, so the bound
rests on the stack not being empty; that rests on the target a live transaction
was prepared with still being on top (`LiveTraversalFits`), hence on every step
that moves a stack making older transactions stale. It does so by raising the
generation, which only works if no transaction was prepared in a generation still
to come: `HeldOld`.
`OnePending` is part of it because a new transaction must be the only live one.

**`Window_proofs`**, tabs: `TabsAlwaysOwned`, `SettledAlwaysClean`, `AdoptedAlwaysKept`,
`OneActiveInCalm`, `TabsTypeCorrect`, for any number of requests, tabs, closes and places in the
queues. Nothing a user sees of the tabs is inductive: that a refused document does
not stay depends on a rollback that is still to be queued when the native side has answered, and
that on what the transition which adopted the document wrote down, perhaps many
transitions before. There are two invariants. The first,

    OwnedInv == WorkspaceTypes /\ Standing(workspace, run, queue, requests, adoptions)

is about documents, whatever sessions do. `DocsOK`: a document in a tab is adopted, or is being
presented by the adoption under way, or is the one its adoption's record names while the
answer is awaited, or its rollback waits or is about to begin. `AdoptionsOK`: one request
is in flight, the record of its adoption names its own document, and while its answer is awaited the
queue holds nothing else that settles or makes an adoption (`Bare`), which is why
`RollbackNeverRefused` holds for queues of any length. `RunOK` says at each await of each transition what it may
still rely on; `ItemOK` says of a rollback that waits that the tab it names, if it is
still there, has the document of its request, and that request is refused: this is all that keeps
`AdoptedIsKept`, since the user may have closed the tab before. The second,

    SessionsInv ==
        /\ ~conditions.sessionsMayFail => HealthOK(workspace, run, requests, adoptions)
        /\ ~conditions.sessionsMayFail /\ ~conditions.ackMayFail => NoRollback(run, queue)
        /\ ~conditions.userActsDuringOpen => IdleOK(workspace, run, queue, requests, adoptions)
        /\ Calm => CalmOK(workspace, run)

is about sessions, under each promise of the environment. That one tab is in the foreground
(`CalmOK`) is preserved by a rollback only if no rollback ever begins (`NoRollback`), or if it finds
its own tab selected (`IdleOK`: the user has waited, so an adoption is the last transition of the
queue and its answer comes to a window that rests); the finding of `workspace_switch` is what happens
otherwise. A workspace is seen as a set of tabs by id: `Like`, `Removed` and `Resettled` say once what an
operation on the sequence of tabs keeps of each of them (`WithTabFacts`, `WithoutFacts`,
`AppendFacts`, `RollbackFacts`, ...), and each transition has one lemma for documents (`...Owned`), for
what leaves the window (`...Loss`) and for each part about sessions. TLC checked both invariants
under all eight conditions before they were proved.

**`Window_proofs`**, links: `CallsAlwaysOrdered`, `LinksTypeCorrect`, for any number of
pages, publications, clicks, faults and attempts at unmounting. The inductive invariant is

    LinksInv == LinkTyped /\ (Hurried \/ LinkInv)

A step keeps the types and never takes back that a render was hurried (`Onward`, one lemma per group
of actions), so `CallsAlwaysOrdered` has only to follow the behaviours without one. In these

    LinkInv == PubsTyped /\ ShownTyped /\ TabTyped
                 /\ Queue(pubs, quarantined, closing) /\ (closing = "gone" => ~Dispatching)

says that at most one publication is `Engaged`: it is between its prepare and its end, or
over with a call unanswered, or owes an abort. Three mechanisms of the code make it
so, and none is enough. A publication leaves the wait for its turn only when those before
it are over (`InOrder`); but a deadline ends a publication whose call is still under
way, so `Status` adds that, unless a render was hurried, such a one has quarantined the registry, or the document is
closing, which the next one finds when it settles; and the abort that takes a call back
could overtake it, so `StepOK` adds that it is not sent before the answer came. Deadlines are
compared only with those of earlier publications, so a render that gives up before its turn
comes has nobody unfinished before it but an authority that is itself too late (`Passed`), which
will do nothing with its turn; that no viewport is among them is because the reader begins one
request at a time (`OneReader`). One lemma says what replacing one
publication keeps (`QueueSet`, and from it `PhaseStep`, `CallStep`, `FinishingStep`, `FailStep`,
`EngagedStep`, `IdleStep`), one what beginning another does (`QueueAppend`); each action has one of its
own (`...Safe`). Unmounting keeps the calls from outliving the document because what is
not `Outstanding`, with a quarantine that only a finalization left, is not `Engaged` either.

**`FileDispatch_proofs`**: `DispatchQueuesSound`, `DispatchStrandsNothing`,
`DispatchImplementsCounters`, `DispatchCorrect`, `DispatchTypeCorrect`. None of the
invariants that `dispatch` checks is inductive. That a queue holds only jobs whose
reservations are queued fails if a pump answers a job that still waits, or if two
pumps answer the same one, so the inductive invariant

    DispatchInv == TypeOK /\ CountersExact /\ TokensAreOwned /\ ReservationsLive
                     /\ RotationIsComplete /\ HandleIsExclusive

follows every reservation to the one place that will drop its completion token:
a queue, one round of one pump of one thread (`RoundsHold`, `RoundsApart`), or a running
job. Pumps nest, so a thread is a stack of rounds of any depth: `StayApart` states
once what a change of one stack keeps, whether its innermost round is replaced, left, or a
new one begins inside it. `CountersExact` says that every counter is the number of
the reservations it counts; that no counter underflows follows from the finiteness of
sets. `ReservationsLive` (a session with a reservation is in the table) is what
makes a revoked job's session closing, not gone, which the manager's specification
demands, and what makes opening an entry again strand nothing. `NoStrandedJob` is preserved together with
`DispatchInv`: only a round that found nothing ends a pump, and since the rotation
lists every session that has a queue, it found nothing because there was nothing.
The refinement maps enqueue to `QueueJob`, a round that serves to `SelectJob`, the two
drops of a token to `SettleRevoked` and `SettleSelected`, and every other step to a
stutter.

**`PdfAssembly_proofs`**: `LedgerTypes`, `LedgerHolds`, `NobodyIsBypassed`,
`LedgerImplementsShadow`. The inductive invariant is a predicate
of the ledger as a value, since a call changes it in several steps,

    LedgerInv == Sound(Ledger) /\ Exact(Ledger)

and each function a call is composed of (`Put`, `Grant`, `PruneClosed`, `PumpOnce`, `Pump`, `Finished`,
the destruction of a window) has a lemma that it maps such ledgers to such ledgers. `Promise`, the part about one
document, strengthens the property by `active.id = last`: it is the last
lease whose release has to be remembered, so a release must not meet an older one. The charge is a sum the model takes from
the library's fold; `OwedAfter` says that replacing one document changes it by the
difference of their bytes, in whatever order the fold takes the documents, and `OwedCovers`, which
follows from it, that giving a lease back does not underflow. The rounds of the pump and the
documents of a window are recursive functions of any length.

What a call does to the queue is a relation between two ledgers that composes over these
steps: `Serving` says that the queue that is left is in the order it was in (`Embeds`), and that
a document which got a lease was ahead of all that go on waiting (`InTurn`). It needs
`Lined`: the documents that wait are those in the queue, each of them once. `NoBypass` follows for
a call that serves any number of documents.

The refinement maps a ledger to what the manager sees of it (`Views`), and has one lemma
per step of a call about that: the pump promotes waiting documents, `PruneClosed` forgets finished ones, and
the two commute. That a request never waits for nobody rests on `Tidy`: if the queue is not empty somebody
holds a lease (`Held`), since any single request fits the budget and a charge has a holder; and what
has been closed is there and finished (`Remembered`), so what a call has just finished is
the newest entry and is not forgotten at once. The exception is the end of a window with more documents
than `MaxClosed`, which `AssemblyShadow` allows: `DiscardDocuments` may forget what it finishes.
The theorems of `PdfSession` are about the manager together with `AssemblyShadow`: what they
assume of the ledger is what it does.

**`KeySequence_proofs`**: `KeysHold`. The handlers are again functions of a state, and
the invariant is

    KeysInv == alive \in BOOLEAN /\ Orderly(State) /\ Pending(State)

`Pending` relates the prefix to what was really typed: if the router's owner still has the
input, the prefix is a suffix of the keys pressed under that owner, and if there was a pause in it its deadline has
passed, so that the next key expires the prefix before it extends it. It says nothing of a prefix whose owner has
lost the input, which is stale until the router notices; that the timer of a past epoch
does nothing (`Timed`) and that a former owner does not return unseen is what keeps it
from being used. The trie accepts a table if no two bindings have the same keys in a
context they share, so what a prefix resolves to is one binding. A key dispatches a binding only
if nothing longer begins with it; the accelerators of the history are dispatched
before the trie, so that part of the property is not about them.

**`PdfReader_proofs`**: `ReaderTyped`, `ReaderClosesInOrder`, `ReaderForgetsNothing`,
`ReaderAwaitsPassword`. The invariant has a part about each document, each call, and the stage of
the calls,

    ReaderInv == Shape /\ CallsOK /\ (\A d \in Doc : DocInv(d))
                    /\ (\A p \in {"open", "dispose"} : ListsOK(p)) /\ OpenStage /\ DisposeStage

The order of the teardown cannot be proved of the candidate alone, since a native session is
also torn down without one: by an open that ends before anything is loaded, and by every later
open or disposal that retries `pendingCleanups`. `Spent` says when that is harmless (nothing was loaded from
the session and nothing will be, or its candidate has come to its last phase), it is what a list of
cleanups promises of its members (`ListsOK`), and it lasts: that `Spent(d)` is never undone (`Keeps`) is what makes
the lists, which are copies, usable when they are stale. That work does not begin again after a
phase began (`Begun(c) => Settled(c)`) is what makes the phases, which are joined and not
restarted by later disposals, trustworthy; a first page that settles late, an overlay whose removal was
rejected and forgiven, and a print that starts on the current document are the
steps that could break it. `Listed` is the property that nothing is forgotten with what it
needs: a stopped disposal is on a list, and whoever was retried from a quarantine list was closed or
could not take its overlay down (`MayRetry`).
Most steps concern one document. `SettleStep` proves once that what settles by itself (`Tame`) leaves
the calls right, `WithdrawStep` that giving a document up does, `Compose` that documents which
stand by (`Bystands`) need no argument; each action then has a lemma about the one candidate it changes.

Lemmas the dispatcher and the ledger both need stand at the head of their modules:
`LeastNumber` (a non-empty set of numbers has a least one) comes from the library's
well-foundedness of `<`; `NumbersInduction` states induction of a set instead of an
operator, which the provers can use; with it `KeptElements` is proved of the
recursive function `Kept` for sequences of any length.

**`PdfSearch_proofs`**: `SearchIsAlwaysTrue`. The four parts of `SearchIsTrue` are about what the user sees,
and only the last is preserved by itself. The invariant

    IInv == SearchTypeOK /\ OneHolder /\ PendingIsRead /\ ReadSoFar /\ Kept /\ LandingIsLive
              /\ FailureHasARead

says what the code relies on without writing it down. `OneHolder`: `activeSearchSettlement` is always
that of the run that reads, whichever query it belongs to, and all others wait. `ReadSoFar`: what the latest run
has found is, at each of its awaits, exactly the matches of the pages before, and while it goes on the tab is
shown; so a search that was hidden cannot add to the results of its successor. `Kept`: the results of a hidden
tab may be missing only if the tab knows it, because it was evicted or its search was interrupted.
`Suspend` keeps that because a search which holds nothing, at the moment the tab is hidden, is no search under way
(`HandedOver`). `LandingIsLive`: a landing of the latest search
names one of its results and the tab is shown, since hiding it makes every landing stale.
Runs end and go on in many actions; `RunEnds` and `RunGoes` say once what that keeps. The lemma `FailureHolds`
shows that an abandoned read always holds the extractor: `searchCleanupFailure` is cleared in the
same turn (`finishSearchOwnership`) in which the settlement that a new search awaits is resolved,
so that the refusal at `PdfContentController.ts:1196-1200` is never given.

**`PdfTabView_proofs`**: `ViewTyped`, `ScrollIsAwaited`, `ViewIsPresented`, `ZoomIsAnsweredTruly`, the type
invariant and the three properties of the `view` run, for any number of concurrent renderings; and of
the arithmetic, `EmptySummary` and `SummaryIsExact`: the keys typed during a
rendering are kept as a summary of constant size, and appending a
step to it commutes with applying and clamping it, for all scales, bounds and steps. That is the step of the
induction over any number of keys, which `ZoomIsAnsweredTruly` then needs. The invariant is

    IInv == Good(Now) /\ events \in 0..MaxEvents
    Good(s) == s \in States /\ Sound(s) /\ DeferredIsAwaited(s) /\ Told(s)
    Sound(s) == Owners(s) /\ (Fine(s) => Presentation(s) /\ Answers(s))

over the record `Now` of all variables. `DeferredIsAwaited` and `Told` are two of the properties; neither they nor
`PresentationIsSound` are inductive. `Owners` says who may be at work (the wheel or the
keyboard, an owner whose rendering has not ended), always; the rest holds while nothing that the
properties except has happened. `Presentation`: one rendering at a time (`Alone`); at each stage of a
wheel zoom the scale that is shown is the one it would go back to (`Displayed`); what is wanted was
committed, or it is on the way and can be rolled back, or the presentation is dirty (`Wanted`);
and a rendering, at each of its awaits, asks for what is wanted or knows that it was committed (`Rendering`).
`Answers` relates the keys to their summary: as long as the keyboard's rendering may succeed, what the keys typed
make of a scale is what the summary makes of the scale that is being rendered (`Typing`), which for
Fit Page must be the scale of the size the rendering has measured (`FittingPage`).
TLC checked each part on the instance of the run before it was proved. The proof mirrors
the model: because handlers are functions of a state, each has a lemma about what it changes
(`AppliedFrom`, `ShownFrom`, `BegunFrom`, ...) and one that it takes a good state to a good one
(`...IsGood`), for any state; the actions (`...Lands`) apply them to the present one.

**Out of the prover's reach**, and so only model-checked: liveness
(`DestroyedIsDisposed`, `CommandsReturn`, `WaitingIsServed`,
`ProgressIsMade`, `LateCleanupCompletes`, `ServicesEnd`), since they need fairness and ENABLED; and what
`SelectSeq` and the folds over sequences compute, since they take operators. The fold of
`PdfAssembly` is over a set and unfolds to a recursive function, which can be proved about.
**Not proved**: the other safety properties (`RegistryAgrees`, `DisplayIsConsistent`,
`TransactionIsSound`, `NothingIsLeft`, `ReportsAreTrue`, `CreditCoversBuffer`, `OutcomesAgree`); see
the plan.

## 5. Not modelled

`PROJECT.json` gives a reason for each component.

- **Not this program**: PDF.js and its viewer (`public/assets`), generated schemas.
- **Presentation and tables**: `ui/*`, menus, catalogues, themes, the tables of
  actions and key bindings, the state published to the shell. They hold what to show, and what
  they show of the documents is decided in the modelled classes.
- **Pure text and arithmetic**: configuration text, paths, version numbers, page
  ranges, destinations, geometry and anchors, the sizes of a canvas. Unit tests
  and, for arithmetic on reals, other tools reach these better than a model checker.
- **Persistence, theme, recent documents, configuration**: files behind a lock. The
  hazards are listed; the model of a file system that fails between two steps is
  left for later.
- **The thread of external links, the open dialog's message loop, the permits of
  the command gates**: native hazards listed without a property. `PdfSession`
  abstracts the launch of a link to a unit of work that ends.
- **Diagnostics** may lose events by design. **Tools** under `tools/` test and
  build the program.

The map covers about an eighth of the lines of JavaScript and TypeScript, and
about half of the native lines of the modelled components. More than half of the
former are the vendored viewer and the tools; of the renderer's own lines,
what is left is mostly the presentation and the tables above, and the parts of the large classes
that compute geometry, decode answers and publish state. Mapping them would mean
models that assert nothing.

Inside the modelled components: the sections of section 2 say what each
leaves out. The supervisor in `main.ts` that retries the teardown of removed tabs
is represented by the repeated `dispose()` of `PdfReader`.

## 6. Plan

Done, in this order: `PdfSession` with its shadows and proofs, because it owns the
handles; `PdfAssembly` and `FileDispatch`, which it calls; `Workspace`, where
native answers meet the user; `NavigationHistory` with proofs; then the reader of a tab
(`PdfReader`, `PdfViewport`, `LinkRegistry`, `PdfSearch`), printing, range assembly and
open requests, each with both sides of its boundary; the keyboard (`KeySequence`);
the view of a tab (`PdfTabView`) with proofs. What is left, most useful first:

| Module | Source | Properties |
|---|---|---|
| `ExternalLinks` | `external_link.rs` | a link is opened, or its caller learns that it was not; shutdown while starting |
| `Persistence` | `persistence/*`, `state.rs`, `theme_state.rs`, `recent.rs`, `config.rs` | no lost update, memory against disk after a fault at each step |
| `Quit` | `lib.rs` | composes windows, sessions, prints: cleanup is claimed once, exit reports what is left |
| `OpenDialog` | `open_dialog.rs` | a nested message loop whose owner is destroyed |

Theorems to come: `RegistryAgrees`, which adds the contents of the native registry to
`LinkInv`, and `CreditCoversBuffer` for
`PdfRangeAssembly`, whose invariant can use `LedgerHolds`. Every module is written without
RECURSIVE operators so that it can be proved about.
