# ShellOrchestra in TLA+

ShellOrchestra is a self-hosted console for fleets of servers: a browser application shows one virtual desktop
per managed server (terminals, file manager, tunnels, scripts), a backend answers it, a worker process keeps the
SSH connections, and a signer process keeps the key that opens them. This directory models the parts of it whose
correctness depends on the order of events, checks them with TLC and proves the most important results with
TLAPS. Paths below are relative to `src/backend/internal/` unless they start with `frontend/`.

## 1. The system

### Parts and how they interact

```
 browser (frontend/src)                 any number of approved devices; polls and saves desktops
    |  HTTPS + signed requests
 gateway/ -> httpapi/ (backend)         handlers, schedulers, tunnels, uploads
    |            |        \ store/      SQLite: servers, statuses, desktops, runs, devices (shared by all processes)
    |            |         \ auditlog/, fileversion/
    | internal HTTP
 worker/ (ssh-worker)                   connection manager, terminals (tmux), periodic scripts
    |  in process
 runtime/ (SSHRuntime, transport pools)  managed clients, pooled transports   --> SSH targets
    | internal HTTP
 casigner/ (signer)                     the key authority: locked or unlocked, signs certificates
```

| Component | State it keeps | Operations | What is hard | What makes it correct | Modelled |
|---|---|---|---|---|---|
| **Transport pool** `runtime/sshpool.go` 1430-1978 | per server: listed transports with a count of channels and a learned limit, dials in progress | `acquire`, dial, `release`, retry, `Close` | the mutex is given up around every blocking call; targets refuse channels; connections drop; `Close` at any point | exact books, the budget, no connection without an owner, no command run twice after it had an effect | `SSHTransportPool` |
| **SSH runtime and access lock** `runtime/sshpool.go` 200-960, `worker/worker.go` 207-226, `casigner/` lock and sign | one managed client per server; the signer's lock | `Connect`, `KeepAlive`, `Disconnect`, `Lock`, lock handler | snapshots used seconds later, probes and dials outside of the mutex, a lock during a connect, jump servers | no client overwritten or leaked, only a failed client is dropped, locking ends access | `SSHRuntime`, `ManagedLinks` |
| **Connection manager** `worker/worker.go` 1390-1840 | generation, entry per server (state, retry time, blocked profile), in-flight flags | `Start`, `Stop`, sweep, attempt goroutine, probe, `MarkAllLocked` | goroutines of an old generation live on, decisions are published later than they are taken, servers are edited or deleted meanwhile | a flag never outlives its attempt, one attempt per server, the status shown is the state, every lost server is retried | `ConnectionManager` |
| **Virtual desktop sync** `frontend/src/pages/VirtualDesktopPage.tsx`, `httpapi/app.go` 5600-5715, `store/sqlite.go` 2660-2820, 3155-3215 | windows and revision of a server; on every device base, cache, pending count | open, close, change, save, merge, poll, reset at start | saves are sent without waiting for each other, polls and responses overtake each other, the worker restarts | nothing opened is lost, an old save never wins, devices come to agree, terminals end with their window | `VirtualDesktop` |
| **Terminal stream** `worker/terminal.go` 449-645, 930-1102, `worker/terminal_render.go`, `frontend/src/pages/TerminalFramePage.tsx` | pane, session size, rendered revision, a channel per subscriber; on the page the size, the wish for a size, the revision shown | capture, build, broadcast, attach, serve; fit, redraw, show or refuse a frame or patch | captures of several goroutines, resizes under way, a channel that overflows, a page that is loaded again | a revision on the screen is what was sent under it; when all is quiet the last screen has arrived in the right size | `TerminalStream` |
| **Remote editor** `frontend/src/desktop/apps/editor/EditorApp.tsx`, `httpapi/app.go` 6090-6190 | a cached document; per window draft, baseline, version on display, save | open, type, save with history, read back, reload, open a version | windows share the cache, saves overlap, steps of a save fail one by one | no replaced text is missing from the history, an old version is never written back unasked | `RemoteEditor` |
| **Edit Sudo** `frontend/.../SudoEditorApp.tsx` | draft, selected file, verdict, dialog | select, type, validate, confirm, write | three round trips while the operator goes on | only what was validated and confirmed for a file is written to it | `SudoEditor` |
| **Add-server wizard** `frontend/src/pages/servers/AddServerWizardDialog.tsx` | fields, results of tests, facts, host key | edit, test, detect, save, reset | answers of withdrawn questions still run their callbacks | a server is stored with the results of its own address and login | `AddServerWizard` |
| **Batch script page** `frontend/src/global-apps/batch-script/BatchScriptManagerPage.tsx` | list, draft, preview, one operation | edit, preview, create, duplicate, save, delete, load | previews overtake each other, another device writes | the preview shown is the draft's, a save costs no edit | `BatchScriptPage` |
| **Batch runs** `httpapi/batch_script_scheduler.go`, `httpapi/app.go` 4640-4770, `store/sqlite.go` 3680-4060, `worker/worker.go` | runs with targets, what the schedule has seen | start by hand or schedule, dispatch, give up, execute, store a result, recompute, prune, restart | three statements between which others store; timeouts of accepted dispatches; crash of the worker | a run is over only when its targets had results, a schedule does not overlap itself, runs that nothing disturbed end | `BatchRuns` |
| **Desktop windows** `frontend/src/pages/VirtualDesktopPage.tsx`, `windowManager` | stack, focus, terminals being opened, guards | open, focus, minimise, close, restore, take over a stack | sessions that answer late, stacks that arrive from outside | what has the focus is the visible window on top | `DesktopWindows` |
| **File manager** `frontend/src/desktop/apps/file-manager/FileManagerApp.tsx` | listing query per place, operations, one dialog, one clipboard | navigate, create, rename, move, upload, refresh | reads under way when an operation finishes, operations that overlap | a listing is never older than what was promised, an editor opens only what was created | `FileListing` |
| Terminal sessions, key authority, device trust, SSH tunnels, periodic scripts, file transfers, backups | sessions and slots; authority row and seed; requests and shares; listeners; running flags; uploads; runs | create, close, unlock, approve, start, publish, finish | see section 6 | see section 6 | no (the signer's lock is in `SSHRuntime`) |
| Audit log, file versions | hash chain; encrypted versions | append, verify; save, read | each operation is one transaction | - | no: sequential |
| Updater, releases, vulnerability scanner | one running flag each | start, run | external downloads and scripts | one job at a time | no: one guard |
| Gateway, static server, desktop applications, script catalogue, content viewers, SSH configuration import, speed test, feedback, configuration, other pages, installers, desktop client | none across calls, or parsing and display of data | - | - | - | no |

`PROJECT.json` lists the same components with their sources and, under "hazards", the places of the code that we
found hard to test, at their lines, also those of components that are not modelled.

### How the modelled components are composed

`ConnectionManager` calls the runtime. It does so through `ManagedLinks`, which says what a caller may rely on:
which servers are connected, and that one `Connect` at a time, admitted while the signer was unlocked, can add the
one server it was called for. `SSHRuntime` is shown to implement `ManagedLinks` (checked by TLC and proved), so
the manager is checked against every behaviour of the runtime without its client map. The pool is the second
kind of connection of the same file: the lock handler closes it with the action `Close` of `SSHTransportPool`.
`VirtualDesktop` touches the worker only in its restart and in the terminals a save ends.

The other eight parts share no state with each other that a property of theirs could see: each talks to its own rows,
files or sockets. `MCParts` therefore puts them side by side: a behaviour follows one of them (`area`) while the others
rest, so that one run checks all eight and their states add up. The view `Moving` lets TLC tell states apart by the
variables of the moving part alone; those of the others keep the one value that they have at first, so nothing is merged.

## 2. Modules

Names of the code are kept where possible. An action is one critical section of the code, or one statement where
the code has no lock; blocking calls (dial, probe, close, HTTP, SQL) separate the actions.

### SSHTransportPool

`listed`, `active`, `limit`, `retired`, `opening`, `closed` and `nextID` are the fields of `sshTransportPool` and
`sshTransport`; `pc`, `op`, `held`, `result`, `attempt` are the local variables of a caller of `Shell`,
`RunStream` or `Dial`. `AcquireReuse`, `AcquireOpen`, `AcquireFail` and `AcquireGiveUp` are the exits of `acquire`;
`DialSucceed` and `DialFail` its second critical section; `Release` and `CloseClient` are `release` before and
after the mutex is given up. Errors are abstracted to what `release` and the retry loop ask of them: "refused",
"broken" or "done". The environment accepts or refuses channels, drops connections, and ends operations.

### SSHRuntime and ManagedLinks

`clients` is `r.clients`, `connectMu` its mutex, `link` the TCP connection under a client. `Enter` to `Store` are
`Connect`; `BeginKeepAlive`, `ProbeAnswered`, `ProbeFailed` are `KeepAlive` and the probe inside `Connect`;
`Take`, `Close`, `Closed` are `Disconnect` and `Lock`; `Seal` is the call to the signer at the end of the lock
handler. A server in `LocalKey` has a key that signs without the signer, and `Jump` gives the server to dial through.

### ConnectionManager

A generation is one `Start`. `loop[n]` is where the goroutine of generation `n` stands, `apc[a]` where an attempt
stands. `Nothing`, `Recover`, `Lost`, `Probe`, `NoJump`, `JumpDown`, `RecoverJump` and `BeginConnect` are the
branches of `manageServer` in the order of its guards; `Announce` to `Finish` are `connect`. Retry times are a flag,
`waiting`, that `RetryTime` clears. `LockStop` to `LockMark` are the handler that locks access.

### VirtualDesktop

`wins` and `rev` are the two tables, `save[d][i]` the i-th PUT of a device with its handler, `poll[d]` its GET.
`Note`, `Commit`/`Refuse`, `ReadWindows`, `Respond` are the handler's statements; `OnSaved`, `OnSuperseded`,
`OnConflict`, `OnError` the callbacks of the page, with the effect that follows them (`Settle`); `ResetFind`,
`ResetWindows`, `ResetRevision` the statements of the reset when the worker starts. A window's layout is one of two
values, which is enough for `desktopWindowEqual` to tell changes apart.

### TerminalStream

`pane` is tmux, `sessionSize` and `resizeSeq` the session, `rendered` the renderer's state. A goroutine captures in the
steps of the code, each of which others may enter between: measure, capture, build a message (where the revision is
given), broadcast. `subscriber`, `inbox`, `outbox` and `sock` are one socket with its bounded channel; a full channel
drops the subscriber. On the page, `FitPage`, `RedrawTimer` and `Expire` are its timers, `RefuseFrame`, `BlankFrame`,
`ShowFrame`, `RefusePatch` and `ShowPatch` the branches of `onmessage`. The screen is abstracted to the number of the
output it shows, or `Mixed` when rows of one screen were drawn into another.

### RemoteEditor and SudoEditor

A text is the set of what was typed into it (and the file that it came from), which is enough to tell which text
overwrote which. In `RemoteEditor` a save goes through `StoreBefore`, `UploadText`, `StoreAfter` and `ReadBack`, each of
which may fail as in the handler; `replaced` and `troubled` are history. In `SudoEditor` requests that were sent go on
after the window forgot them, as mutations of react-query do; `confirmed` and `passed` record what the operator and the
validator have agreed to.

### AddServerWizard and BatchScriptPage

In the wizard a call remembers the fields that it was asked about; `Withdraw` detaches tests and drops results,
but the answers of detached calls still set the host key and the facts, as the callbacks in the code do, and `lateAnswer`
records it. On the batch page a content is a number; every edit makes a new one, and previews name the content
they were asked for. `saving` shuts fields and buttons until the read after an operation has been answered.

### BatchRuns

A task is one goroutine or execution of one target. `StoreResult`, `ListTargets` and `WriteRunState` are the three
statements that follow a result; between them others store theirs. `GiveUp` is the timeout of a dispatch that the
worker may nevertheless have accepted, `Restart` the end of the worker, `SelectOld` and `DeleteOld` the retention.

### DesktopWindows

The stack is a sequence, the last window on top. Every handler that opens, raises, minimises, closes or replaces windows
is an action with the focus that it leaves; a terminal is asked for and appears when its session answers.

### FileListing

A directory is counted by its changes; `listing` and `fetch` are the query's cache and its read under way. A read that
is asked for joins one under way, except when the page refetches, which gives up the old one. `promised` records how
recent the listing must be after an operation or a refresh. All operations share one mutation, of which only the newest
is observed, and one reference `toOpen` to the file that an editor shall open.

## 3. Runs

All runs finish within three minutes on two cores. "Violation" runs show a statement of the repository that the code does not keep.

| Run | Instance | Question and result |
|---|---|---|
| `pool_safety` | 3 callers, all operations, 2 transports with 2 channels, 1 session per connection, 2 dials | Are the counts exact, does every connection have an owner, is no command replayed after an effect, does the pool keep its budget, and does a refusal leave the others alone? Yes. |
| `pool_liveness` | 2 callers, 1 channel | After `Close`, do all connections end and all callers return? Yes. |
| `pool_reuse` | 2 terminals | "The pool reuses a transport while it still accepts channels": **violated**, closing one window cuts the other. |
| `runtime_safety` | 3 goroutines, a direct and a chained server, 3 clients | Is the slot still free when `Connect` stores, does only a failed client go, is nothing leaked, and does it all implement `ManagedLinks`? Yes. |
| `runtime_lock` | 2 goroutines, 1 server | "ShellOrchestra will not reconnect until server access is unlocked": **violated** by a `Connect` past signing. |
| `manager_safety` | 1 server, 2 generations, 2 attempts, locks, deletion | Does each flag have its attempt, is there one attempt per server, is the published status the state? Yes (the last two in a generation that began clean). |
| `manager_chain` | a target behind a shared, deletable jump server | Is a waiting target tried once its jump server is connected, also while the attempt that connected it hangs? Yes. |
| `manager_liveness` | 1 server, 2 generations, 1 edit | Is a lost server tried again, does an edit lift a block? Yes. |
| `manager_retry` | 1 server, 2 generations | "ShellOrchestra will retry this server": **violated**, it can be blocked as well. |
| `desktop_sync` | 2 devices, one polls, 2 changes, 2 windows, 1 fault | Is every opened window stored, do devices converge, does an old save never win, is the pending count exact, do terminals of removed windows end? Yes. |
| `desktop_merge` | the same without faults | "ShellOrchestra will merge the latest layout and retry": **violated** by a state read in two statements. |
| `parts_safety` | the eight parts of `MCParts`, one at a time | *Terminal:* is a revision shown what was sent under it, and does the last screen arrive in its size when all is quiet? *Editor:* is nothing that was replaced missing from the history, and is an old version never written back? *Sudo:* is only written what was cleared? *Wizard:* does what is stored belong together? *Batch page:* is the preview the draft's, does a save keep edits? *Batch runs:* has a run that is over had its results, is a quiet run over, does the schedule wait? *Windows:* is the focus on top? *Files:* is the listing as fresh as promised, does the editor open what was created? Yes. |

### Why the bounds are enough

*Pool.* A refusal that others must survive needs two holders and a third caller; two transports are the
least that let a retry go elsewhere; two dials let one transport be replaced while another is open. The
theorems cover every value of these constants.
*Runtime.* Three goroutines let a lock, a probe and a connect overlap; three clients let one server lose and regain a
client while the other keeps one; the chain covers the dial through a jump client. The theorems cover the rest.
*Manager.* Two generations are enough for one to interfere with the next; the third adds goroutines that all behave as
those of the first. Two attempts are what one server can have at once. The chain has no lock and one generation, the
single server has both, because the branches for jump servers do not depend on them. Within `MaxEdits` edits
a profile has that many versions.
*Desktop.* Two changes on one device race with each other, two on two devices conflict and merge. One fault is a failed
request at any step, or a reset at any step. The second device does not poll, as a page
in the background does not: a GET writes nothing, so a second poller would add interleavings and no new effect.

*Parts.* Terminal: one page, one background goroutine beside the reader of the socket, two sizes, a channel of one
message, one load and two sizes asked for; of one output, one resize and one failed capture at most two, from a pane
that has not the size of the page at first: a capture overtakes another, a channel overflows, a wish for a size meets
frames of the other. Editor: two windows, one key typed, two reads and two openings: a save of
each window overlaps with the other's. Sudo: two files, one key, two validations and one failure: a validation of one
draft answers while another is on display. Wizard: two addresses and logins, two requests at a time, two edits and one
reset: enough to edit away from a test and back. Batch page: one stored script and one example, three contents: two
edits with their previews. Batch runs: two servers, two runs, retention of one, two dispatches, one fault (a timeout or a
restart): two results of a run interleave, and a second run prunes the first. Windows: two applications and one terminal, at most one
terminal open. Files: one directory and one read-only place, two operations, one fault: an operation finishes
beside a read, and two overlap. The theorems cover every value of these constants, for every property of the run.

### Fairness

Only what the code's own scheduling does is assumed. The pool: a caller that can take a step inside the pool takes it,
a broken connection is noticed, `Close` goes through its list; nothing is assumed of dials, targets or sessions,
because `ssh.NewClientConn` has no deadline. The manager: its loop runs (a probe and a status write have timeouts) and
retry timers expire; attempts may hang for ever, and the liveness properties end in "an attempt is in flight" for that
reason. The desktop: requests of a device are carried out, polls of a visible page go on, a reset that began
goes on. Failed requests are counted by `errors`, and the properties that a failure excuses say so. The parts of
`MCParts` are checked for safety only; `QuietRunIsOver` and `SettledFits` state what holds once nothing is under way,
which needs no fairness.

## 4. Proofs

The `...Proofs` modules prove, for every value of the constants that satisfies the named
assumptions of the modules (finite callers, natural bounds, jump servers that exist):

* **Pool.** `PoolTypeCorrect`, `PoolStaysInBudget`, `PoolCountsAreExact`, `PoolLeaksNothing`, `PoolNeverReplays`,
  `PoolRefusalIsLocal`, `PoolRefusalFillsTransport`. The inductive invariant `PoolInv` joins the type invariant,
  `TransportBudget` and `Structure`: transports above `nextID` are untouched, a caller past `acquire` holds one that was
  added, and the list has no retired transport. Without `Structure` a `DialSucceed` could reuse an id that somebody
  holds, and the counts would not be preserved. The counts, the owners and `EffectsAreKnown` are inductive on top of it.
  Counting uses the finite-set theorems of the library: a step moves one caller into or out of `Holders(t)`.
* **Runtime.** `RuntimeTypeCorrect`, `RuntimeStoresIntoFreeSlots`, `RuntimeDropsOnlyTheFailed`,
  `RuntimeHandsOutNoClosingClient`, `RuntimeLeaksNothing`, and `RuntimeImplementsManagedLinks`, the refinement. The
  invariant `RuntimeInv` joins the type invariant, `Control` (who is in which part of which operation; exactly the
  holder of `connectMu` is inside `Connect`), `SlotIsKnown` (from the snapshot on, the slot of a connecting
  goroutine holds the snapshot or nothing, and after the probe nothing) and `Ownership` (clients in hand are not
  shared). `SlotIsKnown` is the heart: `Connect` looks at the slot outside of `r.mu` and stores seconds later, which is
  right only because every other `Connect` waits and all others only remove.

* **Manager.** `ManagerTypeCorrect`, `FlagsAreCleared`, `AttemptsAreApart`, `StatusFollowsState`. `ManagerInv` joins the
  type invariant, `HasServer` (without it a `Connect` could store a client for no server), `FlagHasAttempt`, and five
  parts that hold in a generation that began clean: `OnlyNewest`, `Claimed`, `AttemptOrder`, `SweepOrder`,
  `StatusOrder`. The last three say that nobody writes the state of a server between the moment a sweep or an
  attempt settles it and the moment it publishes it, which rests on the flag: the sweep passes a flagged server
  by, and takes a flag only where it finds none. `clean` is needed, as `manager_retry` shows.
* **Desktop.** `DesktopTypeCorrect`, `PendingCountIsExact`, `OldSavesAreRefused`. `Unsent` (numbers not given out are
  nobody's) makes the count inductive. For the order of saves, `NoFuture` (no known revision lies ahead of the
  store's), `OldIsPast` (what is older than the newest stored save and could still be committed is based on a passed
  revision) and `StoredIsDone` (a stored save never comes back as a conflict) are needed together: a commit makes
  all known revisions passed, and only a conflict of the newest save gets a present one.

* **Batch runs** (`BatchProofs`). `BatchRunsTypeOKAlways`, `FinishedRunsHadTheirResults`, `ScheduledRunsWait`,
  `RetentionKeepsResults`. `BatchRunsInv` joins the types with `NewIsUnused`, `TasksDiffer` (a target has one dispatch,
  and no execution before it is sent), `TargetsAreHad` and `ListsAreHad` (what is stored, or was listed, as a result was
  one), `OverIsHad` (runs that are over or gone have had all results) and `SeenIsHad` (so have the runs that a retention
  deletes and the one the schedule saw). The lists matter: a state is written from a list that may be old, and stays
  right only because a result, once had, is never taken back.
  `QuietRunsAreOver` (a run that nobody works on is over, in the state of its targets) needs two invariants more, which
  speak of what is still to come: `OpenIsAwaited` (a target without a result has a goroutine that will store one) and
  `StateFollows` (the state of a run is that of its targets, or a goroutine stands between storing a result and writing
  the state). The second is what the three separate statements after a result put at risk: two goroutines store, list
  and write in any order, and the state that is written last may come from the older list. Such a run is in
  `staleWrite`; the property leaves it out, as it leaves out the runs of which a restart ended a goroutine, because
  for these the code does not keep it.
* **Editors** (`FileProofs`). `OldVersionsStayRead`: an old version is only ever in windows without a baseline, so that no
  draft made of it can differ from one and be saved (`OldIsOnlyShown`). `ReplacedTextsAreKept`: the history and the saves
  that have just uploaded together hold every text a save replaced, and a save about to upload finds the present text
  among them (`HistoryInv`), because the other save that wrote meanwhile has its own text in that union.
  `OnlyClearedTextsAreWritten`, an action property: a validation that ends in a write was confirmed as sent, and a write
  that was sent was accepted too (`RequestsAreCleared`).
* **Pages** (`WindowProofs`, `BatchProofs`). `ServersBelongTogether` rests on `ResultsFit` (results on display are about
  the fields on display) and `CallsFit` (so are the tests that still count; a save holds what fits). `SavesKeepEdits`
  rests on `OneOperation` (an operation or the read after it is under way exactly when the page saves, never two) and
  `SavesHoldDraft` (during a save the draft is stored or being stored). `PreviewsFollowDraft` needs that a preview that
  is heard is of the draft.
* **Windows** (`WindowProofs`). `WindowsHaveTheirTypes`, `FocusStaysOnTop`. `WindowInv` joins the focus with `StackOK` (no
  window is listed twice; what is minimised or maximised is listed): removing one of two equal entries would leave a
  window that is thought closed. The lemmas say what a stack lists, and in which order, after a window was taken out of
  it, put on top, or the whole was replaced. The window on top of the visible ones exists because, of the visible
  windows, one has the least distance from the end (well-foundedness of `<` on the naturals, `LeastOf`).
* **Terminal** (`WindowProofs`). `TerminalTypeCorrect`, `PagesShowTheirRevision`, `SettledPagesFit`. `StreamInv` speaks of
  all messages in flight, built or in a channel, whatever their order: none is ahead of the renderer and one
  that is level with it carries its frame (`FramesOfRevision`), a patch leads from one revision to the next
  (`PatchesFollow`) and keeps the size of any message with the revision that it starts from (`PatchesFit`).
  `PageFollows` says the same of each page: it is not ahead of the renderer; what it shows at the renderer's
  revision is the renderer's text; and unless it waits for a size, nothing on the screen is mixed and each patch that
  it could take has the size of its xterm. That no order of messages is assumed is the point: captures
  overtake each other, and what protects a page are the numbers alone.
* **Files** (`FileProofs`). `ListingStaysFresh` needs that no answered read is older than promised (`ReadIsFresh`), as a
  refetch gives up the read under way. `EditorsOpenCreatedFiles` needs that the file waiting to be opened belongs to the
  only operation under way, while operations do not overlap (`FileIsAwaited`).
* **All parts** (`PartsProofs`). Each part's type invariant is a theorem: `TerminalTypeCorrect`, `EditorTypeCorrect`,
  `SudoTypeCorrect`, `WizardTypeCorrect`, `BatchTypeCorrect`, `BatchRunsTypeOKAlways`, `WindowsHaveTheirTypes`,
  `ListingTypeCorrect`. Where the type bounds a count by a constant, the proof needs the reason: a directory has changed as
  often at most as operations were carried out, which are finitely many (`ChangesAreCounted`); every content on the batch
  page is one that was made (`ContentsMade`), its draft is of the selected script (`DraftIsSelected`) and it saves for a
  reason (`SavingHasReason`); the calls of the wizard are about fields that were entered, and one test of a kind
  counts (`CallsAsked`, `OneCounts`).
  `PartsKeepTheirTypes` and `PartsKeepTheirPromises` carry all this over to the specification of the run, whose
  behaviours are behaviours of each part: a step of another part is a stuttering step of this one.

Theorems that state no property of a run directly: `PoolRefusalFillsTransport`, `RuntimeHandsOutNoClosingClient`,
`RetentionKeepsResults`, the type theorems of the single parts (the run has them as `PartsTypeOK`) and
`PartsKeepTheirPromises`, which gathers the other properties of `parts_safety`.

Every invariant and every safety property of a step that a run checks is proved. Only model-checked is liveness, because
fairness and ENABLED are beyond the prover: `ClosedPoolDrains`, `TargetFollowsJump`, `LostServerIsRetried`,
`EditLiftsBlock`, `OpenedIsStored`, `RemovedTerminalEnds`, `DevicesConverge`. That the models are worth their theorems is
also left to TLC: it shows on the small instances that every action can happen.

## 5. What the models show about the code

* Closing one terminal window ends every session on its transport (`runtime/sshpool.go:1830`, `1700`; run `pool_reuse`).
* A `Connect` past signing survives the lock (`runtime/sshpool.go:519`; run `runtime_lock`).
* A server can be announced as retrying and be blocked (`worker/worker.go:1700`, `1653`; run `manager_retry`).
* A poll may combine old windows with a new revision, and the save made from it deletes another device's window
  (`store/sqlite.go:2668`, `2702`; run `desktop_merge`).
The following were met while modelling; the models contain the behaviour, and no document promises otherwise, or
the promise is too loose to be a property.

* Pool and runtime: a learned limit is never raised again (`runtime/sshpool.go:1706`).
* Manager: a server deleted during a sweep may be connected after its entry was pruned (`worker/worker.go:1546`); an
  edit of host or user keeps the old client "connected" (1576); a restarted worker marks all servers locked (1382); an
  unrecognised failure blocks a server although the policy text says that only known failures do (1829, 1517).
* Desktop: a closed window comes back when the merge finds it unchanged on this device
  (`frontend/src/pages/VirtualDesktopPage.tsx:4341`); so does one opened and closed before its first save is answered. A
  window that another device closes takes its unsaved draft along without asking (386). Two terminals asked for at once both
  pass the limit (321). When a terminal turns out to be unavailable, the focused window is removed and no other gets the focus
  until the next step (804).
* Terminal: a resize may be undone by a snapshot that measured before it (`worker/terminal.go:1376`, 458); a blank screen
  with a pending wish for a size asks for redraws for as long as it lasts (`frontend/src/pages/TerminalFramePage.tsx:1423`); a
  failed capture drops the refresh it was taken for.
* Editor: reopening within 15 s of a save shows the cached text from before it; what is typed while a save is
  under way is dropped when it succeeds (`EditorApp.tsx:188`); a failure to store the new version is answered as an error
  although the file was replaced (`httpapi/app.go:6182`); a failure to read the old one is tolerated (6106).
* Sudo: selecting another file keeps the draft under the new path until its text arrives; Cancel after the confirmation
  does not stop the write.
* Wizard: the answer of a withdrawn test still sets the host key (156); facts may be those of former fields (166); the first
  edit of the label withdraws all tests (247); a failing detection is restarted for ever (237).
* Batch page: a slow first load replaces the draft of a new script (287); selecting, creating and deleting discard unsaved
  edits; a PUT carries no version, so that the last device wins.
* Batch runs: a run may go back from finished to running for a moment (`store/sqlite.go:4009`); after a restart a run stays
  "running" for good and holds its schedule back; a dispatch that timed out may still be executed.
* Files: on the way back to a place, a read begun before the operation may be joined (`FileManagerApp.tsx:571`);
  shortcuts reach operations in read-only places (1080, against 304); a failed upload does not refresh (614); a cut entry is
  forgotten when its move fails (944).

## 6. Not modelled

Of the modelled parts: channels that a cancelled `Dial` abandons, running commands over a managed client, the
detection of facts inside `connect`, the wallpaper, dragging (which holds a refresh back), the retry of a busy
database; keyboard input of terminals; the reading of large files in chunks; the history view of the sudo editor; imported
keys and setup commands of the wizard; the output of batch scripts and their retention by age; place and size of windows;
read-only places' own reads, previews, downloads and the progress of uploads.

Of the system, with the reason:

* *Terminal sessions* (creation, limit, closing): tmux is external and most of the state is its; the interleaving worth
  noting, a snapshot that stores a closed session again, is listed as a hazard.
* *Key authority, delivery of key shares, device trust*: what the server decides is one statement per request, the rest is
  cryptography. Two orders of events are listed as hazards: a share published under the epoch of a later status, and an
  approval that races with a denial.
* *SSH tunnels*: sockets and goroutines of the forwarder; the two races that lose a listener are listed as a hazard.
* *Periodic scripts*: what they write are facts and statuses that others overwrite; the entry that a late job finishes into
  is listed as a hazard.
* *File transfers*: streams of data; the second `finish` is listed as a hazard.
* *Backups*: the schedule of `BatchRuns` with fewer states.
* The components marked "no" in the table: sequential, parsing and display of data, or one guard around an external program.

## 7. What could follow

`parts_safety` is the place where a further small part would go; the terminal's stream, the largest of its parts, would
move to a run of its own first. Of the above, the tunnels (every open listener can be stopped) and the sessions of
terminals (a closed session stays closed, which the code does not keep) would be the next modules.
