# orpheus-mattermost in TLA+

orpheus-mattermost answers Mattermost threads with Orpheus agent runs. It keeps
no database: what was accepted is read back from Orpheus (sessions, runs,
message history with the connector's metadata), what was answered or rejected is
read back from receipts in the properties of the bot's own posts. Everything the
process holds in memory may be lost at any time, every request may fail, be
answered late or be answered twice, and users, Orpheus and the administrator go
on in between. The specifications here are about exactly that.

Paths are relative to `src/`; `engine.go` and `runtime.go` are in
`internal/service/`.

## 1. The system

| Component | State it keeps | Operations |
| --- | --- | --- |
| Admission: `engine.go` | one frozen input per thread (`pending`), gauges | `reconcile`, `submit`, `reject`, `transfer`, `accepted`, `active` |
| Conversation: `internal/conversation` | none; the types of a snapshot and an input | `Snapshot.Known`, `Session.Reusable`, `Key.Operation`, `buildMessages` |
| Orpheus client: `internal/orpheus/client.go` | event cursor per session | `Snapshot`, `Submit`, `Cancel`, `Run`, `Watch` |
| AgentBox access: `internal/agentbox/access.go` | none | `Prepare`: imports attachments into the sandbox of a live run |
| Publication: `engine.publish`, `internal/delivery` | the thread as last read | `Publish`, `publishOne`, `Rejected`, `NoticeExists`, `Parts` |
| Runtime: `runtime.go` | job queue, retries, active and unknown runs, epochs, watchers | `Run`, `work`, `scan`, `observe`, `reserve`, `event`, `hint` |
| Manager: `internal/service/manager.go` | one Runtime per connection, `Config` | `Init`, `Run`, `reload` |
| Mattermost client: `internal/mattermost/client.go` | none | `Thread`, `Posts`, `Create`, `File`, `Watch` |
| File protocol: `internal/sandbox/files.py` | files in the sandbox | `prepare-input` (the hook `before_run`), `import-input`, `export-output` (`after_run`) |
| Configuration: `internal/config` | none | `Load`, `validate`, `Groups`, `Route`, effective revisions |
| Command: `cmd/orpheus-mattermost/main.go` | none | `serve`: signals, the listener, the manager |
| Attachment types, metrics | none; counters | validation, HTTP handlers |

How they interact. `Runtime` owns the threads: events of the Mattermost socket,
the periodic scan, watchers of running sessions and the engine's own
notifications mark a thread's job dirty, and a bounded pool of workers runs one
pass per thread at a time. A pass (`work`) reads a snapshot from Orpheus, lets
`observe` count the runs that are active, and calls `Engine.reconcile`. That
reads the thread, publishes the answers of every run whose receipts are missing,
then retries the frozen input or freezes and submits the next batch; a new run
first asks `Runtime.reserve` for capacity. Attachments of a message for a run
that is already active go through `Access.Prepare` first; those of a run's first
message are imported by the `before_run` hook. A reload replaces the
configuration, cancels the passes that are under way and starts discovery over.
`serve` loads it on SIGHUP and hands it to the manager, which hands each runtime
its part, through channels of capacity one. Inside the sandbox the two hooks and
the import are processes of one program, `files.py`, that meet only in the files
and locks of the workspace.

What is hard here: a snapshot is several requests, so its parts are of different
instants; an answer that never came says nothing about the request; the state
that must survive a crash is spread over two servers; triggers are edited and
deleted while they wait; a run can end between any check and the request it
allowed; a reload changes what the frozen input means. `PROJECT.json` lists
these hazards line by line, with the properties that would catch them.

What makes each component correct:

- Admission: a trigger is accepted once and in order, never lost, never beside
  a request that may still succeed; a session holds one revision; a thread has
  one run at a time; input a completed run did not take is carried over once.
- Conversation: a thread is read whole, a trigger is said once and in its turn,
  nothing earlier is left out of a request unless it was told or an omission is
  announced, and a bare reference is to something the agent knows.
- Publication: every part of an answer is posted once, a conflict is reported
  and never papered over, attachments are posted once or a notice says so.
- Runtime: no wake-up is lost, no more runs than the limit, nothing admitted
  before discovery has found the runs that exist, every thread gets its turn.
- Manager: a reload reaches every connection or none, no channel has two owners,
  and nothing keeps the process from stopping.
- Incoming files: a manifest never names a file that is not there, a batch's
  request never changes, a run's index leads to every batch its session got.
- Outgoing files: a run is sealed once and whole, uploaded once, and all
  executions of the hook give one result.

## 2. Modules

| Module | Content |
| --- | --- |
| `Admission` | one thread's admission, with Orpheus and Mattermost as its environment |
| `MCAdmission`, `MCAdmission_*.cfg` | the instances TLC checks |
| `Scheduler` | several threads: the job queue, discovery and capacity of one source |
| `MCScheduler`, `MCScheduler_*.cfg` | the instances TLC checks |
| `Publication` | one run's messages and files in its thread: posts, receipts, uploads, repairs, notices |
| `MCPublication`, `MCPublication_delivery.cfg` | the instance TLC checks |
| `Intake` | what admission promises: inputs that are handed to an agent or come back |
| `InputFiles`, `MCInputFiles` | one session's incoming files: hooks, imports and the connector that asks for them |
| `OutputFiles`, `MCOutputFiles` | one run's outgoing files: the export hook and `hookOutput` |
| `Routing` | configurations: which are valid, how they are split, who owns a channel |
| `Manager`, `MCManager` | reload and shutdown: `serve`, `Manager`, the runtimes; composes `Routing` |
| `Context`, `MCContext` | one thread over its sessions: how it is read page by page, and what each request says of it |
| `Selection` | the algorithms that choose context and linked posts |
| `AdmissionProofs` | types, references between inputs, sessions and runs, one revision per session, attachments before their message; triggers are accepted once and in order, no request has a rival, `Intake` is implemented, which hands no post to an agent twice, quotas, one run at a time |
| `SchedulerProofs` | types, the limit, no sleeper while capacity is free, no trigger forgotten |
| `PublicationProofs` | types, no part is posted twice, all in its order, conflicts have a cause, and so has the word that files are missing |
| `ContextProofs` | types, a thread is read whole, only what was told is a reference, a trigger is answered in its turn and said once, nothing earlier is passed over |
| `ManagerProofs` | a reload is whole, the manager never waits, no channel has two owners |
| `InputFilesProofs`, `OutputFilesProofs` | batches are committed, frozen, whole when announced, never forgotten, never refused without damage; a run has one sealed result, of whole copies, uploaded once |
| `DataFacts` | lemmas on sequences and the least element, cited by several of them |

### Admission

The state, and what it stands for in the code:

| Variables | Code |
| --- | --- |
| `now`, `thread`, `receipts` | Mattermost: the clock (both servers' and the connector's: one clock), the live trigger posts at their current versions, the `input_rejected` notices with the versions and revision they name |
| `sessions`, `runs`, `msgs`, `delivered`, `rejected` | Orpheus: what `ListSessions`, `ListRuns` and `GetHistory` return for the thread's external key |
| `late` | requests whose caller has gone: a timeout, a reload or a crash |
| `prepared` | batches `Access.Prepare` imported into a run's sandbox |
| `rev`, `standing` | `EffectiveRevision` of the workflow and whether it routes this channel, drains, or does not own it |
| `frozen` | `Engine.pending[key]`, no input or one |
| `suspended` | `retry.Permanent` of the thread's job |
| `pc`, `at`, `snap`, `seen`, `readAt`, `reply` | locals of the pass under way: where it is, the snapshot, `Publisher.Posts`, the first clock reading, the answer of `Submit` |

A pass is cut where the code sends a request, because that is where others move:

    StartPass -> (ReadRuns -> ReadHistory)* -> ReadThread -> Publish -> [Refresh]
              -> Drain | Hold | Wait | RejectOversized
               | Resend or Freeze -> [Import -> Confirm] -> Serve (Orpheus)
              -> Receive | RejectRefused

`Revoke`, `Blocked` and `Denied` end a pass early; `Fail`, `Reload` and `Crash`
end it anywhere. Between two requests the code runs without interruption on data
it owns, so `Freeze`, for instance, is everything from the look at the frozen
input to the moment the request leaves: `accepted`, `targetLost`, `active`'s
run, `Rejected`, `BuildMessages`, `transfer`, the quota and `set`.

Data is abstracted to what the properties tell apart. A post is the instant it
was created at, so no two posts share an instant; a version is a number; text is
left out: a set of versions fits a request or does not (`Fits`), which stands
for the loop of `buildMessages` that halves the context and then drops triggers
from the end. A batch is a set of post versions. The idempotency key is the
tuple `Key.Operation` hashes. Context and links, which never decide what is
accepted, are the subject of `Context`, and so is a clarification that is
delivered in part: here a request is delivered or rejected as a whole, by the
delivery of its last message, which is the one `transfer` looks at. A carried
input keeps its identity either way (`engine.go:333-334`), and no post is handed
out twice either way: what was delivered is not sent again. A run's status
`limit` is `completed` with stop reason `token_limit`, `lost` is `failed` with
`sandbox_lost` or `context_lost`.

Some steps are coarser than the code or leave a case out:

- `Process` refuses new sessions only, for their revision (`BadRevs`). `request_too_large` and
  `environment_too_large`, which the client itself may answer
  (`internal/orpheus/client.go:303,374`), and `validation_error` of a message or
  a continued run (`engine.go:586`) are not modelled.
- `RejectRefused` publishes the receipt and clears the frozen input in one step.
  In `engine.go:586-594` a request may fail in between; the next pass then sends
  the input again and is refused again.
- `Reload` also stands for a channel that is left or joined, and resets
  `suspended`. A change of membership alone (`runtime.go:530-538`) makes the
  thread dirty and cancels its pass, but leaves the retry state as it is.

Assumed of the environment, and taken from what the client relies on:

- Orpheus handles a submission atomically, repeats its answer for an idempotency
  key it has seen with the same body, answers a conflict for another body,
  accepts a message only for a running run, and a new run only when the session
  has none.
- A run's first message is delivered when it starts; a clarification later, or
  it is rejected when the run ends.
- A request the connector no longer waits for is processed or lost before the
  connector's process is restarted and before the thread leaves the workflow's
  scope (`Stragglers = FALSE`). With `Stragglers = TRUE` `TriggerAcceptedOnce`
  fails: a request that survives the process that sent it is accepted after the
  new process, which has no frozen input, built another batch around a post
  whose anchor was deleted, or aimed it at another run. The code keeps no record
  from which it could know. The proofs do not need this assumption.
- One process reconciles the thread (`docs/CONFIGURATION.md`: "Run one connector
  replica per source with sequential replacement").

`Intake` says what all of this is for without requests, runs or sessions: an
input is a batch of posts, it is handed to an agent or it comes back, and what
came back, and only that, is taken again once, as the batch it was. `Admission`
implements it under the mapping `Inputs` (every message of the thread, `queued`
until it is delivered or rejected); TLC checks `KeepsPromise`, and
`HandsOnce` of `AdmissionProofs` shows what follows: no post is handed to an
agent twice.

### Scheduler

`Admission` follows one thread and takes capacity and the moment of a pass for
granted; `Scheduler` is where they come from. It takes the other side for
granted: a thread has one trigger at most, and a pass is the requests it sends
and what it tells the scheduler. The two are linked by `Wait` and `Submit`
(`Engine.Reserve`), by the ends of a pass (ok, error, permanent), and by the
jobs: that a thread with work left is polled is an assumption of `Admission`'s
liveness and the subject of `PendingWorkKept` and `EveryThreadSettles` here.

| Variables | Code |
| --- | --- |
| `trig`, `member` | Mattermost: the thread's trigger and its batch window, the bot's channels |
| `live`, `sess`, `owed`, `late` | Orpheus: active runs, sessions, ended runs without an answer, requests given up by their caller |
| `cfg`, `retired` | `Runtime.cfg`, `retired` |
| `jobs`, `dirty`, `waiting`, `permanent`, `backing` | the keys of `Runtime.jobs`; `Dirty`, `CapacityWait`, `Retry.Permanent`, `Retry.At` in the future |
| `cancelled`, `pass` | `Cancel` has been called; the pass a job is working on |
| `active`, `unknown` | `Runtime.active` (a thread has no more than one run), `unknown` |
| `pend`, `frozen`, `timers` | `Engine.inputQueue`, `pending`, `AfterFunc` timers |
| `known`, `digested`, `fresh`, `discovered` | `channels`, `digests` that match the posts, posts read by the scan and not changed since, `discovered` |
| `initialized`, `discovering`, `scanDue`, `scan`, `stale` | the same fields, `scanAt` at zero, locals of `scan`, an epoch that is over |

A pass goes `Dispatch -> Observe -> [CancelRun] | Rest [-> SetTimer] | Wait |
Submit -> Serve -> Receive -> Finish`, and `Fail`, `Denied` or, once cancelled,
`Abort` end it at a request. A scan goes `ScanStarts -> ListChannels ->
(ListSessions -> Register*)* -> SessionsKnown -> (ReadPosts -> Replay)* ->
ScanEnds`. Everything the code does under one hold of `Runtime.mu` is one action.
The time of polls is left out: a job may be dispatched whenever no retry delay
holds it back, which includes every schedule the poll interval allows.

Digests are compared, never looked into, so a thread is in `digested` or not: a
post, an answer or a receipt takes it out.

### Publication

`Admission` and `Scheduler` publish in one step that may fail; `Publication` is
that step, for one run of one thread.

| Variables | Code |
| --- | --- |
| `said`, `ended`, `export` | Orpheus: the messages in the run's history, its status, the output of a complete `after_run` hook |
| `posts` | Mattermost: the bot's posts with their receipts (`mid`, `part`, `fix`, `claims`), `FileIDs` (`held`), whether they exist and still have the text their receipt hashes |
| `files`, `late` | Mattermost: uploads and the post each is bound to; requests to create a post that the connector has given up |
| `pass` | locals of `publish`, `Publish` and `publishOne`, and `Publisher`: `Posts` (`seen`), `SkipAttachments` (`skip`) |
| `suspended` | `retry.Permanent` after `ErrConflict` |

A pass reads the run, its history and the thread, then goes through its agenda:
the posts `Engine.publish` would send, in its order. For each of them `Look` is
`find`; `Verify` asks for one file of a post that exists (`verified`); `Check`
and `Owner` are the requests before a post is created; `Create -> Serve ->
Receive` creates it. `Done`, `Mend` and `Missing` are the returns of `Publish`:
success, a repair post of its own for a file that is not bound, and `ErrUpload`,
after which `publish` posts the notice and sends the text without files. The
recursion of `Publish` is `pass.mode`. One action lies between any two requests,
so users and the server move between a check and what relies on it.

The final message is the last answer (`Final`). The code takes
`FinalMessageID`, which Orpheus may leave empty for a run with answers; files
then follow all of them in a post of their own (`engine.go:247`), which the model
has only for runs without any answer.

A text is a number of parts (where `Split` cuts it is left out); a hash either
matches the text of its post or an edit has broken it. Assumed of Mattermost: it
binds the files of a new post that are there and free, possibly only some of
them, and recognises the `pending_post_id` of a post created since the pass
read the thread. An older one need not be recognised; a request that is carried
out after its connection was given up finds the posts made since. That this
window is finite is documented (`docs/TESTING.md:80-84`): beyond it a text can be
posted twice. Permanent Mattermost errors (400, 404, 413), which also suspend a
thread, are `Admission`'s `Denied` and not repeated here.

### InputFiles

| Variables | Code |
| --- | --- |
| `runs`, `messages` | Orpheus: the session's runs with the request, previous index and delivered batches in their input, how far they are, whether `before_run` completed; clarifications with files and their delivery |
| `frozen` | `Engine.pending` for a clarification with files, and whether `Prepare` has succeeded |
| `request`, `manifest` | `input/batches/<anchor>/request.json` and `manifest.json` |
| `index`, `current` | `runs/<run>/input-index.json`, `current-run.json` |
| `data`, `cache` | `input/files/<file>`: the bytes (absent, as sent, or damaged) and `cache.json` |
| `procs` | the processes of `files.py`: one hook, several imports |

    hook:    HookOpens (request.json) -> (Keep | SaveData -> SaveCache | Unavailable)*
             -> HookManifest -> VerifyIndex | RefuseIndex -> WriteIndex -> WriteCurrent -> HookDone
    import:  ImportOpens -> (SaveData -> SaveCache | Unavailable)*
             -> ImportEnds -> ImportRequest -> ImportManifest -> ImportDone

Every write of a file is an action (each is a rename, so it happens or not), and
`Kill` may come before any of them. A request is the set of files it names; its
hash is the request. Locks are read off where processes are, because `flock`
ends with its process. A connector that gives up, crashes or restarts leaves its
import in the sandbox (`fed` becomes false): it goes on with what it was sent,
or its alarm ends it (`Expire`). `Submit` is the last check of `Prepare` and the
message; that the message itself may be lost or late is `Admission`'s subject.
The agent may damage any file of the workspace while its run is active; what it
damages is an earlier run's file, since it cannot run beside its own hook.

### OutputFiles

| Variables | Code |
| --- | --- |
| `outbox` | `output/<run>/outbox`: content of each file and the time a `stat` shows |
| `sealed`, `copies` | `sealed/manifest.json` (its hashes) and the bytes in `sealed/snapshot` |
| `manifest` | `upload-manifest.json`: its stage and file IDs |
| `uploads` | Mattermost: what each uploaded file holds |
| `hooks` | Orpheus: executions of `after_run`, their status, output and completeness |
| `procs` | the processes of these executions, which may linger after Orpheus gave them up |
| `touched` | no code: files written since the outbox was listed, for `SealFaithful` |

A file is read in two parts, twice, between two stats (`Visit`, `ReadRest`,
`Restat`, `ReadAgain`, `Copy`), and what the agent left running may write at any
point; a write shows in the stat unless it leaves size and time as they were
(`MaxQuick`). Removing the temporary copies after a failure is part of `Fail`:
nobody ever looks at them.

### Context and Selection

| Variables | Code |
| --- | --- |
| `now`, `thread` | Mattermost: the clock, and per post when it was created, its version, and whether it is still there |
| `history` | Orpheus: accepted inputs in order, with their `delivery` (`undelivered` is `rejected` with `run_finished_before_delivery` of a completed run), `TriggerIDs`, `ContextIDs`, `Versions`, the items of their text, and how many of these the agent has been given (`heard`) |
| `run`, `session` | Orpheus: how many there were, whether the last is active or `Reusable` |
| `refused` | the versions named by `input_rejected` notices |
| `pass` | locals of the pass under way: snapshot, posts read so far, cursor |

`StartPass` takes the snapshot, `ReadPage` is one request of `Client.Thread`, and
`EndPass` everything from there to the request: `transfer`, `buildMessages` or
`RebuildTransfer`, and `Submit` or `reject`. What happens between those requests
to the thread and to Orpheus is any order of the other actions. `Admission` has
the life of a request that fails or is late; here it takes effect or finds its
target closed.

A request is a sequence of items: a post in a version, with or without its text
(`thread_reference`), from the thread or by a link. Each item is an Orpheus
message with a delivery of its own, and the last one bears the envelope
(`Submit` of `internal/orpheus/client.go`). `Deliver` hands the agent one item,
the next of the oldest input that is not through, and `delivery` is that of the
last item. So a run may end when only the first items of a clarification were
given to its agent: `RestOf` is what `transfer` collects then, the rejected
messages up to the last (`engine.go:322-330`;
`TestTransferOmitsAlreadyDeliveredClarification`), while triggers, contexts and
versions of the envelope stay those of the whole. `Resend` sends that rest under
this envelope, and `Carried` puts fresh context before it that leaves out every
version no delivered envelope names (`context.go:276-284`), those of the items
that were given among them.

The clock stands still while a pass is under way (`Tick`). A post has one size,
which stands for `postCost` and for its rendering; texts, attachments and the limits
on the number of messages and files are left out. The two loops of
`buildMessages` try one attempt after the other and take the first that fits,
which is the `Largest` of those that do, and a plan is what distinguishes an
ordinary batch from a carried-over one. `thread` assumes that a reply sorts
after its root, which is there before it. In the code `postCost`
only estimates what a rendered post takes, so which posts fit together is not
exact here; that a request may have to be halved or cut is.

`Selection` is written with a recursive function (`Fill`) and a fold in place of
loops. `SelectionNearest`, an
assumption TLC evaluates, compares `linkedSelection` with what it is for: the
target, the root, and no selected post farther from the target than one that
was left out, for threads of up to 5 posts and limits of up to 6.

### Manager and Routing

| Variables | Code |
| --- | --- |
| `disk` | the workflow directory |
| `hup`, `reload`, `queue` | the channels: SIGHUP, `Manager.Reload`, one per connection |
| `main`, `manager`, `alive` | the main loop with what it has read, `Manager.Run`, runtimes that have not returned |
| `config`, `applied` | `Manager.Config`, each `Runtime`'s configuration |
| `stopping` | the context |
| `settled` | no code: the last signal came alone and nothing was edited since, for `ReloadArrives` |

A directory is listed, then read file by file (`TakeSignal`, `ReadFile`), while
the operator edits: what is loaded may be a directory that never existed, which
is why `Unambiguous` is about what runtimes apply and not about what operators
write. A workflow is its ID, connection, channel lists and flags; a file that
does not parse or breaks a limit of its own is `Bad`.

## 3. Runs

Three posts at most per thread, one message per post, at most three sessions.
Two posts make every pair of requests of one thread; the third is needed for
order (a batch shortened behind a rejected post) and for a clarification, a run
that ends without it, and a later trigger that competes with the carried-over
one.

| Run | Bounds | Shows |
| --- | --- | --- |
| `admission_faults` | 3 posts, 2 of them with attachments, quota 1, 2 revisions, in or out of scope; one each of: failed, denied (404) or late request, crash, reload | `TriggerAcceptedOnce`, `NoRival`, `FilesPrepared`, `AttachmentQuota`, `RevisionCoherent`; refinement of `Intake` |
| `admission_rotate` | 3 posts, 1 edit each, first version of the first post oversized, one trigger per request, window 1, one reload, in scope or draining, no late requests | `SingleActive`, `InOrder`, `TransferFirst` |
| `admission_liveness` | 2 posts, window 1, one fault, one crash, sessions become unusable, the second post may be deleted | `EveryTriggerAccounted`, `EveryDebtPaid` |
| `admission_refused_transfer` | 2 posts, 2 revisions, one refused | violates `RefusedTransferOnce` |
| `scheduler_capacity` | 2 threads of one workflow with one run, 2 workers, one reload (same workflows, or none) or one channel left; one thread starts with or without session, run and answer owed, the other's trigger is posted | `RunLimit`, `PendingWorkKept`, `NoIdleWaiter` |
| `scheduler_full` | one place in the queue, a thread with a session and one with a due trigger; one fault, late requests, the bot may leave a channel | `EveryThreadSettles` |
| `scheduler_rejoin` | the bot leaves a channel and joins it again | violates `PendingWorkKept` |
| `publication_delivery` | a progress message and an answer in two parts, none or two files; one of: a request that fails, is carried out late, or binds only some files; one of: a post deleted with or without its files, a post edited, an upload that disappears | `PartOnce`, `ConflictExplained`, `NoFalseAlarm`, `InOrder`, `EverythingDelivered` |
| `input_prepare` | 3 runs, 3 batches, 2 files, 2 imports beside the hook; two of: kill, failed download, give-up, restart, damage (at most one) | `BatchCommitted`, `NothingForgotten`, `RefusalExplained`, `RequestFrozen`, `ReadyIntact`, `HookEnds` |
| `context_requests` | 4 posts, three of them triggers, one too large for company; links into the thread and out of it; pages of two replies, window 1, one edit or deletion, 2 runs, 2 sessions | `ReadWhole`, `NotSwallowed`, `SaidOnce`, `ReferencesKnown`, `NothingPassedOver` |
| `output_export` | 3 executions, an outbox of 2 files and room for a third, 3 contents of which one is refused, 2 files allowed; one write, seen by a stat or not; three of: kill, give-up, failed or unanswered upload, spoiled copy, truncated result | `SealedWhole`, `SealFaithful`, `OneResult`, `UploadsAccounted`, `Exported` |
| `manager_reload` | 2 files, 2 connections and a third only the directory knows, 5 workflows that clash in every way, 2 edits, 2 signals | `AllOrNone`, `Unambiguous`, `ReloadArrives`, `Stops` |

For publication two parts make the order of parts and the place of the files
visible, two files a repair of one of them beside another, and a progress
message the order among messages. One fault and one change by a user already
meet at every pair of requests of two successive passes, since a pass keeps
nothing for the next.

The quota is 1 instead of 32: what matters is whether a clarification is counted
when it is delivered, rejected, or neither, and one of each reaches that.
For the scheduler two threads and a limit of one run are enough for every race
for capacity: one thread holds it, or may hold it, while the other asks. With
two places in the queue it never fills; one place (`scheduler_full`) makes
discovery wait for room, but then no two threads compete, so the runs are
separate. `scheduler_full` does not check deadlock: when the only place belongs
to a suspended thread, scan and dispatch do stop until a reload, and
`OutOfReach` says so in the property.
For incoming files the first run starts the session, the second has a batch of
its own and leaves a clarification, imported or not, delivered or not, to the
third; two faults let a kill meet what another left. Two imports are one that
lingers and one that repeats it. For outgoing files three executions are one
that fails, one that lingers and one that must succeed; the third name in the
outbox lets a file appear that makes one too many.

For requests the sizes are chosen so that every branch is taken: the large post
fits only alone, so batches are cut; carried into a new session it leaves no room
for the root, so the budget is halved until nothing else is left; the edited root
fits nowhere and is refused. Two runs are one that delivers some input and leaves a clarification, of which its agent was
given nothing or the first items, and one that carries the rest over in the same
session or a new one; it is the last within the bound and goes on. In a third
run a second clarification could be carried over after the first; the theorems
hold for any number of runs. All posts but the large one may be edited. Two
instants beside the first put a post inside and one beyond the window. Neighbours reach one post instead of three, and pages
hold two replies instead of 200, so that both have an edge in four posts. No post
of this instance is by the bot.

`MaxFaults`, `MaxCrashes`, `MaxChanges`, `MaxEdits`, `MaxTime`, `MaxRuns`,
`MaxDamage`, `MaxAttempts`, `MaxWrites`, `MaxQuick` and `MaxSignals` bound
counters in the guards of the environment's actions only. `admission_faults`
does not check deadlock: a thread Mattermost answered with 404 is suspended and,
with its reloads used up, really stops, and so does a thread whose quota is
spent until its run ends. The file modules, `Context` and `Manager` end: sessions, runs and
processes are over at some point. In the other runs the scheduler starts passes
forever.

The properties, and why they could fail, stand beside their definitions. Two
need more explanation:

- `NoRival` speaks of requests nobody waits for any more. Each of them is known
  to Orpheus already, can no longer succeed, or has the key of the frozen input.
  This is what "submit again until history proves otherwise" (`engine.go:403`)
  is for; `TriggerAcceptedOnce` alone would also hold by luck of the order.
- `SingleActive` holds when requests take effect before the connector stops
  waiting for them (`LateRequests = FALSE`, `admission_rotate`). With late
  requests it fails, see section 5.

`SealedWhole` is stated for up to two writes: a file that is written three times
while it is read twice, with its size and time unchanged, can look whole both
times although both copies mix two contents. TLC finds that with `MaxWrites = 3`
and `MaxQuick = 3`; with two writes, two of them quick, it finds nothing.

`ReloadArrives` needs its premise. A SIGHUP that is read while an earlier
configuration is still on its way is dropped with a warning (`main.go:121-125`,
`manager.go:119-123`), and so is the newer directory until the next signal.

What the scheduler's runs leave out on purpose, each a hazard in `PROJECT.json`:

- `LateCommits = TRUE` makes `RunLimit` fail: a run that starts after its request
  was given up and its thread observed again is not counted until the next pass.
- `SlowLookups = TRUE` makes `PendingWorkKept` fail: the window ends between the
  builder's clock and the setting of its timer (`engine.go:445-475`), no timer
  is set and the job is deleted. `EveryTriggerAccounted` of `Admission` holds
  because there every pass is followed by another.
- `MaxQueued = 1` makes `PendingWorkKept` fail: a timer that finds the queue full
  asks for a rescan, which skips the thread for its digest.

`ConflictExplained` lists everything that makes `publish` give up a thread. Two
of its causes are not interference with an answer. A user who deletes the notice
"Could not deliver the result attachments" makes the next pass look for the
files again, find the answer's receipt without them and suspend the thread
(`delivery.go:99`). And a post created after its request was given up and after
the next pass read the thread holds files that pass wants to attach: it takes
the connector's own post for a foreign one (`delivery.go:244`).

### Fairness

`Admission`'s `FairSpec` asks for weak fairness of the pass (the scheduler polls a thread with
work at `poll_interval`, and errors only delay it), of Orpheus' answers (an HTTP
request is answered or times out), of the clock, of the life of a run (it ends
at the latest by `run_timeout_seconds`), of late requests and of the restart. It
asks for strong fairness of `Freeze` and `Resend`: a pass that finds no capacity
ends as `Wait` or `Hold`, and `observe` marks every thread that waited
(`CapacityWait`) dirty whenever a run of the workflow ends, so a thread that
asks again and again is served. Faults, crashes and reloads are bounded, as any
liveness statement about them requires.

`Scheduler`'s `FairSpec` asks for weak fairness of the scan's steps and of a
pass's steps (goroutines run, requests are answered or time out), strong
fairness of the end of windows, runs and retry delays, and of a scan's start
(its interval passes). Dispatch is strongly fair: jobs are sorted by the end of
their last pass, so a job that is ready again and again gets its turn. `Submit`
is strongly fair: every waiting thread is woken when capacity is free, and the
order of dispatch puts the one that has waited longest first.

`Publication`'s `FairSpec` asks for weak fairness of the pass: its requests are
answered or fail, and a thread whose run has an unposted answer is reconciled
again (`Scheduler`). Late requests and the reset of a suspended thread are not
fair: they need not happen.

`InputFiles` asks for weak fairness of the hook's process, of each import except
where it waits for input nobody sends any more, and of its alarm
(`MM_IMPORT_TIMEOUT`). It asks nothing of the connector or the agent.
`OutputFiles` asks for weak fairness of each process: its requests have a timeout
of 30 s and everything else is local. `Manager` asks for weak fairness of the
main loop, the manager and each runtime's loop: goroutines run, and `select`
chooses fairly enough that a ready case is not passed over for ever.

`Calm = TRUE`, for `Scheduler`'s liveness only, keeps what may happen at any moment from
happening for ever: events come while the window is open, a scan nobody asked
for starts when the queue is at rest, and sessions are listed once. Without it
the behaviours TLC finds are those in which a scan restarts before a pass has
ended, again and again; in the code scans are at least a poll interval apart.

## 4. Proofs

All theorems hold for every value of the constants, under the assumptions the
modules name (the bounds are natural numbers, the markers `None`, `Torn`, `Bad`
are none of the values they stand beside, sets of files are finite where one is
counted or chosen by order); a theorem that needs a condition on the constants
states it, and it is named below. Each proof follows the same argument: an inductive
invariant, a step or a lemma per action, under it one step per conjunct the
action can disturb, and `PTL` for the last, temporal step.

**Admission** (`AdmissionProofs`, `Stragglers = TRUE` included): `TypeCorrect`,
`InputsRefer` (`Spec => []Refs`), `RevisionCoherence`. The invariant is
`TypeOK /\ Refs`. Types alone are not inductive: the snapshot's runs are
functions on indexes of `runs`, and a new input's target is computed from
messages, runs and sessions read at different instants. `Refs` says that every
run has a session, every message a run of the session it names, that session the
message's revision, and that every input under way (frozen or late) names an
existing session of its own revision and an existing run of that session. It is
preserved because Orpheus only appends and because each way to aim an input
checks the revision first: `Closed` for an active run, `Reusable` for a session,
and a new session takes the revision from the input. `FilesImported` has the
invariant that every request for a clarification with attachments that has left,
or is about to, has its import in the sandbox of its run.

**What becomes of inputs** (the second half of `AdmissionProofs`). The hard part of `Admission`
is that a snapshot is read in pieces while Orpheus moves on, and that a request
may still take effect while the next pass reads. The invariants are layers, each
checked with TLC on the three passing instances before it was proved:

- `OnceInv` gives `AcceptedOnce` and `WithoutRival`. An input is *settled* once
  it is known or can never be accepted, and that is for ever (`Forward`: Orpheus
  only appends, ends runs and spoils sessions). At most one input in hand is not
  settled, it shares no post with any message (`Hands`, `Unique`), and a snapshot
  may lack a message it should have only if that message is the frozen input, and
  then the pass does not take it for lost (`Unread`, `Missed`). So when nothing
  is kept the snapshot misses nothing (`NothingMissed`), and what is built from
  it has no rival. `Sound` says that what the snapshot calls ended or unusable
  still is.
- `PromiseInv` gives `PromiseKept`, the refinement of `Intake` step by step, and
  with `HandsOnce` below `PostsHandedOnce`: what an input carries over had come back with the same
  posts (`Links`, `Returned`), and a message that shares a post with a later one
  was carried over (`Chained`).
- `QuotaInv` gives `QuotaKept`: an unsettled clarification with files still has
  room in its run.
- `OrderInv` gives `OrderKept`: no visible post before one of an input is left
  out unless an earlier version of it was rejected (`Gapless`), and an unsettled
  input follows every message (`Follows`).
- `AloneInv` gives `OneRunAtATime` and `TransfersFirst`: the snapshot is complete
  for what it has read (`Whole`), so an input that asks for a run is made only
  when no run is active and nothing is owed (`Alone`), and stays alone until it
  is settled.

All but `WithoutRival` assume `Timely`, that no request both arrives late and
outlives its frozen input: after a crash the connector cannot know what it has
sent, and with `Stragglers` TLC refutes `TriggerAcceptedOnce`. The last two need
more, that no request arrives after the connector stopped waiting
(`~LateRequests`): otherwise one may be committed between the reading of a
session's runs and of its history, and the snapshot shows a message without its
run (section 5).

**Intake** (in `AdmissionProofs`, on the instance `Promise`, of whose inputs the
proof uses nothing but `Promise!Spec`): `HandsOnce`, from `Superseded`: two
inputs have a post in common only if the earlier one came back, so a returned
input that nothing after it shares is the only one that may be taken again.

**Scheduler** (`SchedulerProofs`): `TypeCorrect`, `NoneIdle`, `LimitKept`,
`TriggersKept` and `PendingKept`. `NoneIdle` needs no condition: a thread waits
only after a look at the capacity in the same step, and each step that frees some
makes the waiting jobs dirty (`Woken`). For `LimitKept` every active run is known
to the scheduler, reserved, or belongs to a workflow that is not admitted yet,
because discovery has not listed it or a pass has yet to read its thread
(`LimitInv`). That fails when Orpheus commits a request its caller has given up,
and when a reload adds a workflow with sessions (section 5), so the theorem
assumes `~LateCommits` and `NewFlowsFresh`. The set of old sessions is assumed
finite (`OldAssumption`), for its members are counted. `TriggersKept` follows the
pass that is about to drop a job: what it has read is still true where it
matters. It assumes that the queue has a place for every thread (a timer that
finds none is lost) and that no window ends while the builder looks up users
(`~SlowLookups`). `PendingKept` is the property of the runs, for a bot that stays
in its channels (`Movable = {}`; the run `scheduler_rejoin` refutes it otherwise).

**Publication** (`PublicationProofs`): `TypeCorrect`, `NoRepeats`, `KeptInOrder`,
`ConflictsExplained`, `AlarmsTrue` and `NoFalseAlarms`, the last for at most one
fault and the others for any messages, exports, faults and tampering. The
agenda is a concatenation (`FlattenSeq`, a recursive definition): `Flattened`
says which element of which message stands where, by an induction over the
length that is unrolled as a set of lengths with a least counterexample, and
`AgendaUnits` reads off what a unit can be. One assumption on the messages
matters, that Orpheus gives each an ID of its own: a receipt names nothing else.

- `Once` gives `NoRepeats`. What a pass has read agrees with the posts that are
  there (`Agrees`: keys and claims never change, only life and text) and covers
  the live ones it can know (`Covers`), and what it is about to create is not
  among them (`Unseen`); the posts made since are found by the server's
  `pending_post_id`.
- `Explained` gives `ConflictsExplained`: until somebody edits a post, deletes
  the notice or a request that had been given up makes a post (`Excused`, and
  for ever after), receipts and the run agree (`Trusted`). Each post claims the
  files that are due with it, or a notice says that files are missing
  (`Claimed`); a pass that finds the notice claims none (`Announced`); and it
  knows all the posts made since it read the thread (`Known`). A run exports
  nothing before it has ended, and only progress is posted until then (`Early`),
  so an end changes what is due with no post.
- `Orderly` gives `KeptInOrder`. `Led` says of a unit that all that comes before
  it is posted. An agenda has it all before the unit (`AgendaLed`), and a pass
  goes on only when the unit it leaves was posted or has no text (`Placed`). That
  a repair's post is there (`Rooted`) needs more: what is verified has files, and
  a notice has none (`Bare`, `Plain`). A request that was given up keeps its
  place, for posts are never removed from the record, only from the thread.
- `Quiet` gives `AlarmsTrue`: the word that files are missing is in the thread
  only when something is lost for good (`Lost`: the list of files, a file, a post
  of the bot, or the file of a repair post). Up to then nothing but a fault
  explains a post that lacks a file, receipts name the files that are due, and
  each repair has the post it repairs (`Honest`, `Caused`), so a pass has no
  cause to give files up (`Going`). The lemma it turns on: a file that is due with a post is free, or
  bound to a post that has been found (`FreeFile`, `AllAttachable`). A
  repair without its file needs two faults, one for the post and one for its
  repair. In that case alone the code posts the notice while everything could
  still be delivered, and the theorem names the case; `NoFalseAlarms` is the
  property of the run, whose `MaxFaults` is 1.

**Manager** (`ManagerProofs`): `ReloadsWhole`, `HandsOn` and `NoSecondOwner`.
`AllOrNone` is not inductive: while the manager hands a configuration on, the
proof must know that nothing else fills a runtime's channel, which is
`NeverBlocked`, and that what is handed on is valid. That a valid configuration
is routable (`GroupRoutable`) is a lemma on `Routing` alone: it goes through
every way a workflow can be chosen for a channel and finds the rule
of `validate` that forbids two.

**Incoming files** (`InputFilesProofs`): `Committed`, `RequestsFrozen`,
`Remembers`, `Refusals` and `ReadyWhole`. The invariant ties the workspace to its processes: whoever is past `lock` agrees
with the `request.json` that is there, only one process is inside a batch
(`Exclusive`), the files it calls ready are written (`ProcessOK`), and an import
the connector still feeds is that of the frozen input (`Feeding`), so its success
says something about the message that follows (`Imported`,
`CommittedBeforeSent`). The last three theorems add the session's past:

- `History` says that each run continues the last one prepared before it, with
  what that one was delivered (`Chained`), and that the pages say so (`Paged`).
  It stays true because only the last run is ever prepared or delivered
  anything. `Pages` is a recursive function; `PagesUpTo` builds one that solves
  its equation, by a least counterexample, and `PagesAre` concludes that `Pages`
  does, since each page names an earlier run (`Backwards`).
- `Remembers` follows from `History` alone: no run between one and its
  predecessor was prepared, so the pages lead through every prepared run
  (`PreparedPages`), and each but the last has one after it that names its
  clarifications (`ContinuedBy`).
- `Refusals` adds `Manifested`: without damage the batch of every page stays
  committed. With it the hook's index is always acceptable (`Accepts`).
- `ReadyWhole` adds `Intact`: what the hook calls ready is good, and so is what
  an import calls ready that prepares the hook's batch once more after the hook
  has left it. A file goes bad only under a running agent, when no hook is at
  work (`RunningLast`).

**Outgoing files** (`OutputFilesProofs`): `SameResult`, `SealsFaithfully`,
`UploadsOnce` and `CopiesWhole`.
One process holds the lock of the run (`OneHolder`); what it has read so far is
the outbox wherever nothing was written (`ReadOK`); the IDs it has are those in
the manifest, and one more between an upload and its record (`UploadOK`); and
once a result is printed the manifest is ready and never changes (`PrintedOK`),
which makes all results equal although processes linger.

`Accounting` counts: each upload is recorded in the manifest, is in the hands of
the one process that is about to record it, or was paid for with a fault.
`Whole` follows a file through its two readings and says at each step how many
writes it took to come there with two different parts: three before the second
reading can repeat such a first one.

**Context** (`ContextProofs`): `TypeCorrect`, `ReadsWhole`, `TakesInTurn`,
`MentionsOnlyTold`, `SaysOnce` and `PassesNothingOver`, for any posts, sizes,
links, page sizes and limits.
`Chronological` puts posts by rank, how many come before: that a rank belongs to
one post, and that there is one for each (`RankTaken`), makes it a sequence of
all of them in order.

- `ReadsWhole`: a page is the rest up to some rank, so all that is not on it
  comes after its last post (`PageFirst`). What was there at the start and still
  is has been read or comes after the cursor (`ToCome`), for a post's time never
  changes; the page that empties the rest ends the reading.
- `MentionsOnlyTold` needs to know what the versions of a message mean: each was
  said with its text in the message, or in an earlier one by an item that was
  heard (`VersionsSaid`). A message that carries another over says what it
  freezes itself, in the rest it saves, or that was heard of the other. A pass
  works on a snapshot, which lags behind the history
  but never contradicts it (`Recalled`: what was heard stays heard).
- `TakesInTurn` needs that what a shortened batch may take as context comes
  before the first trigger it leaves for later, and that a full batch leaves
  none in its window (`OrdinaryPlan`). A carried message withholds all
  candidates (`CarriedPlan`). Which context is chosen does not matter.
- `SaysOnce` needs that it does: a required post is among the chosen whatever it
  costs (`RequiredChosen`, by way of `FillTakes`), so the trigger of an ordinary
  batch is one of its own items, and each own post is there once (`OwnFirst`).
  The last two theorems rest on what a request can be (`Proper`): built for the
  earliest candidate (`Fresh`), around one that is carried over (`CarriedOver`),
  or one as it was (`Resent`). A carried trigger either was frozen, and then the
  fresh context does not have it, or its version was named by a message that was
  delivered (`TriggersSaid`, `Carrying`). One that was frozen stands in the rest
  that is sent, or in the part that was heard, and never in both (`Divided`). A
  clarification carries nothing over and what is carried over is no longer one
  (`Sound`), so a rest has no rest.
- `PassesNothingOver` needs to know of every earlier message that the triggers
  before its anchor were accepted and that the other posts before it were said,
  by it or by one that was delivered, or that posts were omitted (`Surveyed`).
  What a carried-over message brings is what it says and what was heard of the
  one it carries (`Brings`): it keeps the anchor and the versions of the whole,
  and later ones leave out what it named. This survives edits and deletions
  because it speaks of posts that still stand (`Standing`), and new posts because time stops while a pass reads
  (`Tick`), so whatever is earlier than its anchor was there when it began
  (`Attentive`) and was read (`ReadWhole`). Posts once refused as too large are
  excepted (section 5).

How a draft grows (`PutKeeps`, `PutLinkedKeeps`, `TakeKeeps`) is proved per step;
that the loops over links and linked posts (`Follow`, `PutFar`) exist as
functions and keep what each step keeps, by a least counterexample
(`FollowKeeps`, `PutFarKeeps`).

Every invariant of the passing runs, and every property that says what a step
may not do, is stated by a theorem, under the conditions named above. Not
proved, only model-checked:

- Liveness under fairness, which is out of the prover's reach:
  `EveryTriggerAccounted` and `EveryDebtPaid` of `Admission`,
  `EveryThreadSettles`, `EverythingDelivered`, `HookEnds`, `Exported`,
  `ReloadArrives` and `Stops`.
- `RefusedTransferOnce` and `PendingWorkKept` without a condition, which are what
  two runs refute (section 5).

## 5. Where the code and its documents disagree

With a run that shows it; `PROJECT.json` quotes the documents:

1. `RefusedTransferOnce` (`engine.go:453`, `admission_refused_transfer`): input
   that is carried over and refused is sent again by every pass.
2. `PendingWorkKept` (`runtime.go:626`, `scheduler_rejoin`): a trigger of a
   channel the bot left and joined again is not found by the replay.

Without a run of their own; the first two correct themselves soon:

- `SingleActive` with `LateRequests = TRUE` (`engine.go:404`): a request that is
  committed after the runs of a session were listed and before its history is
  read clears the frozen input while `active` knows no run; after a reload the
  same pass may start a second session. The following passes end with "multiple
  active runs for thread" until one run ends.
- `RunLimit` with a workflow that a reload adds while the old scan is past its
  sessions (`runtime.go:272`): `initialized` and `discovering` keep their
  values, so runs are admitted before the new workflow's sessions are listed.
  The next scan counts them.
- `config.go:102` and `docs/CONFIGURATION.md:225` call a reload atomic. It is
  atomic for what was loaded (`AllOrNone`); the files themselves are read one
  after the other, so edits during a load can be mixed. The document asks for
  the directory to be replaced atomically when it is mounted.
- `NoConflict` (`files.py:238`), against `docs/FILES.md:92-93`: "A prepared but
  undelivered clarification can therefore become the next run's input without
  conflicting with immutable batch files." An import commits `request.json` for
  the clarification's batch (`files.py:333`); its run ends before the message is
  accepted, so `reconcile` forgets the frozen input and builds it again
  (`engine.go:415-419`). When its files are others by then, the batch has the
  same identity and another request, and the next run's preparation fails. The
  constants of `input_prepare` with `MaxFaults` and `MaxDamage` 0 suffice. The
  sentence holds for input Orpheus accepted and did not deliver.
- `SessionTold` of `Context` (`model.go:190`), against `docs/CONTINUATION.md:4-6`:
  in a new session "the connector rebuilds context and attachments from the
  available thread history". Only the session's first request does, and its run
  can fail before the agent gets it. The session stays reusable, what an earlier
  session was given is known (`Known` spans all of them), and the next request
  leaves it out without a notice.
- `SessionTold` fails in another way (`engine.go:322-330` with
  `context.go:276-284`), against `docs/CONTINUATION.md:14-17`: when an
  undelivered clarification moves to a new session, "the connector preserves the
  saved clarification and rebuilds surrounding context and attachments". Of a
  clarification that was delivered in part only the rest is saved. The posts of
  the part that was delivered, triggers among them, were given to the agent of
  the lost session alone. Their versions are frozen, since no delivered envelope
  names them, so the rebuilt context leaves them out, and no omission is
  announced. The new session answers triggers whose text it never gets. The
  constants of `context_requests` show it as they are, in 20 steps.
  `SaidOnce` and `NothingPassedOver` count that part as told, as `transfer`
  does, and hold; they promise nothing about which session's agent heard it.
- `SessionReferencesKnown` of `Context` (`context.go:507`), against
  `docs/FILES.md:52-54`: "an explicitly referenced post omitted from earlier
  context is included once". `knownVersions` spans sessions too: a post that was
  given to an earlier session, and left out of the new one's first request for
  its size, is referenced without its text when a clarification links to it,
  also one that is carried over. The
  constants of `context_requests` show it as they are.

- A carried-over clarification can have a trigger's text twice, against the
  comment at `context.go:229`: "Its text and trigger identity stay frozen
  even if the source post changed." Of two undelivered clarifications the first
  is carried into a new session and takes the second's trigger along as context.
  When that session is lost too and the second is carried over, the version of
  its trigger was told, so it is not frozen (`context.go:280-284`): the post is
  read and said again, as it is now, beside the saved text. `SaidOnce` leaves
  such versions out, as the comment at `context.go:278-279` does. Three triggers
  with `Window = 0` and three sessions and runs show it.
- `NothingPassedOver` leaves out posts that were once refused as too large. The
  refusal names a version: when the post is edited it becomes a candidate again
  and may be accepted after a later trigger was. If neither was delivered and
  the later one is sent again in the same session (`Resend`), it is sent as it
  was, without the earlier post, whose own turn comes after it.

## 6. Not modelled, and what is left

- The event stream's cursor and the paging of channels
  (`internal/orpheus/client.go:235`, `internal/mattermost/client.go:232`): they
  only wake threads early, and a thread that is woken reads everything anew.
- Pure algorithms over texts: `Split`, `Permalinks`, `Mention`, the layout of a
  message, safe names, hashes, manifest validation. They are
  functions of one input without state; the models take their outcome (a batch
  fits or not, a text has so many parts, a file is valid or not) as given.
- `leaveUnroutedPrivateChannels`, gauges and metrics, HTTP handlers, the order
  in which jobs are polled (a fairness assumption).
- The connector's side of the sandbox's lifetime (`agentbox.connect`): timers of
  a service.
- HTTP and WebSocket transport, parsing of files, log output, text layout,
  `script.go`, the command's flags.
