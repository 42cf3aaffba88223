# Scriptoria in TLA+

Scriptoria lets administrators start catalogued shell scripts on remote VMs,
watch them in a browser terminal, answer their prompts, stop them and pick up
the files they leave behind. Its behaviour is spread over several processes:
a control plane (`apps/backend`), runners (`apps/runner`), Postgres, Redis, one
SSH connection per run and the browsers. The modules here model the parts where
those processes can disagree, and check and prove what must hold when they do.

    tlc -workers 4 -config RunFaults.cfg MCRunLifecycle     # one run
    tlapm CatalogProofs.tla                                 # one proof module

## 1. Inventory

| Component | State it keeps | Operations | Correct when |
|---|---|---|---|
| Run record (`db/.../runRepository.ts`, `contracts/src/run.ts`) | one row per run: status, reason, timestamps, abort request and stage, collection counters | `createRun`, guarded `transition`, `recordAbortRequest`, `recordAbortStage`, `markCollected`, `markCollectionEnded` | whoever writes, the row only moves along its state machine and stays where it ended |
| Run requests (`backend/.../runService.ts`) | none; acts on row, queue, claim, control channel | `startRun`, `abortRun`, `getRun` with `reapIfOrphaned` | one of cancel and claim wins; only runs without a worker are failed as `worker_lost`; the answer agrees with the row |
| Queue consumer (`runner/src/queue/consumer.ts`) | Redis list of jobs, claim key per run with a 60 s life, slots | `loop`, `claimAndRun`, renewal | a run is carried out at most once and a queued one is eventually taken |
| Run executor (`runner/src/run/execute.ts`) | connection, snapshot, terminal, renewal timer, control subscription | `executeRun`, `runOnce`, `drive`, `collect`, `fail`, `recordOutcome` | row and audit log agree on the end; every run ends; a stop before the start prevents it |
| Control channel (`runner/src/stream/control.ts`) | a Redis subscription per run | stop, input, resize | no stop gets lost between row and message |
| Staged abort (`runner/src/run/abort.ts`, `driver/sshTarget.ts`, `core/src/execution.ts`) | escalation and the stage reached | `request`, `escalate`, `exitedWithin`, `signal` | stages in order, none after the end, a stopped run recorded as stopped, a stop takes effect |
| Runner process (`runner/src/index.ts`) | slots, RPC server | start, drain, exit | restarting loses no run silently |
| Stream publisher, transcript (`stream/publisher.ts`, `run/transcript.ts`) | chain of appends, capped Redis stream, capped transcript | publish, flush, expire | the row names the last entry; the stream goes only when the transcript is stored |
| Terminal gateway and client (`stream/gateway.ts`, `useTerminalStream.ts`, `runs/[runId]/page.tsx`) | cursor per socket, last id and attempts per client | hello, replay, pump, end, reconnect, poll | entries in order, none twice, holes announced; a watcher catches up and does not wait for ever |
| Sessions and entitlements (`auth/session.ts`, `authService.ts`, `core/src/authorization.ts`) | a session per login in Redis with the areas it may see | login, read and extend, logout, sweep | an area revoked from a group is revoked from its sessions (NFR-03) |
| Area administration (`areaService.ts`, `areaRepository.ts`, `admin/areas/page.tsx`) | areas, mapped paths, entitled groups; per screen a list, a refetch, a form | create, update, delete, add and remove a path or a group; select, type, refetch | the audit trail tells the mapping; a save writes what was meant for this area; one's own change stays on screen |
| Runner RPC (`rpc/server.ts`, `runner/client.ts`, `resultService.ts`) | request list, a reply list per request with an expiry of 120 s | call, stream a file, drain it, time out after 30 s and 60 s | what is complete is whole; every transfer ends; no reply stays behind |
| Schedules (`scheduleService.ts`, `core/src/crontab.ts`, `cron.ts`) | none; the crontab of the VM is the truth, of which it owns one block | list, change expression or switch one line | lines written by hand survive; the line that was clicked changes and no other |
| Catalog (`catalogService.ts`, `scriptRepository.ts`, the area page) | a row per script with the stamps of the last scan and of the last that saw it | list, rescan source by source, show, start | the rows are the last listing; a rescan shows the directory; a list is not older than the TTL; a run keeps what it was started for |
| Results (`execute.ts`, `resultRepository.ts`, `core/src/collection.ts`, `runs/[runId]/page.tsx`, `ResultPanel.tsx`) | two listings of the output directory, a row per file; per page the record and the list with their polls | snapshot, compare, record, settle; poll, reap | a file belongs to the run that wrote it; a page that stopped asking shows what there is |
| Audit log (`auditService.ts`, `auditRepository.ts`) | append-only records | record, query | agrees with what happened |
| Header, criticality, frames, configuration, routes, schema, directory, SSH credentials, frontend, infrastructure | - | parsing, wiring, I/O | - |

**How they interact.** `startRun` writes the row and then pushes a job. A slot
pops it, sets the claim key with NX and moves the row to `starting`, connects,
takes a snapshot of the output directory, looks for a stop, opens the terminal,
subscribes to the control channel, starts renewing the claim, moves the row to
`running`, looks for a stop again and waits. `abortRun` reads the row: a queued
run is cancelled with a guarded update, any other gets the request written on
its row and published. The slot's `StagedAbort` sends SIGINT, SIGTERM and SIGKILL
on a second SSH channel with grace periods in between. When the terminal's
channel closes, the slot writes the end, the audit record and the collected
files, and deletes the claim. Every read of a live row without a claim, after a
grace period, ends it (`reapIfOrphaned`); so does a read of a terminal row whose
collection never ended.

**What is hard.** Every `await` is a place where another process acts. The claim
is a lease whose renewal begins late. A stop travels on two ways, row and
message, and the subscription is not awaited. The two SSH channels close in an
order nobody chose. Three levels of `catch` end a run. Jobs are popped without a
copy. Sessions are read, awaited
and written without a version. Output is trimmed while it is read, and the page
learns of the end on two ways. A crontab is read and written whole, over calls that may be
carried out after they were given up. Rescans replace the same rows in two
statements without a transaction. Screens refetch while they change. A directory
is listed twice while others write to it, and a file is pushed into Redis faster
than a browser drains it. `PROJECT.json` lists 40 such places under `hazards`,
each with its line and the properties that watch it, or the reason why none does.

## 2. What is modelled

### RunRecord - the promise

`status` and `collection` of each run. `Create`, `Claim`, `Begin`, `Conclude` and
`Settle` are the moves of the published state machine (`runStatusSchema` with
`LIVE_RUN_STATUSES` and `TERMINAL_RUN_STATUSES`): queued, starting, running, one
of three ends; the collection ends at the earliest together with the run, and
what was counted stays counted.

### RunLifecycle - one run from request to collection

| Variable | In the code |
|---|---|
| `runs` | the row: status, failure reason (`worker_lost` or another), `collected_*`, `abort_requested_at`, and the age of its three timestamps against `ORPHAN_GRACE_MS` |
| `outcomes`, `events` | `run_finished` records in order; whether a `run_aborted` record says withdrawn or stopping, whether an event says the worker is gone |
| `queue`, `claim` | the Redis list, the claim keys |
| `script`, `starts` | the script as its terminal shows it; how often one was started (a history variable) |
| `worker` | per slot the statement it runs next, its run, its subscription and inbox, its stop, its verdict and which level called `fail` |
| `leaked` | renewal intervals no `finally` cleared |
| `request` | per request to the control plane the statement it runs next and what it read |
| `spent` | how much of each bound is used |

One awaited statement is one action, and what follows it up to the next `await`
belongs to it. Requests: `CreateRun`, `PushJob`; `ReadToAbort`, `CancelQueued`,
`RecordStop`, `PublishStop`; `ReadToReap`, `CheckClaim`, `ReapLive`,
`ReapCollection`; `RequestDies`. Slots: `Pop`, `ClaimRun`, `TakeRun`, `Connect`,
`Inspect`, `CheckStop`, `AbandonStart`, `StartScript`, `Attach`, `MarkRunning`,
`RecheckStop`, `Finish`, `RecordOutcome`, `Collect`, `Release`, and `FailRun`,
`RecordFailure` for `fail()`. Beside them: `Subscribed`, `HearStop`, `SendSignal`,
`SignalSent`, `RenewClaim`, `LoseConnection`, `Throw`, `LoseJob`, `CheckBlind`,
`Crash`, `Restart`. Around them: `ScriptEnds`, `ExpireClaim`, `GrowOld`, `Requeue`.
`AbandonFrom`, `FinishFrom` and their like are the sets of statuses that each
caller passes to `transition`.

Abstractions worth knowing:

- Each slot is a process of its own with a claim name of its own. In the code the
  slots of one process share the worker's name, and die together; nothing
  compares the value of a claim, so more independent deaths is all it adds.
- A crash leaves the script alive. In the code the connection dies too, and the
  VM may or may not keep the script; the model allows it to stay and allows it
  to end.
- A drain (SIGTERM) has no action. A draining slot goes on with its run and then
  takes no further job, which no action here obliges it to do; a process that
  runs out of patience after five minutes is a `Crash`.
- Time is an order, not a clock. A claim may expire only when `queuedAt` is
  older than the grace period, because it is set later and lives just as long
  (60 s both). `startedAt` grows old only when a renewal that is running has been
  through, because the grace period is three renewal intervals.
- A read that finds nothing to reap changes and remembers nothing; such reads are
  left out.
- A stop has two points here (signal sent, stage reached); its stages are in
  StagedAbort. The stage written on the row does not change its status and is
  left to that module too.

### StopPromise and StagedAbort - one stop in detail

From the moment the row says `running` to the end of the run: the process and
the signals that found it (`process`, `struck`), what the terminal's channel told
the worker (`exit`), the kill command on the second channel (`kill`: sent, run,
closed), the escalation (`at`, `stage`, `reached`), the wind-up (`drive`), and what
is written: `row` (status and stage), `outcome` (the same in the audit log), `trail`
(the `abort_signalled` events). `Click` is a stop that reaches the worker;
`SignalSent`, `ReportStage`, `MarkStage`, `GraceEnds` are the escalation's awaited
statements; `SignalFails` and `ReportFails` its two failures, which its `catch`
swallows; `Strike`, `ScriptEnds`, `CloseTerminal`, `LoseConnection` are the VM and the
network; `Finish`, `RecordOutcome`, `WindUp` the end of `drive`. The two channels close
in any order; `overtaken` is a history variable, the stage of the kill whose channel
was still open when the terminal told of the end. What a stop promises,
and the six variables it is about, are in StopPromise, so that the proofs state
the promises as they are, whoever keeps them.

### Sessions - what a session may see

| Variable | In the code |
|---|---|
| `mapping`, `areas` | the tables `area_entitlements` and `areas`, which the database keeps consistent (`on delete cascade`) |
| `stored` | the value under each `session:` key in Redis: the groups the directory reported and the areas resolved from them |
| `issued`, `aged` | the ids given out (random, never given twice); sessions past `SESSION_ABSOLUTE_TIMEOUT_SECONDS` |
| `op` | per request in progress the statement it runs next, the session it has in hand and what it read: session, mapping, sessions left to rewrite |
| `changes`, `faults` | how much of each bound is used |
| `past`, `left`, `torn` | history: mappings that were in force; sessions logged out; sessions that were written with something else than an operation without interleaving would have written (`Set`, whose `meant` is that) |

Every operation is a read, an await and a write. `Login` reads the mapping and
`Store` is the SET of `createSession`. `Read` and `Extend` are the GET and the SET of
`readSession`, with `Drop` for the session that is too old or that is logged out:
a logout extends the session first, as `logout` calls `readSession`. `Grant`, `Revoke`
and `DeleteArea` change the tables; `ReadMapping`, `Scan`, `Pick`, `Write` and `EndSweep`
are `refreshAllSessionEntitlements`, whose `updateSessionAreas` is a GET (`Pick`) and a
SET (`Write`). `CutShort` is a statement that throws or a process that ends,
`ExpireIdle` the TTL. A scan is one step: it is one MGET for the first 200 keys.
The audit record between a change and its sweep changes nothing here except that
it may throw.

### TerminalStream - from the terminal's output to a browser

| Variable | In the code |
|---|---|
| `produced`, `settled` | chunks that came off the PTY; chunks whose XADD was answered or given up, in the order of the publisher's chain |
| `latest`, `unheard` | `latestId`, the id of the last XADD that was answered; history: the entries whose XADD never was |
| `log`, `first` | everything ever appended, each entry with the chunk it holds, and the oldest entry Redis still has; an entry's id is its place in `log` |
| `runner` | the statement of `drive` that comes next |
| `row`, `saved` | whether the row is over, the last id in it and who wrote it; whether the transcript is stored |
| `page`, `client`, `screen` | what the page decided (stream or transcript), the socket with the last id and the attempts in a row, the entries on the terminal |
| `conn`, `wire` | the gateway's pump with its cursor; what it sent and the client has not received |
| `overrun` | history: a trim overtook a reader that was connected |

`Output`, `Append1`, `Exit`, `Finish`, `Save` and `Expire` are the runner, with
`AppendFails` (logged once; Redis may have run the command all the same, even twice),
`AppendRepeats` (an answer is lost, ioredis sends the
command again), `Throw` and `RunnerDies`; `EndElsewhere` is a row that was ended for it;
`StreamExpires` the TTL. `Serve`, `CheckOldest`, `ReadEntries`, `ReadNothing` and
`ReadStatus` are the statements of `serve` and `pump`, each with what it sends;
`GatewayFails` is the `catch` that closes the socket with an end. `Open` and `Poll` are
the page, `Connect`, `ConnectFails`, `Break` and `Receive` the hook, `Reload` a page that
forgets everything.

One client is enough: readers share nothing but the stream, which they do not
change. `MAXLEN ~` trims when Redis likes and keeps at least the cap, so a trim is
any number of entries beyond `Cap`. The closing status message and the end message
arrive together and are one. Keystrokes and resize are published and forgotten;
the bytes of a chunk and of the transcript are left out.

### Crontab and Schedules - changing a line of a crontab

Crontab holds the pure functions of `packages/core`: `JobsAt`, `ManagedAt` (the
parser), `ManagedJobs`, `ScheduleId` and `WriteManagedBlock`. An id is a 32-bit digest,
so any two may be the same: `Alias` says which are. A line is what the parser
makes of it; wording, spacing and assignments are left out. `Plain` are the
expressions that `CRON_FIELD` recognises in a line, `Extended` the five-field ones that
cron-parser accepts beyond that (`0 2 L * *`): a line with one of them is written as
it was asked for and read back as a comment.

| Variable of Schedules | In the code |
|---|---|
| `file` | the crontab on the script VM |
| `at` | the await that each `updateSchedule` is in: the first read, the write, the read for the answer |
| `page` | what the schedules page lists, the line that was clicked, the id and the change in the request |
| `text`, `edited` | the crontab read last, the crontab sent |
| `call`, `queue` | the request to the runner (queued, taken, answered, failed or lost) and the list in Redis |
| `answer`, `written`, `recorded` | what the browser was told; history of installed texts; the audit log |
| `events` | how much of the bound is used |

`List` and `Click` are the page, with `ClickInvalid` for an expression that is refused;
`Edit`, `Refuse`, `Record`, `Confirm` the stretches of `updateSchedule` between its awaits,
`NoReply` an error frame or 30 s without a frame, `CutShort` a statement that throws.
`Take`, `ReadCrontab`, `WriteCrontab`, `RefuseCrontab`, `Break` and `RunnerDies` are the
runner's slots and what becomes of a request; a request whose caller gave up stays
where it is. `HandEdit` is somebody with `crontab -e`. One crontab is enough: an id
contains the source, so an update matches lines of one file only.

What the code does and no property contradicts: two updates that overlap lose one
(accepted at `scheduleService.ts:185`); a write that timed out is answered with an
error and may be installed later; in a file with two blocks the jobs of the second
are written into the first and kept where they were, and run twice; comments inside
the block are dropped; disabling a line with an extended expression turns it into
a comment that the next update removes; a crontab that cannot be read is answered
with "No such schedule".

### Catalog - what a page lists and what is started from it

| Variable | In the code |
|---|---|
| `disk`, `mapping` | the directories with the header of each script; `script_sources` |
| `row` | `scripts`: `present_at`, `scanned_at` and the criticality, per source and name |
| `clock` | the control plane's clock, moved by every reply and by `Tick` |
| `ask` | per page a load and a rescan: the statement they run next, the sources left, the listing and the instant in hand, the list read |
| `screen`, `start`, `runs` | the list a page shows, the start it asked for with the entry shown and the row looked up, the runs recorded |
| `last`, `mixed` | history: the listing written last for each source; the sources whose rows two overlapping scans wrote |

`Open`, `CheckAge`, `ReadSources` and `ListScripts` are `listScripts` and `refresh`;
`RunnerScans`, `ScanFails`, `Receive`, `Upsert`, `UpsertFails` and `MarkUnseen` are the
rescan of one source, whose two statements (`replaceSourceScripts`) are two actions;
`Show` and `PressStart` the page, `FindScript` and `CreateRun` the part of `startRun`
that concerns the row. `ChangeDisk`, `AddSource`, `RemoveSource` are the people around
it; the foreign keys of scripts and runs are guards.

The clock is fine enough to tell the arrivals of two replies apart, which
milliseconds are between two answers of a directory over SSH. A scan is one step
of the runner: a listing that was lost changed nothing. A header that cannot be
read or parsed is `Undeclared`. A listing stops at 1000 entries without saying so,
which is left out.

### AreaAdmin - several root accounts on one screen each

| Variable | In the code |
|---|---|
| `areas`, `serial` | the three tables; a link (a path or a group) is a row with an id, given once |
| `ran` | the paths a run refers to through its script, and that nothing may delete |
| `told` | the audit trail, replayed |
| `request` | the change each screen asked for: the statement it runs next and what it carries |
| `list`, `fetch`, `selected`, `form` | the query's data, the refetch under way, the open panel and its settings form |
| `loaded` | the screens whose query has had data |
| `version`, `had`, `own`, `unsure`, `joined`, `crossed` | history: versions and values of each area, versions of own changes, screens whose refetch failed, changes whose refetch was a first load that had been read before, areas whose trail may differ |

`Find`, `CreateArea`, `UpdateArea`, `DeleteArea`, `LookUp`, `Link`, `Unlink`, `Record`, `RecordFails`
and `GetArea` are the statements of `areaService`, with the unique indexes and foreign
keys they meet; `Press...`, `Type`, `Select`, `Answered`, `Failed`, `FetchReads`, `FetchLands`,
`FetchFails` the page: `onSuccess` first puts the answer into the list and then
refetches, which cancels the refetch under way; the first load of the page is not
cancelled but joined (`Joins`), because the query has no data yet. Two fields stand for the three of
the form, and a screen asks for one change at a time. The sweep of the sessions is
in Sessions.

### Results - what a run wrote, and what a page shows of it

| Variable | In the code |
|---|---|
| `disk` | the output directory: who wrote a file last, and its fingerprint |
| `worker`, `claim`, `aged` | the statement of `executeRun`, `drive` or `collect` that comes next with the first listing and the difference; the claim key; whether `ORPHAN_GRACE_MS` is over |
| `rec`, `rows` | the row with its count and stamps; `run_results` |
| `page` | the run's record on the page and the one on its way through `reapIfOrphaned`; the panel's list and the one on its way |
| `due`, `blur` | history: what the run had written when it was listed; files two listings cannot tell |
| `doubtful` | history: the run was given up while its worker lived, or while the answer was made up |

`Snapshot`, `Start`, `Exit`, `End`, `ListOutput`, `RecordResults`, `MarkCollected`,
`CollectThrows`, `MarkCollectionEnded`, `Fail`, `Release` and `Crash` are the worker;
`PollRun`, `LookForClaim`, `Reap`, `ShowRun`, `RunPollFails` the page's query every 2 s and
what answers it; `PollList`, `ReadRows`, `ShowList`, `ListPollFails` the panel's every 5 s
with `AsksAgain`. `Settled` is `collectionSettled`. A fingerprint is a size and a
modification time in seconds: a rewrite that changes neither is possible (`Write`).
"live" stands for `starting` and `running`, which nothing here tells apart.

### Transfers - files on their way to a browser

| Variable | In the code |
|---|---|
| `disk` | whether each file is there, its length in chunks, which may be 0, and its version |
| `queue`, `asked` | the request list; file and ceiling of each request |
| `slot` | what each RPC slot reads: the stat it saw and the chunk that comes next |
| `reply` | the list of frames of each request, and whether it has an expiry |
| `client` | what each browser asked for (download, preview, archive), the parts it has, the part it is draining |
| `lapsed`, `stirred`, `struck` | history: replies that expired, files that changed under the reader, replies whose runner died between a frame and its expiry |

`Take`, `Look`, `Send`, `ServeThrows` and `Crash` are the runner (`serve`, `readFile`,
`Reply`), `Lapse` Redis; `Ask`, `Request`, `RequestFails`, `FirstFrame`, `RecordDownload`,
`Pull`, `GiveUp`, `Finalize` and `Cancel` are `resultService` with the client of the runner's
RPC. The last frame popped takes the list and its expiry with it, as in Redis.
An archive's own audit record and the names of its entries are left out.

What the code does and no property contradicts: an archive whose reply expired in
mid-file and whose runner goes on pushing has a hole nobody notices; a file over
`MAX_DOWNLOAD_BYTES` is cut in a download or an archive without saying so; a download whose
audit record fails leaves its reply to expire and its connection to Redis open; a run's page that got the made-up
answer of a reaper shows it for good; a panel whose collection failed says that
the run wrote nothing; a save of an area's settings puts another's edit of a
field it did not touch back.

Definitions commented "a slip" are plausible mistakes in the definition they
stand before. No specification uses them: each is put in the place of its
neighbour once to see that a property notices.

## 3. What is checked

| Run | Bounds | Shows |
|---|---|---|
| `RunFaults` | 1 run, 2 slots, 1 request at a time, 1 throw, 1 crash, 1 second delivery, slow starts and late SUBSCRIBE allowed; 2.25 million states | `StartedOnce`, `WithdrawnNeverStarts`, and `FollowsTheRecord`: RunLifecycle refines RunRecord |
| `RunPrompt` | 1 run, 2 slots, 1 request at a time, 1 crash, nothing throws, nothing slower than its timeout, with fairness; 75 thousand states | `ReapedHasNoDriver`, `AuditAgrees`, `StopIsHeard`, `StopEndsTheRun`, `OrphanIsEnded`, `CollectionSettles` |
| `AbortStages` | 2 clicks, 1 failure anywhere, both grace periods above zero, channels that close in any order, with fairness; 17 thousand states | `StoppedIsAborted`, `StagesInOrder`, `NothingIsSentAfterTheEnd`, `StopTakesEffect` |
| `StopOvertaken` | 1 click, and nothing fails | the second finding below: `SignalledIsAborted` is violated |
| `SessionSweep` | 1 session, 2 requests, 1 group, 2 areas, any mapping at first, 2 changes, 1 operation cut short, with fairness; 520 thousand states | `AreasWereGranted`, `StaleOnlyByOverlap`, `LoggedOutStaysOut`, `RevocationTakesEffect` |
| `TerminalStream` | 3 chunks, a stream that keeps 1, 2 lost connections or reloads, 1 failure anywhere, 1 further attempt before a client gives up, with fairness; 218 thousand states | `InOrderOnce`, `HolesAreAnnounced`, `HistoryOutlivesTheStream`, `WatcherCatchesUp` |
| `Schedules` | 2 updates, 2 slots, 2 commands, 3 expressions of which 1 extended, 2 ids with one digest, a file with a finished and one with an unfinished block and one with both of these ids in it, 1 edit over SSH, crash, lost reply or throw anywhere, with fairness; 681 thousand states | `AuditAgrees`, `ForeignLinesStay`, `OneJobChanges`, `ClickIsAnswered` |
| `Catalog` | 1 page, 2 sources of which 1 is mapped at first, 2 file names, a TTL of 1, 4 clicks, changes, failures or ticks; 563 thousand states | `CatalogIsTheListing`, `RescanShowsTheDirectory`, `ListIsFresh`, `StartedAsShown`, `RunKeepsItsScript` |
| `AreaAdmin` | 2 screens, 2 area ids, 3 names, 2 categories, 1 group, 1 path, 3 clicks, edits or failures; 2.7 million states | `TrailTellsTheMapping`, `OwnChangeIsShown`, `SaveWritesThisArea` |
| `Results` | 2 files of which 1 is there before, 1 lapse of a claim, 2 writes or failures anywhere, with fairness; 1.15 million states | `CollectedIsWhatItWrote`, `StoppedShowsTheFiles`, `SettledStays`, `PollingEnds` |
| `Transfers` | 1 browser, 2 slots, files of 2 chunks and of 1, ceilings of 2 and 1, 2 requests, 2 failures, changes or cancellations anywhere, with fairness; 375 thousand states | `CompleteIsWhole`, `TransferEnds`, `RepliesGoAway` |
| `SlowDownload` | the same, and nothing fails | the first finding below: `SlowIsServed` is violated |

**Why the bounds are enough to be interesting.** Runs do not share state except
the queue and a slot's attention, so one run with two slots has every conflict
between a slot that lost its claim and one that was given the job again; the
the request that is free again makes reads, stops and reaps follow each other at any
place. `RunPrompt` has liveness and safety over one request and no second delivery;
its three invariants are theorems, for any number of either. One crash, one throw and
one second delivery at any place combine into up to three failures of one run.
A second click meets the escalation in each of its states. Sessions share only
the list of one sweep, which visits them one after the other, so one session
meets two requests, one of them a sweep or two sweeps at once, in every order;
two areas tell a mixture of two mappings from one of them. With one entry kept
of three, a reader can be behind by one or two, before or after its first read,
with its first or its second connection; three entries tell a hole from a
repetition. The first file has a job above the block that runs what the managed
ones run, and the edit over SSH inserts or removes one more, so that a
schedule's number in the file, in the block and on the page all differ. One page
has a load and a rescan of its own, which overlap on the same source; the second
source is what makes one age stand for two. A second screen is another's change,
and a second area is what a form may be carried to. One file that was there and
one that was not are created, rewritten and removed by the run or by another. A
file of two chunks is below, at and, after a change, above its ceiling; an archive of
two has a boundary between them. The theorems
below carry most of the safety results to any number of runs, slots, requests,
sources, files and failures. Slots, requests, screens and names that nothing tells
apart are interchangeable in the safety runs (`SYMMETRY`); the runs with liveness
use none.

**Fairness.** A slot is an event loop whose awaits all end, since SSH, Postgres
and Redis have timeouts: its next step, its subscription, its timers and its
message handler are weakly fair, and so is the supervisor's restart of a dead
process. A request that was accepted is carried on. Claims expire, timestamps
grow old, killed scripts end. Reads of a run recur because the console polls
(strong fairness of `ReadToReap`: a request is free again and again, not all the
time). A request to the sessions that was begun is carried on (weak fairness of
`Carry`). The publisher, the pump, the connecting client and the delivery of what
was sent are weakly fair; the poll of the page is not, since a tab in the
background may not run it. An await of
`updateSchedule` ends, because BLPOP has a timeout; of the runner nothing is assumed,
and `ClickIsAnswered` holds when none is running. In Results the worker goes on
once the script has exited (`Collect`), a claim nobody renews expires, a timestamp
grows old, and a page that is open and visible keeps both its intervals and gets
their answers: `PollingEnds` is about such a page. In Transfers a slot and a request
handler go on, a BLPOP comes to its timeout (`GiveUp`, in `Carry`), and Redis removes
what expired. Nothing makes a script end by itself, a runner start again, anybody start a run, or anybody
press stop. Catalog and AreaAdmin promise safety only and assume no fairness.

**Conditions.** `PromptStart` (no claim lapses while its slot is still starting)
and `PromptSubscribe` (a SUBSCRIBE takes effect within the next two statements)
name what the code takes for granted; `RunPrompt` assumes them, `RunFaults` does not.
The order in which the channels of a stop close is free.
`AuditAgrees` and `StopIsHeard` are checked where no statement throws: with one
throw after the terminal transition a second record, saying failed, is written,
and a look at the row that fails is taken for a "no".
`AbortStages` has grace periods above zero. The configuration accepts zero,
and `escalate` reads it as the last stage: a script that ignores SIGINT then
survives.

## 4. Findings and known limits

**A slow browser loses its download** (`SlowDownload`). `rpc/server.ts:269-270`
says the expiry of a reply is "Refreshed on every frame rather than set once: a
slow download must not have its own reply expire underneath it." It is refreshed
when the runner pushes, and the runner pushes as fast as it reads. A browser that
is not done 120 s after the last frame was pushed loses the rest, and the body
breaks off after 60 s more.

**A stopped run can be recorded as failed** (`StopOvertaken`). `abort.ts:54` says that
`wasSignalled` is "True once a signal was actually sent, to a process that was still
there." The stage counts when the channel of the kill command has closed
(`abort.ts:105`), a round trip after the signal ended the script, and the terminal may
close first; the verdict (`execute.ts:253`) then knows of no signal. `StoppedIsAborted`
says that this is the only way: a run that a signal found is on record as
aborted unless its end overtook the answer to the only signal that did.

The following disagreements with a comment are visible in the models, but their
conditions are named in the properties or assumed by the runs, as said:

- *A slow start is taken for a dead worker.* The claim lives 60 s
  and is first renewed when the terminal is open. If connecting and the
  snapshot take longer, a read fails the run as `worker_lost`, and the slot goes
  on and starts the script. `runService.ts:266` says that the claim "is renewed
  while a worker holds the run". (`PromptStart` excludes it.)
- *A stop can be heard by nobody.* `execute.ts:151-153` says the
  second look at the row closes the gap; it comes after SUBSCRIBE was sent, not
  after it took effect. (`PromptSubscribe` excludes it.)
- *A session can keep an area that was revoked.* A login that
  read the mapping before a revocation and stores its session after the sweep's
  scan, or a request that reads its session before the sweep rewrites it and
  extends it afterwards, leaves the old areas in place, and nothing visits the
  session again until a mapping changes. `session.ts:118-121` says that "the
  sessions holding it lose the area without being logged out". By the same
  overlap a session that was logged out can be written back. (`StaleOnlyByOverlap`
  and `LoggedOutStaysOut` say that this is the only way.)
- *The end of the output can be missing.* The page polls the
  record beside the socket; when the record says over, the socket is closed,
  whatever is on its way, and the page does not turn to the transcript.
  `page.tsx:53-56` says that "a run watched from its start has every byte from the
  socket already". A slower way to the same loss: the pump reads an empty block,
  the last entries come, the row ends, and the pump reads the row
  (`gateway.ts:264-283`). (`WatcherCatchesUp` is about the time the run goes on.)
- *A reaper answers an end that is not in the row.* `reapIfOrphaned` does not
  look at whether its guarded update landed (`runService.ts:312-320`): a read that
  overlaps the end of a run appends "The worker holding this run is gone" and answers
  `worker_lost` for a run that ended by itself, and a page takes that for settled
  and stops asking. The row stays right (`FollowsTheRecord`). `page.tsx:43-46` says
  that a settled run does not change again: that is `Results.SettledIsFinal`, and
  `SettledStays` excuses exactly the answers made up this way.
- *A new area can be missing from the screen that made it.* "New area" works while the
  page still says that it loads. `onCreated` puts nothing into the cache, and
  `invalidateQueries` (`page.tsx:55`) joins a first load under way: a list that was
  read before the insert lands last, and nothing asks again. `page.tsx:47-50` says that
  refetching "is how the interface stays honest about that rather than showing a
  stale menu".
  (`OwnChangeIsShown` excuses exactly the changes in `joined`.)
- *The last id can stop short of the last entry.* An XADD that Redis ran and whose
  answer was lost is in the stream, and `latestId` (`publisher.ts:51`) does not know.
  (`LastIdIsLast` says that nothing else follows it.)
- *Two jobs can have one id.* The digest has 32 bits; of two jobs of a block with the
  same, the first is changed. (`OneJobChanges` excuses exactly these.)
- *A collection that failed reads like an empty one.* `ResultPanel` shows that the
  run wrote nothing, although its comment (27-31) keeps the two apart; in Results
  such a run is over with no count.

## 5. What is proved

Proofs are by TLAPS, for every value of the constants that satisfies the
assumptions named in the modules. They cover any number of runs, slots, requests,
sessions, sources, areas, files, failures, crashes and second deliveries.

| Theorem | Module | Argument |
|---|---|---|
| `TypeCorrect`: `Spec => []TypeOK` | RunLifecycleProofs | `TypeInv`: `TypeOK` and what it lacks to be inductive, that a request past its first statement and a slot that left the queue have a run, and that a slot with a record to write has a verdict |
| `StartsOnce`: `Spec => []StartedOnce` | RunLifecycleProofs | `StartInv`, for each run `RunStart`: only one slot is ever between its take and its start, because the move from queued to starting happens once; a script was not started while a slot may start it or the row is queued |
| `WithdrawnStaysUnstarted`: `Spec => []WithdrawnNeverStarts` | RunLifecycleProofs | the same invariant: a run withdrawn has left `queued` or has its slot past the point of starting |
| `Implements`: `Spec => FollowsTheRecord` | RunLifecycleProofs | `RecordInv` ties a slot's place to what its row may be: one that drives took the run, one that waits finds it running or over, one that collects finds it over. Each action is then a move of RunRecord or a stutter (`Legal`) |
| `ReaperIsRight`: `PromptStart => (Spec => []ReapedHasNoDriver)` | RunLifecycleProofs | `ClaimInv`: a run that a slot holds has a claim and no second holder (`HolderInv`), a request that read a live row read one that was taken, and when it is about to reap nobody drives the run (`ReaperInv`), and a run failed as lost was taken and has no driver (`LostInv`) |
| `StopReachesTheSlot`: `PromptSubscribe /\ MaxFaults = 0 => (Spec => []StopIsHeard)` | RunLifecycleProofs | `AskedInv`: a stop that is published, or about to be, is on the row. `HeardInv`: a slot with a script has started it, and one that waits for it listens and has heard every stop published |
| `LogAgrees`: `PromptStart /\ MaxFaults = 0 => (Spec => []AuditAgrees)` | RunLifecycleProofs | `AuditInv` on top of `ClaimInv`: a slot that drives a run finds it under way; one with an outcome to record finds none recorded and the row as it left it; a request about to reap finds nobody driving |
| `QueuedRunsHaveJobs`: `Spec => []QueuedHasItsJob`, a property of the proofs only: until something throws or dies, a queued run has its job in the list, with the request that pushes it or with a slot | RunLifecycleProofs | `JobInv`: a queued run that is claimed is with the slot that claimed it, so a slot that drops a job because of a claim drops a copy; of a run nobody asked for there is neither job nor claim. `RecordInv` is needed for renewals, which must not bring back the claim of a run that is queued |
| `EscalatesInOrder`: `Staged => (Abort!Spec => []StagesInOrder)` | RunLifecycleProofs | `OrderInv`: what was sent is exactly the stages up to the current one |
| `StopIsOnRecord`: `Staged => (Abort!Spec => []StoppedIsAborted)` | RunLifecycleProofs | `StruckInv`: a signal that found the script has been reached, or its channel is still open; then the terminal is too, or `overtaken` names the stage |
| `NoLateSignal`: `Abort!Spec => NothingIsSentAfterTheEnd` | RunLifecycleProofs | no invariant needed: every place that sends a command looks first, so it is true of each step |
| `AbortTypes`: `Staged => (Abort!Spec => []Abort!TypeOK)` | RunLifecycleProofs | `OrderInv` and `RestOK`: what is signalled and recorded is the current stage or one before it |
| `AbortImplements`: `Staged => (Abort!Spec => [][OneRun!Next]_(OneRun!vars))` | RunLifecycleProofs | `RowLive`: the row says running exactly as long as `drive` waits. With it the end of the run is `Conclude` of RunRecord and every other step, the marking of a stage too, a stutter |
| `EndedRowStays`: `Staged => (Abort!Spec => [][row.status # "running" => UNCHANGED row]_(Abort!vars))` | RunLifecycleProofs | the same: a mark that comes late meets the guard on `running` |
| `TypeCorrect`: `Spec => []TypeOK` | SessionsProofs | `TypeInv`: a request about to write has a session, and one about to store has its data; the mapping names areas that exist, which `DeleteArea` must keep up |
| `NothingIsInvented`: `Spec => []AreasWereGranted` | SessionsProofs | `GrantInv`: what a request has in hand and the mapping a sweep works from are from the past too |
| `LogoutHolds`: `Spec => []LoggedOutStaysOut` | SessionsProofs | `LeftInv`: nobody else knows of a session that is about to be stored, and a write as meant brings nothing back |
| `SweepsCatchUp`: `Spec => []StaleOnlyByOverlap` | SessionsProofs | `FixInv`: while nothing was cut short, each session that is behind has a sweep on its way that `Fixes` it: it has yet to read the mapping, or read the present one and has not passed the session |
| `TypeCorrect`: `Spec => []TypeOK` | TerminalStreamProofs | `TypeInv`: a message that ends a stream is the last one sent, and then nobody pumps |
| `LastIdStays`: `Spec => []LastIdIsLast` | TerminalStreamProofs | `LastInv` with `Told`: what follows `latest` was never answered for; the runner writes the end when all output is settled, and nothing comes off the PTY then |
| `HistoryIsKept`: `Spec => []HistoryOutlivesTheStream` | TerminalStreamProofs | `HistoryInv`: a stream that held output is empty only when its slot is done, and a slot gets there through the saving or a failure |
| `ShownInOrder`: `Spec => []InOrderOnce` | TerminalStreamProofs | `OrderInv`: what is on its way is past what the client saw and up to the cursor, in order; a replay from the start begins past what the client saw, because it was trimmed that far |
| `NothingIsLeftOut`: `Spec => []NothingIsSkipped` | TerminalStreamProofs | `SkipInv`: each entry up to the cursor is shown, on its way or gone |
| `HolesAnnounced`: `Spec => []HolesAreAnnounced` | TerminalStreamProofs | `HoleInv`: each frame on its way continues the one before it or a terminal that will have been cleared; the pump `Continues` where the last frame ended, unless a trim overtook it |
| `TypeCorrect`: `Spec => []TypeOK` | SchedulesProofs | lemmas about `UpTo`, `InOrder`, `FirstAt` and `WriteManagedBlock`: the places of a set are numbered from one without gaps or repetitions, so the block's jobs are a sequence of entries, the index of the edited one is in it, and the text sent is a crontab |
| `AuditCorrect`: `Spec => []AuditAgrees` | SchedulesProofs | `Audited`, for each update `Progress`: nothing is sent before the edit, a write that was answered was installed, and an update that ends while its write is on the way is answered with an error |
| `NothingForeignChanges`: `Spec => ForeignLinesStay` | SchedulesProofs | `ForeignKept`: the places outside a block are two ranges, so what is foreign is the file up to the opening delimiter and from the closing one on, which `WriteManagedBlock` glues around the new entries. `SentInv`: what is on its way is that text, written for the text read last, because a request is in the queue once |
| `TheJobClicked`: `Spec => OneJobChanges` | SchedulesProofs | `ManagedKept`: what is written parses to the entries. `SameRow`: an id tells the number of its job among all jobs (`IdOfNumber`), so the job in the clicked row has the id that was sent, and that number and the rows that have a switch tell its place in the block (`RowOfNumber`); the job that changes is this one or shares its digest |
| `TypeCorrect`: `Spec => []TypeOK` | CatalogProofs | `TypeInv`, one lemma per group of variables: a request that scans has a source in hand and in its list |
| `HistoryStays`: `Spec => []RunKeepsItsScript` | CatalogProofs | `MapInv`: a run has a row and a row has a source, which the foreign keys guard in `RemoveSource` and `CreateRun` |
| `WarnedAsStarted`: `Spec => []StartedAsShown` | CatalogProofs | `StampInv`: no stamp is later than the clock. `SeenInv`: wherever the same scan of a script is held (row, list, screen, start), it is held with the same header |
| `CatalogTrue`: `Spec => []CatalogIsTheListing` | CatalogProofs | `TodoInv` and `RowsInv`: the present rows of a source that nobody rewrites are its last listing; between the two statements of a replacement they are that listing and leftovers older than it (`Between`), which `MarkUnseen` takes away, unless somebody else wrote them since (`Clean`) |
| `RescanTrue`: `Spec => []RescanShowsTheDirectory` | CatalogProofs | `AnswersInv` (`FoundInv`, `DoneInv`, `AnswerInv`): what was found in a directory is what it holds, then what its rows say, then what the answer says, unless it changed or its rows were written since |
| `ListsAreFresh`: `Spec => []ListIsFresh` | CatalogProofs | the same: a source that a load has dealt with is not older than the TTL at its start |
| `TypeCorrect`: `Spec => []TypeOK` | ResultsProofs | `TypeInv`, split by worker, row, page and bounds; it needs that the files are finitely many, because a count is a cardinality |
| `AttributedRight`: `Spec => []CollectedIsWhatItWrote` | ResultsProofs | `Compared`: while the run goes on, a file that it did not write is as the first listing had it, and the difference of the two listings is what the run wrote, but for the files another touched or two listings cannot tell |
| `PanelIsComplete`: `Spec => []StoppedShowsTheFiles` | ResultsProofs | `Counted`: a count in the row, on its way or on the page is the number of the files recorded, and what a panel has are such files |
| `SettledForGood`: `Spec => []SettledStays` | ResultsProofs | `Sure`: an answer that is settled and was not made up is what the row says; with `LookedAfter` (a reaper that found no claim read a row that nobody holds) and `Placed` (what the worker's place says of its row) |
| `NeverGoesBack`: `Spec => PageNeverGoesBack`, a property of the proofs only: what a page shows never goes from over to live, nor from a count to another or to none | ResultsProofs | `Behind`: the answer on screen is behind the one in hand, and that is behind the row, which itself only goes ahead; the end that the reaper puts into an answer keeps both, because it read a row that was taken and the row is over when it has written |
| `TypeCorrect`: `Spec => []TypeOK` | AreaAdminProofs | `TypeInv`: a request has the shape of its kind at each of its statements, and an open panel is one of the list's |
| `TrailTold`: `Spec => []TrailTellsTheMapping` | AreaAdminProofs | `TrailInv`: of an area where nobody crossed, at most one change waits to be recorded, and with it the trail is the mapping; whoever else waits found the link already there |
| `SavesMeant`: `Spec => SaveWritesThisArea` | AreaAdminProofs | `SeenInv`: whatever a list, a refetch, an answer, a panel or a form holds of an area is something that area had been |
| `OwnShown`: `Spec => []OwnChangeIsShown` | AreaAdminProofs | `OwnInv`: a list that was asked for after a screen's last change is at least as new as it, because `onSuccess` cancels the refetch that is older; the first load, which it joins, was read since or is in `joined` (`Joined`) |
| `TransferTypes`: `Spec => []TypeInv` | TransfersProofs | `TypeInv` fixes the fields a slot and a browser have at each of their statements; `SlotIds`, `ClientIds` and `FreshInv` say that a request has one browser and is in the queue, with one slot or past both, and has no reply before a slot takes it |
| `TransfersAreWhole`: `Spec => []CompleteIsWhole` | TransfersProofs | `FlowInv`: for each browser its `Stream`, what it took and what still waits in the reply list, is `Sound`: a header that says what is cut, then chunks in order, none twice and, unless a part of the reply expired, none left out, and an end only after the last that the header promised. A slot that still serves the reply reads on where the stream ends (`Linked`). `PartsInv`: what was complete stays `Good` |

The assumptions are what the code guarantees of its parameters: a value that
means "none" is none of the others (`SentinelsAssumption`, `GoneAssumption`,
`NoneAssumption`), bounds are natural numbers and Redis keeps at least one entry
(`BoundsAssumption`, `BoundAssumption`, `CapAssumption`), switches are Boolean
(`TimingAssumption`, `StagingAssumption`; `Staged` is the part of the last that the
theorems about `Abort` need, which take StagedAbort as an instance), files and what people type are lines
(`LinesAssumption`), a digest stands for an id (`AliasAssumption`), what is mapped
at first exists (`MapAssumption`), there are
finitely many files (`FileAssumption` of Results), and the tables start
consistent (`InitialAssumption` of AreaAdmin). TLC evaluates each of them in the runs.

The invariants are needed because none of the properties is inductive: that a
script starts once says nothing of a slot about to start it, that a reaped
run has no driver says nothing of the request about to reap, that a session
is up to date once the sweeps have ended says nothing of one under way, a
terminal in order says nothing of the frames still to come, an audit trail
that agrees says nothing of the write that is still on its way, and a page that
shows the truth says nothing of the answer it is about to receive.

**Only model-checked:** every liveness property.
`LastIdIsLast`, `NothingIsSkipped`, `QueuedHasItsJob`, `PageNeverGoesBack`,
`AbortImplements`, `EndedRowStays` and the type invariants are proved and not part of a run. Liveness under fairness, `ENABLED`,
induction over data and `RECURSIVE` operators are outside what the installed
provers can do; the modules that are proved about use none of the latter.

## 6. Plan

Done: RunRecord, RunLifecycle, StagedAbort (with StopPromise), Sessions, TerminalStream, Schedules
(over Crontab), Catalog, AreaAdmin, Results and Transfers, each with its proofs.

Left, in the order of their worth:

1. **Proofs**: that the row of Results follows RunRecord. Results knows only live and
   over, so it needs a history variable for a run whose worker died before its script.
2. **More of the core package**: the header of a script and the frames are pure
   functions over text; stating them needs properties about that text.

## 7. Not modelled

List queries and the timeline (they change nothing), parsing of headers and
frames (pure, over text), validation of configuration and requests, SFTP, key
material and host keys (sequential I/O), the LDAP directory, the layout of the
frontend's pages, the OpenAPI document, migrations, build and deployment.
`PROJECT.json` names the reason for each component.
