# Verification of the Stride meeting server

TLA+ models, TLC runs and TLAPS proofs for the Go server in `src/` (package
`main`, the "kanban board app"). The server keeps live rooms, turns what is said
into durable memory, closes meetings, seals an analysis of them and lets agents
act. What can silently go wrong in it is the order of things across several
locks, files, goroutines, model calls and restarts, and that is what is
modelled here.

## The system and what is modelled

| Part | State | Operations | Hard behaviour | Status |
|---|---|---|---|---|
| Meeting close protocol (`meeting_finalization.go`, parts of `meetings.go`, `memory.go`, `kanban.go`) | meeting record with its finalization receipt, memory rows, Brain and digest rows, owned archive file | append, correct, delete a transcript; idle and manual close; finalizer passes; archive refresh; boot audit; retry timer | three stores under three locks, write-ahead fences, failed or ambiguous writes, crashes, late transcripts | `FinalizationReceipt`, `MeetingFinalization`, `AnalysisReadiness`; proofs in `MeetingFinalizationProofs`, `MeetingArchiveProofs`, `MeetingOwedProofs`, `MeetingRecoveryProofs` |
| Close queue (`meeting_finalization.go:1257-1618`) | two lanes, two workers, five marker maps, retry timers | schedule, promote, take, finish, rerun, arm, fire, cancel, stop | timers that fire while cancelled, signals meeting a job in any stage | `FinalizationQueue`, `MeetingJob`; proofs in `FinalizationQueueProofs` |
| Provider breaker (`provider_breaker.go`) | per seat: state, failures, cooldown, probe, epoch | admit, success, failure, release, settle | calls that end after the breaker has changed under them, one probe slot for many requests | `ProviderBreaker`; proofs in `ProviderBreakerProofs` |
| Runner job queue (`codex_runner_queue.go`) | job files, lease, claim id, result | enqueue, claim, renew, callback, finalize, cancel | expired leases, runners that come back | not modelled: the executor is retired (`codexExecutionEnabled` is compiled to false), so no job is queued |
| Canonical approvals (`canonical_approval*.go`) | approval, claim, receipt | decide, claim, complete | double spend of one approval | not modelled |
| Realtime tool journal (`openai_tool_journal.go`) | authenticated file, replay envelopes, external high-water anchor | open, recover, write, read, close | rename, fsync, compare-and-swap and reread in a row, each of which may fail or be cut off | `HighWaterLog`, `ToolJournal`; proofs in `ToolJournalProofs` |
| Tool loop (`openai_tool_loop.go`, journal operations, product finalizer) | runs, operations, executed effects, the artifact's final use | run, recover, reserve, attempt, commit, record, finalize, complete | exactly-once effects and one final answer over carriers, retries and restarts | `ToolLoop`, `AnswerOnce`; proofs in `ToolLoopProofs` |
| Private voice lease (`private_realtime_voice_lease.go`) | lease, offer digest, close receipt | acquire, attach, close, expire | two devices, lost close | not modelled |
| Consent lanes (`consent_lanes.go`) | per principal decisions, revision | grant, decline, revoke, capture check | revocation racing capture | not modelled |
| Admission anchors, rollover (`admission_anchor.go`) | first-admission records, pending rollover | admit, stage, commit | crash between the two meetings of a manual archive | not modelled |
| Room live state and media actor (`room_live.go`, `media_actor.go`) | sticky command bits, generations | post, drain, close | coalescing without losing a reconciliation | not modelled |
| Scout speaker epochs (`office_scout_epoch.go`) | requester binding per response | bind, consume | a late callback inheriting a speaker | not modelled |
| Canonical capture and reconciliation (`canonical_*.go`, `capture_sequence.go`) | outbox, canonical rows, parity state | capture, replay, reconcile | dual write, sequence gaps | not modelled |
| Goal engine, agent threads, Scout chat, transcription, rendering | artifact metadata, queues | many | decided by model output, or I/O | not modelled |
| Clients, deployment, scripts | | | | not modelled |

How the parts meet: a room's transcript is appended to memory; a fence inside
that append reopens the meeting's receipt and downgrades its archive before the
row becomes durable; the commit hook schedules the close queue; a queue worker
runs the finalizer, which calls the model for Brain and digest rows (through the
provider breaker), binds them to the receipt and refreshes the archive file; the
boot repairs what a crash left. The assistant's tool calls are a system of their
own: the loop drives the provider and the executor and records each step in the
journal, whose storage makes that step all or nothing.

## The close protocol

`FinalizationReceipt` has the operations of `meetingStore` on one receipt as
operators on a record (`Begun`, `Observed`, `Completed`, `Degraded`,
`Finalized`, `Synced`); `Begun` and the others return the receipt unchanged where
the code returns early. `MeetingFinalization` has the actors around it:

| Variable | Code |
|---|---|
| `transcripts` | the meeting's transcript rows in `memory.go` |
| `brains`, `digest`, `gen` | durable Brain and digest rows and the counter behind their identities |
| `receipt`, `ended`, `archived` | `meetingRecord.Finalization`, `EndedAt`, `ArchiveID` |
| `holders` | who still holds a record with the present `UpdatedAt` (see below) |
| `archive` | the owned archive file: embedded receipt state, its source, the rows it lists |
| `mut` | a transcript mutation inside `memory.mu`: fence, archive lock, write, commit, hook |
| `fz` | the queue worker inside `finalizeMeetingCore` |
| `job`, `again`, `retry` | the meeting's entry in the queue, the rerun flag, the timer's generations |
| `wr` | the three callers of the archive refresh |
| `audit` | `auditMeetingFinalizationsAfterBoot` |
| `closer`, `publishing` | `autoArchiveIdleMeeting` or `archiveMeeting`, and `meetingArchivePublishing` |

Each region under a lock, each store write and each model call is one action,
with the early returns of the code as guards and its failure paths as further
actions. Reads made under one lock and used under another are kept in the
actor's record (`fz.src`, `wr.mem`, `audit.rec`), so that they can be stale.

Abstractions, and what they rest on:

* The source high-water mark is the exact set of rows. The code's mark is
  count, last id, update times and a digest of the rows, which differ when the
  set does.
* One Brain row and one digest per source; batches inside a pass are folded.
* `UpdatedAt` strictly grows with every record write, so comparing it is asking
  whether anybody wrote since: `holders`. `RetryAfter` together with
  `RetryAttempt` likewise, as the `current` and `stale` values of `retry`.
* A replacement that reports an error has left the old file, or has installed the
  new one and failed only to sync the directory (`durable_file.go:77-84`). Both
  outcomes are explored: `PersistFails` for the receipt, `ArchiveFails` for the
  archive file, `MutCommit` for the memory store. The write that ends a meeting
  rolls back or is recognised as the close it is (`CloseEnd`).
* A mutation holds the read side of `meetingLifecycleMu`, which a close excludes
  (`LifecycleFree`, from `kanban.go:281-285, 9135-9138`). The slop classifier
  (`slop_classifier.go:447`) and the restore of a row it quarantined (`990`) do not take
  it. They touch only rows at least seven days old (`slopEligibilityAge`); a meeting
  that closes as idle is taken to hold none, so they are left out.
* A crash is a process crash; every completed rename survives it.
* The finalizer of one meeting is a single run (`TrackedOnce` of the queue
  module checks that), and one worker at a time arms the timer here; workers that
  overtake each other there are in `FinalizationQueue`.
* A failed e-mail update of the archive is folded into the write failure.

`AnalysisReadiness` is what the receipt and the file together promise: a claim
of finished analysis is made only for the present source, and it is withdrawn
before the source changes. `ImplementsReadiness` is the refinement.

`MeetingJob` is what the protocol uses of the queue: one meeting's job, the signals
that start or repeat it and those who still have to send one. `KeepsToTheQueue` says
that `job`, `again` and the two askers (a close about to publish, a commit hook about
to run) do nothing else; `JobsAsPromised` says that the real queue gives this to each
of its meetings. Together they justify modelling the queue as two variables here.

### Runs

Rows are interchangeable and two are enough for a source to grow, to shrink and
to change while it keeps its size. `MaxPasses` is the constant of the code in
small. `ArchiveCatchesUp` is waived once an output was edited from outside: such an
edit during the boot audit makes the audit reopen the receipt a worker is just
settling, and the signal is swallowed as in `finalization_audit_signal`. Every run
uses `CHECK_DEADLOCK FALSE`, because a closed meeting with nothing to do stops.

| Run | Instance | Question |
|---|---|---|
| `finalization_close` | both close modes, one late mutation, two failures of any store write or of the provider, one crash | `ImplementsReadiness`; neither receipt nor archive outlives its source; a receipt that says the file is synced agrees with it; a deleted row leaves the file |
| `finalization_owed` | two late mutations, provider failures, missing key, weak fairness; the pass budget can run out | a closing receipt has somebody who owes it a pass, and settles |
| `finalization_recovery` | two crashes anywhere, one tampered output, provider failures, weak fairness | broken outputs are noticed; an archived meeting ends with a file that holds the settled receipt |
| `finalization_fence_failure` | fence failure | violated: see findings |
| `finalization_audit_signal` | crash, audit and a late mutation | violated: see findings |
| `finalization_publication_gap` | close and a mutation inside the publication | violated: see findings |

`ClosingIsOwed` does not hold with store failures, with a crash, or in the
manual close; the three violation runs show why, one each. It is therefore
checked where the code keeps it. Three hazards of the list (the fence that fails
after it reopened the receipt, the publication flag lowered after the signal, the
boot audit that reopens what a live worker has sealed) thus show up in those violation
runs only: the instance of `finalization_owed` has no store failure, crash or
manual close, and its passing says nothing about them.

Fairness is weak fairness of every goroutine that has been started (a finalizer
step, a pending hook, a due timer, an archive writer, the audit, a close in
progress). None is assumed of users: nobody has to close, to speak or to edit,
and a provider may fail for ever.

### Proofs

`MeetingFinalizationProofs` proves for every set of rows, every bound and every
kind of fault, from the assumptions on the constants named in
`MeetingFinalization`:

* `TypeCorrect`: `Spec => []TypeOK`.
* `InvariantHolds`: `Spec => []IInv`.
* `ReceiptCoversSource`: `Spec => []FinalizedCoversSource`.
* `ArchiveNeverStale`: `Spec => []ArchiveNeverOverclaims`.
* `Refinement`: `Spec => ImplementsReadiness`.
* `PromiseCoversSource`: `ImplementsReadiness => [](FinalizedCoversSource /\
  ArchiveNeverOverclaims)`, so the abstract promise is not weaker than the two
  invariants.
* `MeetingKeepsToTheQueue`: `Spec => KeepsToTheQueue`. No run has this property; TLC
  finds it to hold under the constants of `finalization_close` too.

The safety properties are not inductive: what they say about the receipt
depends on what every actor has read and not yet written. `IInv` adds, part by
part: which actors the locks exclude (`LifecycleInv`); that from the fence on no
claim is standing until the mutation has committed (`Fenced`); that an open
meeting has claimed nothing (`OpenInv`); what a receipt's revision says about the
source it was taken from (`ReceiptInv`), hence that a pass or the audit with an
unchanged revision still holds the present source (`FzInv`, `AuditInv`); and
what an archive writer may install (`ArchiveInv`). One lemma per action shows
that it is kept. The refinement follows because every action writes at most one
of memory, receipt and archive, and the action that changes memory is one that
finds no claim standing.

`MeetingArchiveProofs` adds what the owned file holds, from the same assumptions:

* `FileHolds`: `Spec => []FileInv`.
* `SyncedIsTrue`: `Spec => []SyncedMatchesArchive`.
* `DeletedRowsStayOut`: `Spec => DeletionReachesArchive`.

`FileInv` says why a late write is harmless. While a receipt is synced, or a writer
that still holds the stored version is about to mark it so, every receipt copy held
by anybody inside the archive lock equals the stored receipt, so whichever write
lands last installs the same thing (`SyncInv`). A memory snapshot that has passed,
or would still pass, the version check is what memory holds now, and there is none
once the fence is up (`RowsInv`): the fence's new receipt version is what turns away
a refresh that read memory before a deletion.

`MeetingOwedProofs` proves `Spec => []ClosingIsOwed` twice, because it does not hold
for every kind of fault (see the violation runs). `NobodyWaits` has it under `Calm`, the
conditions of the run `finalization_owed`: no failed write of the record or of the
archive, no crash, no manual close. `CrashesLeaveNobodyWaiting` has it under `Untouched`,
with any number of crashes, both close modes and failed writes of the archive and of
memory, but no failed write of the record, no mutation after the end and no output edited
from outside: with a late mutation a crash leads to `finalization_audit_signal` and a
manual close to `finalization_publication_gap`, and an edited output lets the boot audit
reopen a receipt under a live worker in the same way. The two share `OwedInv`. Its
`PassInv` says that a pass that was not overtaken has marked all three stages by the time
it claims, so that `markFinalizationComplete` never refuses it and a worker never leaves
a closing receipt behind. `CalmInv` adds that there is no audit and that a publication is
that of a close under way; `AloneInv`, that the boot audit shares the meeting with no
worker, timer or close until it has sent its signal.

`CrashesLeaveNoArchiveBehind` is the same for the owned file, and the safety core of the
liveness property `ArchiveCatchesUp`: under `CatchingUp`, which is `Untouched` and writes
of the archive that succeed, a settled receipt that is not yet in the file has a run, the
audit or a timer that will be honoured (`ArchiveIsOwed`). Its invariant `CatchUpInv` says
that a writer is out only for a run, the audit or the manual close, one at a time, that
it keeps the version it has read until it marks it, and that a run or an audit ends only
when its writer has nothing left to do. A failed write of the archive does leave the file
behind until the next boot, which is why it is excluded; with failed writes of the record
TLC finds a file left behind too, with one edited output or one late mutation it does not.

`MeetingRecoveryProofs` proves `BrokenOutputsNoticed`: `Spec => []BrokenOutputsAreOwed`
under `Quiet`, the conditions of the run `finalization_recovery` (no transcript mutation
after the end, no failed write of the record), for any number of edited outputs and
restarts. Its invariant ties three readers to the stored claim: the outputs a pass has
marked are in memory unless it has been asked to run again (`MarksInv`), a pass that
verifies compares the very bindings that are stored, and a broken claim that no job
answers for has the boot audit before its check, holding that claim (`NoticeInv`).

Only model-checked: the liveness properties (TLAPS has no liveness or `ENABLED`
reasoning here).

## The close queue

`FinalizationQueue` has every region under `meetingFinalizationRunMu` as one
action, for several meetings at once: `Enqueue` is
`scheduleMeetingCoreFinalizationPriority`, `EnsureWorkers`, `TakeFresh`,
`TakeBacklog`, `Leave` and `Finish` are the worker pool, `RetryRead`, `Arm`, `Fire`,
`Identify`, `Check` and `RetrySignal` the retry timer, whose object lives on after
`Stop` if its callback has started. A run of the finalizer is reduced to what it
does to the receipt's state: it begins (closing), ends (finalized) or fails
(degraded with a retry due, or failed for good). `fits` says that the receipt has
not been written since a goroutine or a callback read its `RetryAfter` and
`RetryAttempt`. Late transcripts are kept out of a publication in progress (the
lifecycle lock does that for the idle close).

| Run | Instance | Question |
|---|---|---|
| `queue` | a historical and a live meeting, one late transcript, one failed run, shutdown, weak fairness | one place per job, two workers, history serial, marks follow jobs, timers can be cancelled, a closing receipt is on its way to a run, parity work is off meanwhile; every close and late transcript gets a fresh run; every job ends; each meeting's job is the `MeetingJob` the close protocol is built on |
| `queue_lost_retry` | one live meeting, two failed runs | violated: see findings |

The run allows one late transcript and one failed run, enough for a second signal to
meet a job in every stage, a timer to be armed, and its callback to run into a
cancellation; a run with two failures is `queue_lost_retry`. Three worker slots are one more than the code may start and two timer slots one
more than one meeting needs; for more of anything there are the proofs below. Weak fairness is of
goroutines, expired timers and a started boot or close; the application may be
shut down at any time.

`FinalizationQueueProofs` proves every safety property of `queue` for any meetings,
historic or live, any finite set of worker slots, any timers, and any number of late
transcripts and failures (`QueueTyped`, `Tracked`, `FanOut`, `FreshOpen`, `Deferral`,
`Marks`, `Listed`, `Queued`), and `EachMeetingServed`, the refinement of `MeetingJob` for
each meeting: `JobOf` reads the job off the lanes and the active marks, `AskedOf` is the
set of those about to signal, and every action of the queue is one step of one meeting's
job or none. The assumptions are that historic meetings are meetings
and that "none" names neither a meeting nor a timer. `IInv` (`QueueInvariant`) adds
what the marker maps mean together:

* `queued` says which lane holds a meeting, no lane holds one twice, and a tracked
  meeting is queued or active but not both (`LaneInv`);
* `active` says which worker is on it and in which lane, and the serial flag is up
  exactly for a job of that lane (`JobInv`); `workers` counts the goroutines there are
  (`PoolInv`). The two give `BoundedFanOut`, and a second worker whenever fresh work
  waits gives `FreshLaneOpen`;
* no worker, timer or mark is about a meeting the boot has not reached (`AimInv`,
  `BootInv`), which is why a historical job that is not a retry is never that of a
  live meeting: a live meeting is in the fresh lane or carries a retry mark
  (`LiveInv`, and with it `LiveCloseDefersReconcile`);
* a receipt reopened after the run on it has settled it is owed a rerun before that
  job ends (`SettleInv`, and with it `ClosingIsQueued`).

`RetriesLostOnlyOvertaken` bounds the finding of `queue_lost_retry`: as long as no
worker is `Overtaken` (it holds a receipt that was degraded anew after it read it,
and is about to arm a timer), `RetryIsOwed` holds. It needs that an entry of the
timer table is that meeting's own armed or fired timer (`NamedInv`), so that
putting one timer down never takes another meeting's retry; that a run which did
not fail leaves no degraded receipt (`SoundInv`), so that `Cancel` and a `Finish`
without error owe nothing; and that a degraded receipt has a job, a timer or
callback whose snapshot fits, or a worker that will read it (`OwedInv`). `Arm` is
the only step whose proof uses the hypothesis.

`FreshServed` and `JobsEnd` are liveness and only model-checked.

## The provider breaker

`ProviderBreaker` is the record of one seat (the records of different seats
never meet) and the requests that ride it through `withProviderResilience`.
Each region under the registry's lock is one action; a call to the provider is
the gap between `AdmitPrimary` or `Steer` and its outcome: `Succeed`
(`recordPrimarySuccess`), `NoEvidence` (`releaseProbe`, or nothing for an ordinary
call), `Fail` (`recordPrimaryFailure` and the choice to replay) or `Replayed`
(`recordFallbackOutcome`). `Look` is any health read, which settles the record.
A refused request changes nothing and has no action.

`Class` keeps two of the wire failure classes, because the breaker only asks
whether one may be replayed: quota may not, the others may. The clock is
reduced to whether the cooldown of the last opening is over. `Elapse` waits until no call
admitted before is still with the primary dial: the cooldown is ten minutes
(`provider_breaker.go:40`), and a call of a resilient seat at most two, because
`openAIResponsesRequestTimeout` leaves only web searches and long-running writers
unbounded or long, and the seats that make those are not resilient. Without this
bound an old call could overlap a probe, and `OneProbe` would not hold.

The histories `since` (calls admitted since the last opening) and `quotaOut` (the
latest evidence on the primary dial is a quota failure) are read by the properties
only.

| Run | Instance | Question |
|---|---|---|
| `breaker` | four overlapping requests, threshold three as in the code, five wire failures | one probe at a time; its slot is taken exactly while it is out, and comes back; late successes do not close the breaker; nothing is steered to a twin while the account is out of quota |

Five failures open the breaker by the threshold and let two late ones follow, or
let two probes fail. Fairness: every call ends (the HTTP client's timeout);
nobody has to send a request.

`ProviderBreakerProofs` proves, for any number of requests, any threshold and any
number of failures, `BreakerInvariant` (`Spec => []IInv`) and from it
`BreakerTypeCorrect`, `AtMostOneProbe`, `SlotNeverLeaks`, `StaleSuccessNeverCloses`
and `QuotaNeverSteered`. `IInv` says which calls can be out in which state
(`SlotInv`: none is a probe unless half-open, and then it is the only one), that
the cooldown outlasts them (`DueInv`), that the epoch tells those admitted since
the last opening from the others (`EpochInv`), and that an unrefuted quota failure
is why the breaker is not closed (`QuotaInv`). `ProbeReturned` is liveness and only
model-checked.

## The tool journal

`ToolJournal` is the storage under every journal operation: one authenticated
file, replaced as a whole, whose generation and digest an external store fences by
compare-and-swap. A file is its history, the sequence of the writes it holds; its
length is the generation, the sequence itself the digest, so "generation plus one
and the right previous digest" is `Successor`.

| Variable | Code |
|---|---|
| `file`, `disk` | the journal file by name, and what a power loss leaves of it |
| `envs` | encrypted replay envelopes in the directory |
| `hw`, `wire` | the anchor in the high-water store, and a swap that timed out on its way |
| `life`, `pc`, `job` | the flock and `poisoned`; the step of the call under `journal.mu`; initialisation, recovery or a mutating call |
| `state`, `anchor` | `journal.state`, `journal.anchor` |
| `acked`, `refused`, `served`, `scars` | histories: what callers were told, what was read, which accidents happened |

`Open`, `OpenCheck`, `Close` are the life of a process; `Begin` to `Verify` are the steps of
a mutating call (`writeEnvelope`, then `persistLocked`: rename, directory sync, swap,
the `Load` after a failed swap, restore, reread), each with its error path; `Serve` and
`Diverge` are `requireUsableLocked`. An open file that does not fit the anchor is
refused, which is no step. The environment may fail or delay every one of these,
kill the process, cut the power, or put an older copy of the file back. A sync that
fails leaves open whether the new file is durable.

`HighWaterLog` is the promise: a log that only grows, that keeps every
acknowledged write, and in which no reader ever sees a write that was refused.
`ImplementsHighWaterLog` maps the log to `hw`.

`Reopens` is conditional on what the histories call scars: the `Load` that should decide
failed (`blind`), a swap landed late (`late`), recovery adopted a file whose rename had
never been synced (`unsynced`), or a backup was put back (`backup`). The first is the
finding below; with the second the high-water store is one ahead of the restored
file as well; with the third a later power loss takes back a file whose generation
has been fenced. In all of them every later open ends in
`errOpenAIToolJournalRollback`: nothing wrong is ever served, but nothing is served any
more.

| Run | Instance | Question |
|---|---|---|
| `tool_journal` | five writes, four faults of any kind | the promise, and with it the order of reads; acknowledged and refused writes, envelopes, reopening |
| `tool_journal_wedge` | two writes, a lost reply and a failed `Load` | violated: see findings |

Four faults are enough for a failed write whose restore fails too, twice, or with a
crash and a power loss behind it; five writes leave one for every fault and one more.
`CHECK_DEADLOCK FALSE`, because a wedged journal stops.

`ToolJournalProofs` proves every property of `tool_journal` for any number of writes and
faults. The inductive invariant `IInv` (`JournalInvariant`) adds to the types: that no write is issued
twice (`Bounded`); how file, anchor and memory relate at each step of a call
(`Flight`); where acknowledged writes are kept (`Kept`) and refused ones cannot be
(`Hidden`); and that envelopes cover all of it (`Covered`). Two theorems are about the
promise alone: whatever implements `HighWaterLog` never shows a reader less than before
(`PromiseOrdersReads`, so no run checks `ReadsExtend` by itself), keeps what it acknowledged
and never shows or acknowledges what it refused (`PromiseKeepsAnswers`).
`AnsweredSwapsPoison` is the other side of the finding `tool_journal_wedge`: as long as no
`Load` stays without an answer and no swap lands late, no caller is told of no effect about
a write that the anchor has. Facts about sequences
(what `Append` and `SubSeq` do to ranges) are lemmas of their own.

## The tool loop

`ToolLoop` has the carriers of one process, answering requests about one artifact
over the journal's runs and operations. Every journal call is one step, which
`ToolJournal` justifies, and so is every call of the provider, the executor and the
finalizer; between two steps anything may happen. A call that returns an error ends
the carrier's `Run`: all error returns, ended leases and contexts are `GiveUp`.

| Variable | Code |
|---|---|
| `runs` | `openAIToolRunRecord`: state, request digest, provider turns |
| `ops` | `openAIToolJournalRecord` and its envelope: state, run, sequence, terminal text, final-use receipt |
| `applied`, `final` | what the executor did; the final use in the artifact's metadata |
| `cs` | the local variables of each `Run` and where it is |
| `asked`, `answers` | histories: provider responses, answers given to callers |

The actions follow the code from `Recover` (`ActiveOperationRunForExpectation`) over
`Lock` to `Mark` (`resumeOpenAIToolOperation`), `BeginProviderTurn`, `Respond`, `Reserve`
(a collision, a replay, a new operation), to `RecordRunTerminalResponse`, `Inspect`,
`Finalize`, `CommitFinalUse`, `Complete` and `CompleteRun`. Abstractions:

* An operation is named by its semantic effect: the journal keeps at most one
  operation per effect alias. Arguments, preimages, digests of outputs and
  histories are left out; where they disagree the code returns an error.
* The executor answers truthfully whether an effect took place; `ambiguous` and
  `absent` are the faults in which it or the finalizer does not. That is what the
  product's executor derives from the artifact's authenticated receipts.
* A correlation collision (`collision`) may strike whenever a call is reserved.
* The provider-admission guard repeats a resume until the source holds still; one
  pass is kept, since a second one only reconciles again.
* Refused and failed provider responses are `GiveUp`.
* `SupersedeRun` and the adoption of another run's operations
  (`openai_tool_loop.go:456-496`) have no action. They need an operation of the same
  request in another run, and `OneRunPerRequest` shows that a request never has
  two runs.

| Run | Instance | Question |
|---|---|---|
| `tool_loop` | two carriers, two requests, two effects, two texts, four calls, a limit of three turns, one fault | effects happen once; runs are numbered without gaps; answers are the artifact's one final use and the journal backs them; the turn limit holds over restarts; recorded texts and settled runs stay |

Two effects and two texts are what it takes to get a run of two operations and a
second answer that differs; four calls are two per carrier, so that each may resume
what the other left. The limit is reached by a run of two calls and a text.
`CHECK_DEADLOCK FALSE`, because the calls are bounded and a quarantined run stops.

`ToolLoopProofs` proves every property of `tool_loop` for any finite sets of carriers
and effects, any requests and texts, any turn limit and any number of calls and
faults. None of the properties is inductive, because each rests on what a carrier
read in an earlier step. `IInv` (`LoopInvariant`) adds:

* a carrier works on a run there is and holds operations of that run only
  (`CarrierInv`), which is why a completed run has operations and is found again by
  the next call of its request (`RunsInv`, and with it `OneRunPerRequest`);
* no operation has two lock holders, and the holder about to execute knows that the
  effect is absent, the one about to commit that it is there (`HoldInv`, and with it
  `EffectsOnce`);
* the receipt of an operation is the final use of the artifact and pins its run, its
  text and the order of the whole run; who receipts finds the final use in place
  (`OpsInv`, `FinalInv`, `TextInv`, `AnswersInv`, and with them `AnswersAreFinal`);
* answers counted and answers asked for are together at most the turns in the
  journal (`TurnsInv`, and with it `TurnsBounded`).

`AnswerOnce` is what all of this amounts to for the artifact: an effect takes place at
most once, one final use is made, of effects that took place, and every answer is that
one. `LoopImplementsAnswerOnce` proves `Spec => ImplementsAnswerOnce` with `applied`,
`final` and `answers` as they are and everything else hidden (TLC finds it to hold under
the constants of `tool_loop`; no run repeats it); `PromiseAnswersOnce` draws the
consequences from the promise alone.

A step changes the operations in one of four ways, and the runs likewise (`OpsStep`,
`RunsStep`); most parts are shown to be kept by those, the carriers' parts action by
action.

Met while modelling, seen with TLC, and not asserted:

* A run recovered under a changed request digest, for which
  `ActiveOperationRunForExpectation` exists (comment at `openai_tool_journal.go:1850`),
  can finish what it has, but `Reserve` refuses it every further operation because the
  digests differ (1303).
* A provider that answers with text only always ends in the error of
  `RecordRunTerminalResponse` (1513), although the comment at 1812 and the check at
  `openai_tool_loop.go:366` expect terminal-only runs.
* Between `Finalize` and the first `CommitFinalUse`, another carrier can still reserve an
  operation into the run (1411 looks at journal receipts only). The final use then names
  fewer operations than the run has, and the run cannot complete. The product starts one carrier per artifact,
  except when it re-activates one in state finalizing (`openai_tool_activation.go:160-188`).
* Two concurrent first calls with different requests can leave two live operation
  runs, after which every call fails ("multiple live operation runs").

## Findings

* `finalization_fence_failure`: an append or a correction whose archive
  downgrade fails after the receipt was reopened returns without the commit
  hook; the receipt stays closing with nothing scheduled, against the comments at
  `memory.go:460` and `memory.go:2274`.
* `finalization_audit_signal`: the boot audit reopens a receipt a live worker has
  just sealed, and its backlog signal is swallowed because that worker is still
  active, against `meeting_finalization.go:1334`.
* `finalization_publication_gap`: `endMeetingArchivePublication` schedules before
  it lowers the publishing flag; a mutation whose hook still sees the flag is
  scheduled by nobody.
* `queue_lost_retry`: a failed worker that read the degraded receipt before a
  second run failed too replaces the valid retry timer by its own stale one.
* `tool_journal_wedge`: a swap of the high-water anchor that was applied, whose
  reply was lost and whose follow-up `Load` failed too, is taken for a refusal: the
  file goes back, the caller is told of no effect, nothing is poisoned, and the
  journal never opens again.

Four more disagreements of the tool loop with its comments are described in its
section; they are not asserted by a run.

## Limits

* A responder that panics between admission and report would keep the probe slot;
  the breaker's model has ordinary returns only.
* A receipt write that fails inside the finalizer arms no timer, because a timer
  is armed only for a stored degraded receipt; the meeting waits for the next
  signal or boot. The code promises nothing here, so no run asserts it.
* Not modelled of the close protocol: the successor sitting of a manual archive,
  a second archive of an ended meeting (`kanban.go:8788-8803`), the recap card,
  live Brain cleanup, source-episode publication, and the counters for observers.

## Not modelled, and why

The server is some 330,000 lines, most of it web and native clients, product
features whose control is decided by model output, handlers that read and write
one record under one lock, and operations scripts. What is modelled is where several
actors, stores and failures meet and where the code says in its comments what must
hold. Of that kind, and left out:

* Private voice lease (`private_realtime_voice_lease.go`): two devices, an offer and a
  close receipt; consent lanes (`consent_lanes.go`): revocation racing capture;
  canonical approvals (`canonical_approval*.go`): a single-use permit, in part inside
  Postgres transactions. Each is a next module; they share no state with the parts
  above.
* The second sitting of a manual archive (`admission_anchor.go`, rollover) and the
  archive of an already ended meeting: they extend `MeetingFinalization`, whose
  instances are at the limit of what TLC finishes.
* Media actor and room state (`media_actor.go`, `room_live.go`): sticky bits and
  generations around WebRTC callbacks, mostly library behaviour.
* Canonical capture and reconciliation: its guarantees are those of SQL
  transactions and unique indexes.
* Key rotation of the tool journal: cryptography and one more mutating call.
* The runner queue: retired, no job is ever queued.

Only model-checked: the properties named as such in the sections above, and all
liveness.
