# UAAgro voice agent: a TLA+ verification project

UAAgro-VoiceAgent is a Hindi voice agent for a farmers' helpline.  A *voice
worker* answers and places telephone calls and holds the conversation; an *API*
serves an admin panel in which people approve and run outbound campaigns, keep
the knowledge and the scripts, and watch calls live; a *background worker* (ARQ
on Redis) dials the campaigns, finishes calls that have ended, indexes documents
and settles what was left open; PostgreSQL holds everything that lasts.

This directory models the parts in which several of those processes or tasks
write one thing, in which something is prepared before it is known to be wanted,
or in which a count, a time-out or a promise to a farmer has to survive an
awkward order of events.

Paths below are relative to `src/`; `vw` stands for
`apps/voice-worker/src/voice_worker`, `worker` for `apps/worker/src/worker`,
`api` for `apps/api/src/api`, `db` for `packages/db/src/uaagro_db` and `domain`
for `packages/domain/src/uaagro_domain`.

## 1. Inventory

| Component | State it keeps | Operations | What is hard | What makes it correct |
|---|---|---|---|---|
| Compliance gate (`domain/compliance.py`, `db/campaigns.py`) | none; reads a contact's facts | `evaluate`, `first_failure`, `within_calling_window`, `load_contacts` | boundaries of caps and hours; facts read over several queries | the caps hold at the dial, whatever else is dialling |
| Outbound dialer (`worker/campaign.py`, `dialer.py`, `tasks.py`) | a run's place in its list, its dial tasks, the status it marks | `run_campaign`, `Dialer.run`, recheck, `_record_attempt`, originate | crash, job time-out, lost answer, control key unreachable, two runs of one campaign, stale checks | an attempt is on the row before the call; caps hold; COMPLETED means the end of the list; every run ends |
| Campaign panel (`api/routers/panel_campaigns.py`, `panel_dial.py`, `services/jobs.py`) | `campaigns` rows, the control key, the job queue | import, quick dial, approve, start, pause, resume, stop | requests race; Redis is written before the row is committed | nothing is dialled unapproved; four eyes; a stop stops |
| Outbound contact and call (`vw/outbound/responder.py`, `vw/runtime/repository.py`, `assembly.py`, `worker/contacts.py`, `postcall.py`) | the contact row, the call row, `dnd_status` | script turns, link, finish, finalise, post-call backstop, sweep | four processes write one row without a lock, each from what it read earlier | the farmer's decision stays; every dial is settled; an opt-out shown is an opt-out recorded, if the call had a number |
| Call session (`vw/runtime/session.py`, `main.py`) | the call in progress, its tasks and its persist queue | start, turn, transfer, stop, close, drain | ends in many ways; full queue; drain time-outs; a transfer under way when the line drops | every turn stored or reported lost; the call closes |
| Post-call pipeline (`worker/postcall.py`, `tasks.py`) | tickets, cost, summary, farmer | nine stages in one transaction | one stage of several failing; the job twice | a promised call-back has its ticket, once |
| Turn loop (`vw/pipelines/conversation.py`, `vw/turn/*`) | phase of the turn, speculation, watchdog, silence clock | commit, speculate, discard, interrupt, resume, prompt, end | speculation has effects before commit; several tasks speak through one sender | one answer per turn, to what was said; a quiet line is timed |
| Streaming recogniser (`vw/adapters/stt/soniox.py`) | the turn folded from the vendor's messages, a bounded queue | progress, end of turn, eager timer, close | corrections, timers between messages, overflow | no turn told twice, none lost while events find room; a pause is guessed |
| Playback (`vw/runtime/playback.py`) | frames sent, segments, cancel flag | play, flush, cut, resume | a cut against a paced sender and the provider's buffer | what is remembered as said was heard |
| Voice gate (`vw/runtime/vad.py`) | floor, onset and stationary windows | one frame | a fan or a pump taken for a voice | noise neither interrupts nor holds the line |
| Inbound agent (`vw/flow/agent.py`, `direct.py`, `context.py`, `focus.py`) | memory, focus, counter of misses, flow state | respond, discard, truncate, resume | answers are cut, withdrawn and resumed in any order over one memory | questions are kept but for those a withdrawal may reach; a caller is not asked for ever |
| Escalation, transfer and tools (`vw/flow/escalation.py`, `vw/tools/*`) | `last_turn`, the registry | decide, transfer, promise a call-back, look up | the decision is taken in one place and acted on in another | who is told of help gets it |
| Vendor resilience (`vw/adapters/resilience.py`, `llm/gateway.py`, `tts/bakbak.py`, `stt/soniox.py`) | one breaker per vendor and service | `call`, `_admit`, `_record`, `_succeeded`, ladder of the gateway | calls admitted before the circuit opened end after it; cancellation; admission of streams | one probe; repeated faults open; a recovered vendor is found again |
| Data source sync (`api/services/sources/sync.py`, `worker/sync.py`) | sync runs and tasks | begin, pull, finish, stale close, delete | panel and cron start one source together; a stale run is closed while it pulls | a row tells the truth and does not run for ever |
| Knowledge (`api/routers/panel_knowledge.py`, `worker/ingest.py`, `vw/knowledge/*`) | documents, passages, indexing jobs | upload, reindex, publish, withdraw, delete, index, chunk | jobs of one document, or of one title, race in two processes | indexed means its own text; passages carry the document |
| Scripts (`api/routers/panel_flows.py`) | versions of a flow | clone, edit, publish, pin, speak | publications race; a pinned version is edited | one version live; approved words are spoken |
| Live feed (`domain/livefeed.py`, `api/services/events.py`, `panel_live.py`, `admin/src/lib/live-reducer.ts`) | queue, stream, scope, board | publish, drain, snapshot, subscribe, reduce | snapshot and events in any order; overflow; scope | the board is right when all was told; no other centre's call |
| Audit chain (`db/audit.py`) | hash-chained rows | append, verify | concurrent appends, rollbacks, a walk beside them | one chain; no false alarm |
| Storage, partitions, crypto, row-level security, sign-in, panel pages, demonstration site | | | | see section 8 |

How they meet: the panel writes a campaign's row and the Redis control key and
enqueues an ARQ job; the job reads both and asks the telephone provider to
ring; the provider opens a media stream to a voice worker, which finds the
contact again by the provider's custom field (or by the number) and writes its
row when the call closes; it enqueues the post-call job, which writes the same
row if nobody has; a cron job of the background worker sweeps rows that have
been DIALING for too long.  Within a call, the recogniser and the voice gate feed
the turn loop, which asks the agent (inbound) or the script (outbound) for words
and speaks them through the paced sender; the session stores turns, tells the
Live page and closes the call.  All calls of a worker share its breakers.

`PROJECT.json` lists every component with its status, every hazard with its line
and the properties that would catch it, and for every definition the lines it
translates.

## 2. Modules

| Module | Models | Checked in |
|---|---|---|
| `Campaign` | panel requests, control key, job queue, runs, dial tasks, network | `one_run`, `panel`, `ends`; `Campaign_proofs` |
| `DialLedger` | abstract: what the frequency caps promise of one list | `one_run` (refinement, `MCCampaign`); `Campaign_proofs` |
| `ContactLifecycle` | one contact through its dials and the processes that write it | `contact`; `ContactLifecycle_proofs` |
| `CallSession` | one call with its queue, transfers, ends, close and post-call job | `session`; `CallSession_proofs` |
| `TurnLoop` | the tasks of one call's conversation over one sender | `dialogue`; `MCDialogue_proofs` |
| `InboundAgent` | the agent, its memory and its counters under the loop's withdrawals | `dialogue`, `dead_end`; `MCDialogue_proofs` |
| `Recogniser` | the turn folded from the recogniser's messages, timer, queue | `dialogue`; `MCDialogue_proofs` |
| `VoiceGate` | frames of sound to the start and end of speech | `dialogue`; `MCDialogue_proofs` |
| `Playback` | tracker, paced sender, provider's buffer, cut and resume | `services`, `streamed`; `MCServices_proofs` |
| `CircuitBreaker` | the breakers of a worker and their overlapping callers | `services`; `CircuitBreaker_proofs` |
| `Compliance` | the gate as operators on a contact's facts | `one_run`, `panel`, `ends` (extended by `Campaign`); `Campaign_proofs` |
| `SourceSync` | pulls of one data source from two processes | `services`; `MCServices_proofs` |
| `KnowledgeIngest` | documents, jobs, passages, what is served | `desk`; `MCPanel_proofs` |
| `Chunking` | a document cut into passages | `desk`, `cited`; `MCPanel_proofs` |
| `ScriptVersions` | versions of a script, the campaign pinned to one | `desk`, `keeps_words`; `MCPanel_proofs` |
| `LiveFeed` | events, relay, snapshot, reducer | `desk`; `MCPanel_proofs` |
| `AuditChain` | appends, rollbacks, the walk | `desk`; `AuditChain_proofs` |
| `MCDialogue`, `MCServices`, `MCPanel` | compositions for TLC | see below |
| `MCCampaign`, `MCCircuitBreaker` | small instances | |
| `*_proofs` | theorems, checked by TLAPS | |

`MCDialogue`, `MCServices` and `MCPanel` put several components into one run.
They are checked side by side: a behaviour is a behaviour of one of them, chosen
in its first state (`part`), so that the state spaces add up instead of
multiplying.  Where components do interact, the module of each keeps what it
sees of the other (the turn loop's withdrawals are actions of `InboundAgent`;
`CallSession` and `ContactLifecycle` both have the order of the close).

Definitions whose comment begins with "Mutant:" are variants with a plausible
bug.  They are used by nothing in the modules; `PROJECT.json` pairs each with
the definition it may replace and the property that then fails.  Properties
whose comment begins with "(violated)" or "Not so:" are promises the code does
not keep; section 7 says why.

### Compliance

A contact is a record of what `load_contacts` finds out about it (consent and
its expiry, registry, internal do-not-call list, attempts, last attempt,
contacts this week, other live campaigns).  `ContactFailures` is the set of
checks it fails, `FirstFailure` the one reported, `Evaluate` the approval report
with its per-check counts, `BlockedBy` the campaign-level checks.  Report and recheck go
through the one list of `_contact_failures`, so that they agree on the same facts by
construction and nothing is checked about that.  Times are hours; the window is a set of
hours of the day.  `next_retry` is left out: its schedule is written and
never read.

### Campaign

| State | In the code |
|---|---|
| `status`, `creator`, `approver`, `selfApproved` | a `campaigns` row |
| `list`, `cstatus`, `attempts`, `last`, `dnc` | `campaign_contacts` rows and `dnd_status.internal_dnc` |
| `control` | the Redis key `set_control` writes and `Dialer._apply_control` reads |
| `req` | one panel request per user: what it loaded and its next step |
| `pc`, `camp`, `todo`, `cur`, `reason`, `tries` | an ARQ job and the loop of `Dialer.run` in it |
| `seen` | what the queries of the run's recheck have answered so far |
| `task` | the dial tasks of the run: waiting for the semaphore, or originating |
| `placed`, `onCall` | the telephone network |

A request is several steps because the code awaits between them: it loads the
row (`LoadApprove`, `LoadControl`), writes the control key (`SetControl`), queues
the job (`Enqueue`) and only then commits (`CommitApprove`, `CommitControl`), and
may fail anywhere between (`RequestFails`).  What it saw when it loaded is kept
with the request, because the session emits only the columns the handler
changed.  A run is `StartRun`, then per contact `ReadControl` or
`ControlUnreachable` (the window, the control key and the pacing), the queries of the
recheck one by one (`ReadRow`, `ReadSuppression`, `ReadWeek`, `ReadElsewhere`: each is a
statement of its own in `load_contacts`, and another run, a call or a request may commit
between them) and `RecheckContact`, which judges what they have gathered (`seen`) and
creates a dial task or skips the contact; consent is attested at the import and never
revoked, so its query is not a step.  A task that has the semaphore
records its attempt (`RecordAttempt`) and originates (`OriginateReturns`,
`OriginateRaises`, with the provider's answer possibly lost after the phone
rang); `EndOfList` waits for the tasks and `FinishRun` marks COMPLETED or PAUSED.
`JobTimesOut`, `WorkerDies` and `ReleaseSlot` are ARQ: a job cut by
`job_timeout` is failed and not run again, an interrupted one is run again up to
`max_tries` times, and a job queued without an id is never folded into another.
At the import and the approval the facts are taken as read together: whatever changes
between those queries is judged again by the recheck.

### ContactLifecycle

One contact; its dials are the calls 1, 2, ...  The variables are the contact
row (`card`), for each call the telephone line, the session with the place it has
reached in `CallSession._close`, the script's result, the call row, the post-call
job with what it read, and the sweep with what it read.  Every read-then-commit
of the code is two actions, so that another process may write in between; what
a commit emits follows the ORM (`Emit`): only the attributes that were changed
from what was loaded.  `MaxFaults` counts failures (a link, a result, a call
row, a queue, a job, the pipeline or the suppression), `MaxCrashes` the deaths
of a voice worker.

`numbered` says of each call whether its start frame carried the farmer's number, which
is what the session can suppress and what the contact is found by when the provider
dropped the custom field.  A call without one takes an opt-out too: `_suppressor` then
returns without a write and without an error, and the script goes on as if it had written
(`OptOut`).

Two assumptions are stated in the module.  A conversation outlasts the ten
seconds of originate's time-out and the instant between a sweep's read and its
commit.  A contact is redialled only when nothing of its last dial is in flight,
which the minimum gap of hours makes so.

### CircuitBreaker

A breaker is the record of the class's fields, with the time since
`_opened_at` in ticks.  `Admits`/`Admit` are `_admit`, `Record` is `_record`,
`Succeeded` is `_succeeded`.  A caller's attempt is in flight between `Begin` and
`Answers`, `Fails`, `OurFault` or `Cancelled`; several are in flight at once, and
any of them may end after the circuit has opened, which is where the class is
hard to test.  A failed first attempt of the gateway goes on to the other model
through the same breaker in the same step.  The streams of the synthesiser and
the recogniser pass `call(_noop)` first: in the model, as in the code, that is a
success.  `missed` is a history variable, the faults since the vendor last
answered.

### CallSession

`loop` is the socket's loop with the place it has reached in `_close`, `answer`
the task that speaks (a turn, a transfer, an apology, the ladder), `drain` the task
that stores turns from a queue of `QueueMax`, `row` the call row, `job` the
post-call job.  A finished turn that finds the queue full is dropped and logged
(`lost`); the marker put at the close may find it full too.  A transfer is recorded
before the provider is asked and may be refused afterwards (`TransferRecorded`,
`TransferRefusedByProvider`, `Apologised`).  `JobStage` runs the nine stages, each
wrapped; a statement that fails aborts the one transaction they share, and
`JobCommits` commits all or nothing.  `faults` is the set of places that failed,
bounded by `MaxFaults`.

### TurnLoop

Everything runs on one event loop, so an action is what happens between two
awaits that really wait.  `sp` holds the speakers (the opening, the ladder, one
task per answer), `voice` who holds the sender's lock, `settling` the tasks that
wait in `_settle_answer` for an answer to end, `spec` the speculation, `watching`
the resume watchdog, `clock` the silence clock.  The caller's side is `VoiceStart`,
`SpeechStarted`, `Partial`, `Eager`, `TurnResumed`, `EndOfTurn`, `Final`,
`EmptyTurn`, `KeyPress` and `HangsUp`, with one of five kinds of transcript.  Three
routes: a recogniser that ends turns, one that only segments, and the outbound
script.

Kept as the code has it: the watch over a silent line is not reset by the next
answer, so that a prompt may come early; a keypress does not silence the ladder; a
call with no greeting never starts the silence clock by itself; the segmenting
recogniser's CONTINUE is never judged again; a watchdog cancelled in the middle of
`_settle_answer` resumes anyway (`stray`); `announce()` finishes its turn outside a
`finally`; the outbound responder has no discard.

### InboundAgent

`respond` from wait to wait (`Begin`, `Lookup`, `Join`, `Tools`, `Stream`, `Whole`), over
the agent's `memory`, its focus and counters (`agent`) and the result the loop will read
(`lastTurn`).  Each call of `respond` has a number; `resp` says of each what words it is
to, where it waits and what it has given.  Creating its task is one step and its beginning
another (`Speculate` or `CommitAsked`, then `Begin`), and two may be under way at once: the
answer that is being given up and the one after it, or a speculation begun before the
answer to the turn committed before.  A withdrawal (`Discard`, or `CommitAsked` with other
words) cancels the speculation wherever it is, begun or not, and calls `discard_pending`
either way, which drops the last question of the memory whoever asked it.  The loop's part
besides is `CommitTaken`, `Speak`, `Interrupt`, `Resume`, `Hear` and `EndAnswer`, over
`line`, `rest` and `prepared`.  `truncate_last` and `note_resumed` are as in the code: an
answer cut before its own `_finish` edits the previous answer; a speculation that finished
and was then withdrawn leaves its exchange in the memory, its miss counted and `call_over`
set.

What is said is one of the kinds in `Utterances`; small talk (`chat`) is one of them, is
always answered and sets the count of misses back (`Settles`).  Three variables are
histories: `asked`, the questions the caller has heard; `mixed`, whether others have edited
the memory since the speculation began; `strays`, the speculations that were withdrawn
before they began or while `mixed`.

Kept as the code has it: `respond` is never given a confidence or a sentiment; the
flow stays in INIT; a turn without tools is never resolved, so that the second
unknown intent escalates as a repetition.  Left out: the listing offers of
`focus.offered`, the overview of what is sold, a centre's hours, a product's composition,
prices, animal and crop questions (to the count of misses these are like small talk or
like words that name something), the buffered `handle`, the cap and the busy check that
`NullTransferPort` answers.

### Recogniser

`final` and `pending` are the words the vendor has and has not made final, `eager`
the words last guessed, `timer` the time since they changed (and which delay it
waits for), `queue` and `waiting` the events in the queue and the late puts that
wait for room, `overtaken` whether one ever had to, `pipeline` what the turn loop makes of them.  The vendor is assumed to
send `<end>` only with everything final.  SPEECH_STARTED and ERROR change nothing
here and are left out.

### VoiceGate

One action, `Hears`, per frame: the stationary window, the judge, the floor, the
onset and the release.  The pitch of a frame is abstracted: the judge says yes to a
voice that clears the room and anything to a noise.  The floor rises by a step or
not at all in a frame, which allows more than the code.  `reset()` is not modelled.

### Playback

An answer is a sequence of sentences, whole or streamed, with their bytes.
`segments`, `sent`, `residue` and `toSend` are the tracker and the paced sender with
its padded last frame, `buffer` what the provider has not played, `ear` what the
caller has heard.  `Credited` and `Resumes` are `spoken_text` and `_remainder`.
Paddings add up: beyond some four sentences they exceed the jitter allowance, and
`HeardIsNearlyRight` says by how much.

### SourceSync

The panel's requests and the cron job each check for an active run and commit a new
one (`Checks`, `Commits`), as two steps; a task then pulls (`Loads`, `Pulled`) and
writes its row, or fails and writes it detached.  `GrowsStale` lets two hours pass over
a row; `Polls` is the reader that closes stale rows; `Deletes` and `Dies` may come
anywhere.  Kept as the code has it: both may find no active run, and two pulls
overlap; a reader's close may overwrite a run that was "ok"; the request that loses
leaves its row running for two hours.

### KnowledgeIngest

A request is a load, a save and an enqueue (`Loads`, `Saves`, `Enqueues`), with the
fall-back of indexing in the API's own process (`FallsBack`) and the job that is
never queued (`NeverQueued`: the error of Redis is none that `_queue` catches).  A job
marks its row, reads the text, finds a row by its title, takes it and finishes, or
fails, is cut by ARQ's time-out or interrupted; it holds the row's lock from its first
write to its commit.  An error inside the job's `try` is reported on the row (`Fails`,
`ReportsFailure`); one outside it, at the load, a commit, the refresh or in `_failed`
itself, leaves a worker's job for good and the row as it was, and is caught once more in
the API's process, where `_ingest_inline` marks the row (`Raises`, `Uncaught`).  A deadlock
at the last commit is such an error.  Kept as the code has it: the look-up by title finds whichever
row, a deleted one included; withdrawing a document under way is undone by its job.

### Chunking

`parse_blocks` line by line, then `chunk_markdown` piece by piece (`Pack`, `Finish`).
Text is a sequence of units with their tokens, and estimates add up.  Splitting a
long block, merging small neighbours under a common section and the repeated tail
are `SplitLong` and `Cut`, `CommonPath` and `Tail15`.  The lines a document may have are
constants, `Headings` and `Texts` (`DocLines` in `MCPanel`); the sums and cuts are recursive
functions, not folds, so that they can be reasoned about.

### ScriptVersions

`rows` are the versions, a request is a read (`Opens`, `Chooses`, `Clones`) and a
commit (`Edits`, `Publishes`, `Adds`).  The partial unique index refuses a second
published version.  A campaign is pinned when it is imported and approved with the
words of that moment; `Answers` is `load_agent_settings`.  No route deletes a version.

### LiveFeed

One worker and one tab.  `Speaks` is what a call writes and publishes step by step;
the queue drops the newest event when it is full (its comment says the oldest).  A
stream reads the snapshot (`Opens`) and subscribes (`Subscribes`) as two steps;
`Accepted` is the scope, with starts withheld until the centre is known, and `Applied`
the reducer.

### AuditChain

`Appends` is the lock, the read of the last hash, the number from the sequence, the
insert and the end of the transaction; a rollback leaves a gap in the numbers.
Deadlocks of row locks with the advisory lock, which PostgreSQL resolves, appear as
rollbacks.  `Counts`, `Walks` and `Concludes` are `verify_chain`.  A row's hash is stood
for by its number; the round trip of JSON is left out.

## 3. Runs

Sizes are distinct states, times a two-core machine's.

| Run | Instance | What it shows |
|---|---|---|
| `one_run` | one campaign, two farmers, one job slot, three hours, one fault (1.9 M, symmetry, 75 s) | `ImplementsLedger`: the machinery implements the caps of `DialLedger`, whatever is lost; `CompletedAtEndOfList` |
| `panel` | one campaign and farmer, two users, two job slots, two control requests, one fault (1.2 M, 40 s) | `ApprovedBeforeDialled`, `FourEyes` under racing requests; `CallsAreWrittenDown`, `CapMissedByOneEach` with two runs rechecking one contact |
| `ends` | one campaign, two farmers, one job slot, one fault (202 k, 40 s) | `EveryRunEnds` under the worker's fairness alone |
| `contact` | two dials, each call with or without a number, one fault, one crash (1.1 M, 130 s) | `ScriptResultKept`, `UnansweredDialIsNotACall`, `OptOutOnRecord`, `DialResolved` |
| `session` | two turns, a queue of one, two faults (269 k, 20 s) | `EveryTurnAccounted`, `PromiseKept`, `OneTicket`, `CallCloses` |
| `dialogue` | the agent (four turns, the first two of all ten kinds of words and the others of five; three with an early signal; one sentence), the turn loop (three routes, two answers, three acts of the caller), the recogniser (two words, three changes, a queue of two), the gate (windows of three and four frames) (815 k, 180 s) | `QuestionsRemembered`, `AskedTwiceAtMost`; `AnsweredAsAsked`, `ListeningIsTimed`, `LadderReachesTheEnd`; `PreparesForWhatWasSaid`, `TurnsArriveOnce`, `PausesAreGuessed`; `NoiseIsNotSpeech` |
| `services` | two vendors and two callers; two runs of a source; four sentences (253 k, 105 s) | `OneProbe`, `RepeatedFailuresOpen`, `RecoveredVendorServed`; `RowsTellTheTruth`, `OnePullPerProcess`, `RunsEnd`; `HeardIsNearlyRight`, `NothingLeftUnsaid` |
| `desk` | two documents and jobs; five lines; two versions; one call with three streams; two transactions and four rows (439 k, 95 s) | `IndexedHasItsText`, `UploadsSettle`; `ChunksCarryTheDocument`; `FlowStaysLive`; `BoardAgreesWhenQuiet`, `NothingOutOfScope`; `OneChain`, `WatchIsRight` |

Four runs show a promise of a document or comment that the code does not keep.
Each checks one property and TLC's counterexample is the scenario.

| Run | Promise | What happens |
|---|---|---|
| `cited` | a chunk is cited by the section its text is of | a chunk begun because the last one was full keeps the last one's section |
| `streamed` | what is credited as heard is rounded down | a sentence cut while it is synthesised counts as nearly all spoken and is not resumed |
| `keeps_words` | a campaign keeps speaking the version it was approved with | a version that a newer one replaced is edited in place, and spoken |
| `dead_end` | no "I am connecting you" without a transfer or a call-back behind it | an escalation found at the end of a turn is recorded and nobody reads it |

### Bounds, and why they are enough

* `Campaign`: two farmers and one semaphore place let a task wait while another
  dials; two attempts and a gap of one hour let a second attempt be both refused
  and allowed; a night hour in the middle of three (`CallingHours = {0, 2}`) lets
  the window end a run and a later one resume the list.  Two job slots are the
  fewest for two runs of one campaign, two users the fewest for a racing approval.
* `ContactLifecycle`: one fault is placed anywhere.  Two can leave a card DIALING for
  ever (the pipeline cannot be assembled and the write of the call row fails too),
  so `DialResolved` is claimed for one.
* `CallSession`: with a queue of one, two turns fill it and meet the marker; two
  faults let a stuck drain meet a job that runs twice.
* `CircuitBreaker`: a threshold of three and a cooldown longer than an attempt's
  time-out are the code's own proportions (3; 20 s against 3.5 s).  Two callers are
  enough for a late failure beside a probe; the proof covers any number.
* `TurnLoop`: two answer tasks are one that unwinds and one that begins; three acts
  let a caller speak, pause and go on.  `InboundAgent`: four turns are two that miss,
  small talk between them and the one that must not ask again; with an early signal three
  are one that was answered, one whose speculation begins beside it and one withdrawn.  All
  ten kinds of words come in the first two turns (`FreeTurns`), those that miss, name or
  settle in the later ones (`LaterWords`); with an early signal the words are of one kind
  (`EarlyWords`), the one the model answers, since what is in question there is the order
  of the tasks and not the words.
* `Recogniser`: two words suffice for one that is corrected after another is final;
  a queue of two and one late put let an event overtake another.
* `VoiceGate`: the windows of the code (7 of 10, 25 and 15 frames) scaled down in their
  order; the argument is about which window is longer.
* `Playback`: four sentences of lengths that do and do not fill a frame.
* `SourceSync`, `KnowledgeIngest`, `ScriptVersions`, `AuditChain`: two of each actor, for
  every race is between two.
* `Chunking`: five lines after a heading, of four kinds, in a window of 30 to 50.
* `LiveFeed`: one watched call beside others' events, three streams, two faults.

`CHECK_DEADLOCK FALSE` is set everywhere: each system may stop, since nobody owes
it a request, a call, a word or another hour.

## 4. Fairness

* `Campaign`: weak fairness of `Run(j)` and `DialTask(j, f)`.  The event loop
  resumes a coroutine whose await has returned, and originate has a time-out.
  Requests, faults, opt-outs and the end of a call are not fair.
* `ContactLifecycle`: weak fairness of originate's return, of the network (it
  rings out), of time, of the sweep (a cron job every two minutes), of each
  session's own steps, of the post-call job, and of the end of each call (the
  script's closing line, the silence ladder and the provider's time limit on a
  call).  Nobody has to pick up or decide anything.
* `CallSession`: weak fairness of the close and of the drain task, whose statements
  have a time-out.  The process may die.
* `TurnLoop`: weak fairness of what the event loop runs, of the end of a voice that
  has started and of the recogniser's end of a turn it began.  The caller need do
  nothing.
* `Recogniser`: weak fairness of its timers.
* `CircuitBreaker`: weak fairness of time, of a new attempt and of the end of an
  attempt.  That turns keep coming is an assumption about the helpline: a
  breaker no call ever asks stays open, and harms nobody.
* `SourceSync`: tasks run, hours pass, and the page that shows a running run polls it.
* `KnowledgeIngest`: a request that was begun is answered, a job that was queued is run.

In the compositions, fair actions of parts that never meet share one condition where
that is equivalent: the part never changes.

## 5. What is proved

TLAPS checks every theorem for all values of the constants that the named assumptions
allow.  An assumption says what the code gives by construction: a size, a window or a cap
is a number (positive where a zero would be nonsense), levels of sound have a top and a
bottom, and a "none" is none of the things it stands beside.  The only assumptions with
content are `CallTimeout < RecoveryTimeout` of `CircuitBreaker` and the bound on how much a
noise varies in `DialogueAssumption`, which is what makes it a noise.

Of the 40 properties of the passing runs 32 are theorems: every one that is not liveness
(section 6).  Those of a composition
(`MCServices`, `MCPanel`, `MCDialogue`) are proved of the composition's own specification:
the proof of a part speaks of the part's variables, and the last step uses that the
steps of the other parts leave them alone.

### Dialling (`Campaign_proofs`; `CampaignAssumption`, `CapsAssumption`)

| Theorem | Says |
|---|---|
| `TypeCorrect` | `Spec => []TypeOK` |
| `NothingDialledUnapproved` | `Spec => []ApprovedBeforeDialled` |
| `FourEyesHold` | `Spec => []FourEyes` |
| `CompletedIsTheEnd` | `Spec => CompletedAtEndOfList` (an action property) |
| `LedgerIsKept` | `Spec /\ []OneDialEach => ImplementsLedger` (the refinement of `DialLedger`) |
| `OneSlotKeepsLedger` | with one job slot, `Spec => ImplementsLedger` |
| `EveryCallHasAnAttempt` | `Spec => []CallsAreWrittenDown`: never more calls of a contact than attempts written down |
| `RacingRunsMissTheCapByOneEach` | with `Jobs` finite, `Spec => []CapMissedByOneEach`: never more attempts than `MaxAttempts + (Cardinality(Jobs) - 1)` |

`ApprovedBeforeDialled` is not inductive: a run never looks at the status and a
request works from what it loaded.  The invariant `IInv` adds `RequestsSound` (a
start request that has passed its guard is about a campaign with an approver,
and an approval in flight is one its user may give), `JobsSound` (a slot holds a
campaign exactly while it is in use, has tasks only while its run is under way,
and a recheck is of a farmer of the batch), `TakenOnce` (a run has each farmer of its
list still to take, in its recheck or in a task, once) and `AbsentSound` (a campaign that does
not exist yet has neither creator nor approver).  The lemma `RowsOnlyGrow` says that
an approver once written is never erased, which carries what a request loaded over
to its commit.

`TasksAreRechecked` says that a dial task appears only in the step of a recheck that
passed on what its queries had seen, and `VerdictPassed` what such a verdict found; between
the query of the row and that step the row stands, if no other run has the contact
(`RowIsSeen`, `RowIsKeptInMind`, `RowIsReadOnce`).  `CompletedIsTheEnd` rests on `ListDone` (a run that gathers and was not stopped has nothing left to do).

The refinement needs to know that what a waiting task was rechecked for still holds when
its attempt is written (`Waits`), that what a recheck has read of the row still holds of
it (`RowStands`), and that calls placed and about to be placed are covered
by attempts written (`Covered`).  Both are invariants as long as no contact has dial tasks
in two runs at once (`OneDialEach`); that hypothesis is not idle, since a second run of one
campaign breaks it and the ledger with it (`AttemptsSpaced` in section 7).  Every behaviour
with one run of each campaign satisfies it, crashes, time-outs and second tries included.
`Placing` says what each end of an originate and each death of a run may place;
`AttemptIsOne` and `PlacedIsCovered` map the steps.  With a single slot, as in `one_run`, the
hypothesis holds of every state (`OneSlotKeepsLedger`).

What is left of the ledger when two runs share a contact has no such hypothesis.
`CallsCovered` counts the runs that are dialling: calls placed, and one for each of these,
are never more than the attempts, since an originate that ends leaves the set in the step
that places its call.  `CapMissedBy` counts those in line: a run joins the line with the
query of the row, while an attempt is left, and only once.  So the cap is passed by at most
one attempt for each run but the first.  `panel` checks both with `MaxAttempts` of 1, where
the second bound is reached.

### One contact (`ContactLifecycle_proofs`; `LifecycleAssumption`)

`TypeCorrect`; `OptedOutIsSuppressed` (`Spec => []OptOutOnRecord`); `DecisionStays`
(`Spec => []ScriptResultKept`); `NoAnswerNoCall` (`Spec => []UnansweredDialIsNotACall`).

The card alone is not inductive: the word "opted out" travels from the script to
the session's outcome, the call row, the post-call job and the sweep, each of
which may commit long after it read.  `OptOutBacked` has one conjunct for each of
these places, and says that the suppression is on record or that a call without a number
has taken the opt-out; neither is ever taken back.  That the exception is needed is
`OptOutWritten` in section 7.
`Writers` says which actions write which variable, so that each conjunct is
argued over its writers only.

Session, post-call job and sweep write one row from what each read before, so the
argument is about when each may have read it.  `ResultInv` says: only the last dial
has a session or a job (`LastDialOnly`); linking, deciding, writing and queueing come
in their order (`InOrder`); the call row says in progress until it is finalised
(`RowOpen`); before its session begins a dial belongs to no call, and a sweep that
has read it means `no_answer` (`NoCallYet`).  From there: while something is decided
and not yet written the call is in progress, so the sweep passes it by, and afterwards
the card is no longer DIALING (`SweepStaysAway`); the job is queued after the result is
written and therefore read it (`ReadAfter`).  `ConversationOutlasts` is where the
assumption about time of section 2 enters.  `SessionMoves` lists from where to where a
session goes.

### One call's end (`CallSession_proofs`; no assumption)

`NoTurnForgotten` (`Spec => []EveryTurnAccounted`), `CalledBackOnce` (`Spec => []OneTicket`),
`PromisesKept` (`Spec => []PromiseKept`).

A turn is queued, in the drain's hand, stored or logged as lost (`Accounted`), until
the drain is given up; the marker is the last item, since it is put only when no
answer is left that could queue another (`MarkerIsLast`).  So a drain that has met the
marker has nothing left.  For the ticket, a run of the job that means to add one has
seen none, and no other run adds one meanwhile (`TicketInv`): ARQ runs a job again, but
not beside itself.  For the promise, `PromiseInv` follows it from the tongue to the row
(nothing but a hand-over makes it, and with no fault the hand-over is on the row) and from
the row through the stages to the ticket.

### Talk (`MCDialogue_proofs`; `DialogueAssumption`)

| Theorem | Says | Part |
|---|---|---|
| `CallerIsAskedTwice` | `Spec => []AskedTwiceAtMost` | agent |
| `NoQuestionForgotten` | `Spec => []QuestionsRemembered` | agent |
| `DialogueAnsweredAsAsked` | `DialogueSpec => []AnsweredAsAsked` | turn loop |
| `DialogueListeningIsTimed` | `DialogueSpec => []ListeningIsTimed` | turn loop |
| `DialoguePreparesForWhatWasSaid` | `DialogueSpec => []PreparesForWhatWasSaid` | recogniser |
| `DialogueTurnsArriveOnce` | `DialogueSpec => []TurnsArriveOnce` | recogniser |
| `DialogueNoiseIsNotSpeech` | `DialogueSpec => []NoiseIsNotSpeech` | gate |

*Agent.*  What `discard_pending` drops is the last question, whoever asked it.  `MemoryInv`
follows that: the memory has one entry for each turn of the caller (`OneTurnEach`); a task
that has not begun has given nothing (`RunsInv`); what the loop answers is committed and
what is only prepared is not (`CommittedInv`); a speculation that has begun is in the memory,
at its end unless others have edited that since (`PreparedInv`).  So a withdrawal either
drops the speculation's own question, or is one of those that `strays` counts and drops one
question at most (`WithdrawnForgetsOne`, `FewForgotten`); no other step drops any.
`QuestionsRemembered` is therefore a bound and not a promise: `NothingForgotten`
(section 7) does not hold.  The lemmas `ExtendKeepsQuestions`, `MarkKeepsQuestions` and
`DropForgetsOne` are about `context.py`'s edits of a memory; `BeginShapes`, `LookupDoes`,
`JoinDoes` and `FinishDoes` say what a turn does from wait to wait, and `BeginKeeps`,
`GoesKeeps`, `SpeculateKeeps`, `DiscardKeeps`, `TakenKeeps`, `AskedKeeps`, `ResumeKeeps` and
`EndKeeps` what each action does to the memory.

`AskedInv` is about a call without an early signal, where nothing runs beside the answer
(`NothingBeside`): questions in a row that brought nothing are misses (`Spent`), unless a
product is known, in which case there is at most one; the third miss hands over.  Small talk
and words that name something end the row, and so does a hand-over or such an answer that
was cut short: `asked`, the history that `AskedTwiceAtMost` reads, counts what the caller
was asked in vain.

*Turn loop.*  Whoever speaks carries the words its answer was begun with, and nothing
changes them (`LoopWellFormed`); a line that has no clock has somebody who will start it
(`Owed`, `Timed`).

*Recogniser.*  `KeepsUp` looks ahead: there is a path of states from what the pipeline holds
now, over the queued events one by one (`Follows`, a function on `0..Len(queue)`), each of
them sound, to a state that agrees with the recogniser's own (`Catches`).  `FollowsOne` and
`FollowsTail` lengthen and shorten the path.  `Delivered` says that the words of the turns
that have ended are told, queued or waiting, each in one place only, which `PutsLaterDelivers`
and `TakesDelivers` carry from place to place; `MarksLast`, that behind the mark of the
stream's end there is no end of a turn unless an event once had to wait for room.

*Gate.*  A closed gate has seen no onset; without a voice every loud frame of the onset's
window is noise, whose levels are too close together to be one; of a noise that lasts the
stationary window is full after `StationaryWindow` frames, and the gate counts to its
release from then on (`GateInv`).

### Services (`MCServices_proofs`; `SyncAssumption`, `PlaybackAssumption`)

`ServicesRowsTrue` (`RowsTellTheTruth`), `ServicesOnePull` (`OnePullPerProcess`), over `SyncSafe` (`Sync!Spec => [](SyncInv /\ ...)`);
`ServicesHeardNearlyRight` (`HeardIsNearlyRight`), `ServicesNothingUnsaid`
(`NothingLeftUnsaid`).

For a source, `SyncInv` says who may know of a run before its commit (nobody), that its number is handed
out once, that a closing reader has read it to be two hours old (`ClosesStale`), and that
the API's pull is the one its task slot names and the worker's the one the cron job
waits for (`OneInTask`, `OneInCron`).

For an answer, `SpeechInv` says that until the cut every byte registered is heard, in the
provider's buffer, still to be sent or waiting to fill a frame, and that the frames sent up
to *each* frame of the buffer exceed the speech up to there by no more than the padding of
the sentences finished (`Pace`, `Near`): wherever the provider has got to when it is cleared,
the bound is already known to hold there, and what is lost is at most the buffer (`Cut`).  A
step that only registers, finishes or stops is the lemma `Registers`; a frame sent or played
lengthens or shortens the sums over the buffer (`SumsLonger`, `SumsShorter`).  The second
conjunct of `Near` bounds the padding by the sentences the caller is past and not by those
registered, which is what `NothingLeftUnsaid` needs of a sentence in the middle.  Where a
sentence starts is a recursive function of the module; `StartsThere`, `StartsAre`,
`StartsGrow` and `StartsAgree` prove what is used of it by way of the least number for
which it would fail (`LeastNat`), in place of an induction theorem.

### Panel (`MCPanel_proofs`; `PanelAssumption`)

`PanelIndexedHasItsText` (`IndexedHasItsText`), `PanelFlowStaysLive` (`FlowStaysLive`),
`PanelNothingOutOfScope` (`NothingOutOfScope`), `PanelBoardAgrees` (`BoardAgreesWhenQuiet`),
`PanelChunksCarry` (`ChunksCarryTheDocument`).

*Knowledge.*  The passages of a row are of a document of its title, their hash is the row's,
and a job's text is of its document and its target of its document's title (`KnowledgeInv`):
one row alone with its title can only have its own.

*Passages.*  `ChunkInv` says where the text is: while a document is read, the blocks and the
buffer are the document; while it is packed, the chunks, the current one and the pieces to
come, in this order, are (`Packing`), and no piece exceeds the window but a sentence, a table
or a dosage row (`FitPieces`).  A cut moves text between these and changes none
(`CutWhole`, `Splitting`, `PackMoves`).  Sums of tokens, concatenations and cuts are
recursive, and no induction theorem of the library can be used here; `NatInduct` and
`SeqInduct` are inductions over a *set* of numbers and of sequences instead, and `Recursion`
and `OneRecursion` give existence and uniqueness of a function defined by going through a
sequence.  What a sum or a concatenation does with one more element (`SumAppend`,
`FlatAppend`, `CutGrows`) and with two parts (`SumConcat`, `FlatConcat`, `TextConcat`) follows
from these.  The only assumption is that a line has some sequence of tokens and the window is
a number.

*Scripts.*  A publication takes down
what it saw, which may be stale; the index refuses a second live version, and the same
transaction puts one up, so that the number is one whichever way a race goes.  *Live feed.*
A call's events carry its centre, but for its start, which comes first; its end comes last
(`EventsTrue`).  `Fits` says, for each place a call can have reached, what the board shows of
it already or finds in the queue.

### Vendors (`CircuitBreaker_proofs`; `BreakerAssumption`)

`TypeCorrect`, `AtMostOneProbe` (`Spec => []OneProbe`), `FailuresOpen`
(`Spec => []RepeatedFailuresOpen`).

`_record` gives up the claim of the probe whoever reports, so `OneProbe` is not a
matter of the flag.  It is one of time: an attempt in flight beside an open
circuit that is not its probe began before the circuit opened and has run for at
least as long (`Covered`); an attempt's time-out is shorter than the cooldown, so
when the circuit is half open none is left.  That needs `CallTimeout <
RecoveryTimeout`.  `Counted`, that the faults since the last answer are never more than
the count, gives `FailuresOpen`.  Every step touches one breaker, so the invariant is
restated vendor by vendor (`IInvByVendor`) and each action is settled at its own vendor
(`OneVendor`).

### Audit (`AuditChain_proofs`; `NoneAssumption`, `BatchAssumption`)

`AuditNeverForks` (`Spec => []OneChain`), `WatchStaysRight` (`Spec => []WatchIsRight`).

Who appends, or has appended, holds the advisory lock until its transaction ends
(`Serial`), so it sees every row there is; the hash it read is that of the last, and the
number it was given is beyond all others (`Extends`).  `ChainGrows` is the lemma that such a
row extends a chain.  The walk has checked exactly the rows up to the one it saw last
(`WalkInv`): rows are committed behind all there are, never among those it has passed, so
the next page continues the chain and the count only grows (`RankGrows`).

## 6. What is only model-checked

* Liveness (`EveryRunEnds`, `DialResolved`, `CallCloses`, `LadderReachesTheEnd`,
  `PausesAreGuessed`, `RecoveredVendorServed`, `RunsEnd`, `UploadsSettle`): TLAPS does
  not prove properties that rest on fairness and ENABLED.
* The type invariant of a module with proofs is proved where it carries an argument (under
  its own name, or as the `...Typed`, `...Shapes` and `...WellFormed` conjuncts of the
  invariants above); those of the others document the state and are read beside the module.

## 7. Known limits of the code, seen while modelling

Besides the four runs of section 3, these promises are stated as properties in their
modules and do not hold of the code.  They were found by TLC in the same models and
have no run of their own.

| Property | Promise | Why it fails |
|---|---|---|
| `Campaign.StopIsFinal` | stopping "cannot be undone" | the run a stop ends marks the campaign PAUSED over CANCELLED, and PAUSED can be resumed |
| `Campaign.DialInsideWindow` | the window is checked "at dial time" | it is checked before the semaphore; a waiting task dials after the window closes |
| `Campaign.AttemptsSpaced` | no contact "gets dialled twice", a minimum gap | a pause and resume between two reads of the control key leaves two runs; both recheck a contact before either records |
| `Campaign.OptOutStopsDialling` | "the gate is re-evaluated at dial time, per contact, every time", because some have opted out on another call | the recheck is over before the task waits for the semaphore; an opt-out after its query does not stop the dial |
| `ContactLifecycle.OptOutWritten` | "opt-out is written before it is confirmed" | `_suppressor` returns without a write when the call has no number, and the farmer is told that he will not be rung again |
| `ContactLifecycle.NoCardStaysAmber` | amber cards mean "the background worker is down" | a killed voice worker leaves its call IN_PROGRESS, which the sweep skips for ever |
| `CircuitBreaker.StreamFailuresOpen` | an open breaker refuses after `failure_threshold` failures | the admission check of a stream resets the count |
| `CircuitBreaker.OnlyFaultsOpen` | only faults of the vendor count | three turns cancelled before their first token open the language model's circuit |
| `CallSession.StagesCommitted` | each stage is wrapped and independent | all share one transaction: a statement that fails aborts the rest, and ARQ does not retry a plain exception |
| `TurnLoop.GoodbyeEnds` | once the goodbye has begun the call ends | a caller who speaks into the goodbye has it cut; the cut reaches the task that was to hang up, and the silence clock is already stopped |
| `TurnLoop.Interruptible` | whoever is on the air can be interrupted | all speakers share one flag: the end of one's playback clears it while another is still on the air |
| `TurnLoop.GoodbyeWasSaid` | the responder ends the call because of something said | a goodbye that was guessed and withdrawn leaves the responder finished |
| `InboundAgent.JoinedAsAnswered` | the caller is joined once they have heard of it | a hand-over found by a speculation that was withdrawn stays in `last_turn`, and an answer cut before its own end carries it out |
| `InboundAgent.NothingForgotten` | a withdrawn turn takes no other with it | `discard_pending` drops the last question; when the speculation had not begun, that is one the agent has answered |
| `InboundAgent.AskedInOrder` | the memory has the caller's turns in order | a speculation may begin before the answer to the turn committed before it |
| `InboundAgent.NeverAThirdTime` | the same question is not put a third time | words that name a kind start the count of misses again, so the same choice can be put three times |
| `SourceSync.RunsDoNotOverlap` | one active run of a source | panel and cron both look before either commits |
| `SourceSync.GoodRunsAreClean` | a good run has no error | a run of more than two hours is closed as failed by a reader and then ends well: its status is written over, the error stays |
| `KnowledgeIngest.DeletedIsNotServed` | deletion takes effect with its commit | a job under way, or one of the same title, makes the document live again |
| `KnowledgeIngest.EachHasItsText` | a document is indexed with its text | two documents of one title share one row |
| `KnowledgeIngest.NeverLeftPending` | a document is never left silently pending; failures are written to the row rather than raised | the error of Redis is none that `_queue` catches; a job that is cut, or refused at the refresh or its last commit, writes nothing and is not run again |
| `LiveFeed.LateViewerIsRight` | a subscriber that connects late is never wrong | what is published between snapshot and subscription is lost |
| `LiveFeed.NoCallStuck` | a call is not left in progress for ever | `finalise_call`'s errors are suppressed, and a worker may die |
| `Recogniser.EveryTurnComes` | an end of turn that finds no room is handed to the loop so that it is not lost | the mark of the stream's end goes ahead of it, and the pipeline leaves at the mark |
| `Recogniser.EndIsNoticed` | the end of the stream reaches the pipeline | a full queue drops the mark of the end |
| `Chunking.RepeatsWholeBlocks` | a repeated tail is whole rows | it is cut at the end of a sentence, wherever that is |

Also met, without a property:

* Dialling: two campaigns running at once hold a shared farmer back for each other and
  neither calls; the weekly cap counts rows, so one campaign passes it by redialling, and it is
  read over all campaigns, so it is not in `DialLedger`; a job cut by `job_timeout` leaves its campaign RUNNING with nobody dialling; a waiting task
  dials after a stop or an opt-out; the loader reads neither the contact's status nor
  `next_attempt_at`; the semaphore is released when the provider accepts, so it bounds
  originates and not calls.
* The end of a call: a drop overwrites an outcome TRANSFERRED or SYSTEM_FAILURE; a stop
  frame that comes before the provider answered a transfer loses the transfer; a ladder that
  runs out after a transfer writes ABANDONED_SILENCE; the docstring of `_start_pipeline`
  says the caller is transferred when no pipeline can be built, and nobody transfers; the
  marker of the persist queue is put outside the drain's time-out; the caller hears an apology
  and a promise although the record of it may have failed; the card and the call row may
  disagree about a farmer who says yes and hangs up.
* Talk: an interrupted silence prompt is offered for resumption as if it were an answer; the
  pending transfer of a hand-over that failed is tried again at the next turn; CALLBACK_COMMITMENT
  may have no ticket behind it; a transfer tool that fails leaves "I am connecting you" said.
* The panel: an edit that races a publication edits a published version, and the audit entry's
  fingerprint may be of older words; `today.calls` counts a call twice and `turnCount` may go
  back; the queue of live events drops the newest though its comment says the oldest, and a
  dropped end with a waiting start shows a call that is over.

## 8. What is not modelled, and why

The map covers about a seventh of the implementation's lines: nearly all of what has
a protocol, an order of steps or a count to get right.  What is left is mostly without any:

* Data and words: the seeds and their loader, settings, enumerations, phrase books, intent
  rules, number and date reading, prompts, ranking of passages.  They are tables and
  functions of one string; what they decide enters the models as a choice.
* Read routes and single-row CRUD routes of the panel, its Next.js pages, the demonstration
  site, the evaluation harness, and `outbound/conversation.py`, which only its tests use.
* Wire formats and clients of the vendors, signal processing (resampling, pitch, the acoustic
  end-of-turn model), WhatsApp (one request without a retry).
* Sign-in and sessions of the panel.
* The tools' look-ups.  The tools that write are offered to no model on a real call, so that
  the registry's retry after a time-out can repeat nothing.
* `next_retry` (its result is written and never read), `start_due_campaigns` (nothing writes
  `scheduled_start`), warming and draining of a voice worker (they rest on the order in which
  the web server shuts down).
* Storage, partitions, encryption and row-level security: properties of PostgreSQL and of the
  object store rather than of an order of steps here.

Abstractions the models make: consent is always granted by an import (the panel attests
it); text, tokens and audio are lengths or names; one database statement is atomic, and one
transaction sees what is committed.

## 9. Plan

Every component with a protocol of its own has a module.  What would add most next is
`TurnLoop` above `CallSession`, in place of the ends of an answer that `CallSession` keeps.
