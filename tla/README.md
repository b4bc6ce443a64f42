# TLA+ verification of the wiki-edit classification service

The service reads English-Wikipedia edits from Redpanda, has a language model
label each one, and keeps the verdicts in Postgres. What is hard about it is not
the labelling but custody: three processes with their own offsets, a shared
table, two failure topics, a circuit breaker that kills its process on purpose,
and a promise that "loss is impossible" (`service/app/worker.py`, docstring).
This directory states that promise in TLA+, and beside it what the other parts
promise: that one classify stays within its budget of calls and of time, that a
slow record does not cost a process its partition, that pages read from a moving
table are exact, that the terminal browser shows what was asked for, that a
signal ends a process cleanly. TLC model-checks them on small instances and
TLAPS proves the most important ones for every value of the constants.

## 1. Inventory

| Part | State | Operations | What makes it correct |
|---|---|---|---|
| Worker `worker.py` | offset in `wiki.edits.raw`, record in flight, Postgres connection, breaker | receive, status pre-check, classify, write verdict / failed row, publish, park, commit, trip | nothing committed is lost; a redelivered failure is retried, not skipped |
| Retrier `retrier.py` | the same on `wiki.edits.retry`, and the attempt count carried by the envelope | wait for `not_before`, then as the worker, without the pre-check | an edit gets exactly its budget of passes |
| Sweeper `sweeper.py` | offset in `wiki.edits.dlq`, snapshot of the end offset | one-shot pass: skip, classify, write, requeue to the same topic, commit | every envelope it passes is accounted for; it ends |
| Failure routing `routing.py`, `failures.py` | envelopes | destination of a failure, envelope, publish with ack, parking | write before publish before commit |
| Circuit breaker `failures.py` | consecutive transient failures | count, reset, trip | an outage stops the process without amplifying retries |
| Database access `db.py`, `models.py`, `schema.sql` | the `edits` table, one connection per process | success UPSERT, guarded failed UPSERT, status query, reconnect once | a failure never takes back a verdict |
| Classifier `classifier.py` | none | bounded calls, parse, normalize, second pass | a budget of calls and of seconds; a usable answer is not lost to a failure; every failure has its class |
| Ingest `connect/pipeline.yaml` | none of its own | filter, project, publish | at-least-once |
| Startup and signals `infra.py` | signal handlers | consumer factory, shutdown exception | a signal ends the loop with the offset uncommitted |
| Read API `api.py` | sessions | keyset pages, filters, counts | the pages of a walk repeat and skip nothing that stays put |
| Terminal browser `tui.py` | cursor, filters, page, baseline of counts | poll, page, filter; exclusive workers | what is shown belongs to the cursor and filters shown |
| Settings, deployment | constants; topics, restart policy | | |

Interactions: ingest appends to `raw`; the worker reads it and appends to `retry`
and `dlq`; the retrier reads `retry` and appends to `retry` and `dlq`; the
sweeper reads `dlq` and appends to it. All three write the `edits` table, the
API reads it, the browser reads the API. No process calls another.

Hard behaviours: a crash between any two of {row write, publish, commit};
redelivery of a record whose row is already there; three unsynchronised writers
of one row; a lost acknowledgement of a write; a connection object closed behind
its holder's back; a process that exits on purpose while committing; a reader
that writes to its own topic; envelopes of a newer release. `PROJECT.json`
lists each of them as a hazard at its line.

## 2. Modules

```
Envelopes   EditsTable
      \      /
     Consumers
    /    |    \
Worker Retrier Sweeper        Custody (abstract)
    \    |    /                 |
     Pipeline  --- implements ---
     /       \
MCPipeline  PipelineProofs
                 |
            HandOverProofs
```

* **Envelopes** - what the failure topics carry, and `transient_destination`.
  Of an envelope's fields the model keeps the ones some consumer decides on.
  The error text is abstracted to the class of failure it reports.
* **EditsTable** - the table and `db.py`'s three statements as operators on it.
  `UnfitEdits` and `UnstorableVerdicts` are the values Postgres rejects (too long,
  a bad timestamp, a NUL in the reasoning).
* **Consumers** - everything the three processes share: the topics as logs, two
  offsets per process, a program counter per handler (`pc`), what became of the
  record in flight (`outcome`), the verdict about to be written, the connection
  (`open`, `dropped`, `closed`), whether the handler reconnected (`swapped`), the
  breaker, and one action per step of a handler. `pc` values are the points
  between the code's effects: `check`, `classify`, `write`, `writeFailed`,
  `publish`, `park`, `commit`. Any other process may step, and the process may
  crash, at each of them.
* **Worker**, **Retrier**, **Sweeper** - the order of those steps in each
  handler, and what each does its own way: the pre-check, the schema check and
  pass count, the boundary and the requeue.
* **Custody** - the abstract specification: somebody always holds a payload. It
  has no processes, offsets or failures.
* **Pipeline** - the composition, its environment (ingest, a newer release's
  producer, crashes, drops, sweeps), the fairness, all properties, and the
  refinement mapping to Custody.
* **PipelineProofs** - types, no downgrade, no loss; rows before envelopes, the
  budget of passes; the lemmas about logs, commits and the table.
* **HandOverProofs** - what multiplies and what is written off: the growth of the
  retry topic, the causes of a parked or skipped record, what the sweeper commits
  past; and that Pipeline implements Custody.

The other modules look at one part each, closer than the pipeline does:

```
Delays --- Classifier --- implements --- ClassifyContract
   |   \        |
   |    DelaysProofs, ClassifierProofs
PollLoop --- PollLoopProofs

EditsTable --- EditsApi --- PageWalk --- PageWalkProofs
                   |
                Browser --- BrowserProofs

Lifecycle --- LifecycleProofs
```

* **Delays** - the waits of `call_model` and the longest `classify`, as numbers.
* **Classifier** - one `classify`: attempts, waits, error classes, what an answer
  is read as, the second pass. `Consumers!Classify` and `ClassifyEscapes` are its
  outcomes.
* **ClassifyContract** - what the callers of `classify` rely on: a usable answer
  is returned unless one with more context replaces it or a fatal error of the
  client stops the process. Output of the model is no such error in it.
* **PollLoop** - the clock of a consumer loop between two polls. Each stage of a
  handler takes no time or its longest; `ClassifyTime` is what Classifier is
  proved to keep to, and a publish may wait for metadata before it waits for its
  ack.
* **EditsApi** - `GET /edits` and `GET /stats` over the table, and the table's
  writes as a reader meets them: `processed_at` moves a row within the order, and
  `Skew` lets a statement become visible after one with a later `now()`.
* **PageWalk** - a client that follows `next_page` to its end
  (`walk_pages` of `tests/integration/test_api.py`; README.md of the service).
* **Browser** - `tui.py` over EditsApi: a load and a poll in flight, each sent,
  served and delivered in steps of their own, with keys, selects, failures and
  writes in between.
* **Lifecycle** - `main` and `run` of the worker or the retrier from start to
  exit, with signals at every point.

`MCPipeline`, `MCClassifier`, `MCPollLoop`, `MCPageWalk`, `MCBrowser` and
`MCLifecycle` hold the constants of TLC's instances.

An operator whose comment begins "(Bug variant" is not part of the model: it is
a definition as a plausible bug would have it, used to see that a property
notices.

### From the code to the model

| Code | Model |
|---|---|
| `for message in consumer` and the decoding | `WorkerReceive`, `RetrierReceive`, `SweepReceive` |
| `read_with_reconnect(... fetch_edit_status ...)` and the branch on it | `CheckStatus` |
| `classify` | `Classify` (verdict, transient, parse), `ClassifyEscapes` (what no handler catches) |
| `write_with_reconnect(... upsert_edit ...)` | `WriteVerdict` |
| `write_with_reconnect(... upsert_failed_edit ...)` | `WriteFailed` |
| `make_envelope`, `publish` in `handle_classifier_failure` | `PublishFailure` |
| `park_malformed` up to its publish | `Park` |
| `consumer.commit()` and the breaker after it | `Commit`, `CommitAndTrip`, `SweepCommit` |
| `guard_schema_error` returning its own `conn` | `CarriedConn` |
| `_reconnect` and the repeated statement | `UseConnection`, `WriteUnacknowledged` |
| process exit, `restart: unless-stopped` | `Crash`, `Restart` |
| operator's `python -m app.sweeper` | `SweepStart`, `SweepFinish` |
| `call_model`: an attempt that raises, its `time.sleep` | `TransientError`, `FatalError`, `Backoff` |
| `_attempt`, `parse_response`, `normalize` | `Answered`, `Reading`, `Normalize`, `Clamp` |
| the second pass of `classify` | `Accept`, `EndPass` |
| `wait_until`, `retry_delay_seconds`, `connect` | `WaitUntilDue`, `RetryDelay`, `ReconnectTime` (PollLoop) |
| `write_with_reconnect`, `publish` as time | `LongestStatement`, `PublishTime` (PollLoop) |
| `get_edits`, `summarize_stats` | `Items`, `NextPage`, `PreviousPage`, `Stats` |
| `load_page` before, at and after its await | `LoadPage`, `ServeLoad`, `DeliverLoad`, `LoadFails` |
| `poll_stats`, `set_interval` | `PollTick`, `ServePoll`, `DeliverPoll` with `Notify`, `PollFails` |
| `action_*`, `on_select_changed`, `DetailScreen` | `GoNext`, `GoPrevious`, `Reset`, `Refresh`, `SelectFilter`, `OpenRow`, `CloseRow` |
| `install_shutdown_handler`, `suppress(Exception)` | `Signal`, `Interrupt` |
| `make_consumer`, `connect`, their retries | `Connect`, `MakeConsumer`, `TryFails` |
| the `finally` of `run` | `Close` |

Abstractions of the pipeline, all on purpose:

* A topic has one partition (`rpk topic create` without `-p`) and each group one
  member, so a group rebalance is a crash and a restart. Logs are immutable.
  The retention of `raw` and `retry` is not modelled; the DLQ has none.
* `publish` waits for the ack of all replicas, so a publish is atomic; a publish
  whose ack never came is the publish followed by `Crash`. The producer's own
  retries can duplicate an envelope next to the original; the duplicates the
  model has come from crashes.
* `not_before` only delays the record at the head of `retry`; every step may be
  delayed. `db.connect` that gives up, a second failure in `write_with_reconnect`,
  a `KafkaError` and a signal are `Crash`. A drop that is noticed costs one
  reconnect.
* A crash, a drop, a newer envelope and a sweep are each counted against
  `Budget`. Breaker trips and the exceptions that leave `classify` uncaught
  (`ModelConfigError`; a `TypeError` or `OverflowError` of `normalize` or of the
  client) are not disturbances: they are what the processes do, any number of
  times, on the same record too.
* `--limit` and the consumer's timeout are the choice of an earlier `sweepEnd`.
  Two sweeps at the same time are not modelled.
* The status query binds only the id, which fits the table; ids and edits are
  identified (same-id records are redeliveries of the same event, DESIGN.md).

And of the other modules:

* Confidences are integers with `One` for 1.0; of odd JSON values one of each
  kind is kept: NaN, an integer beyond the floats, a value that is no number, none
  at all, a label that is a list or object. The reasoning and the prompts'
  wording are left out. A request takes 0 or `CallTimeout` seconds: httpx counts
  its 60 s per read, so a server that trickles its answer could take longer; the
  answers here are short and not streamed.
* In PollLoop the code's own bounds are taken as they are (request, waits, tries
  of `connect`, wait for the ack), and kafka-python's 60 s for a topic's metadata
  (`max_block_ms`, its default). Nothing bounds a statement, a try to connect or a
  commit - there is no `statement_timeout` and no `connect_timeout` -, so theirs
  are assumed: 5 s for a statement and a commit, a try to connect refused at once.
  A database host that swallows packets would exceed any interval. A record takes
  at most one reconnect per statement. `not_before` is taken against the clock of
  the process that wrote it.
* How kafka-python polls is external: its iterator hands out a fetched batch
  record by record and polls again when it is used up (`max_poll_records` is not
  set, so 500), and a commit after an eviction raises.
* How sqlakeyset makes cursors is external too: a cursor is a direction and the
  key of the first or last row of its page, an empty page keeps no place
  forward, and a page starts strictly beyond the place. A request sees one
  snapshot of the table.
* In Browser an exclusive worker group is one variable: starting a load or poll
  forgets the one in flight. The row screen takes all keys while it is open. The
  highlighted row, the layout and a failure's text are left out. Quitting is the
  end of a behavior.
* In Lifecycle the statements of a record are one statement, with one
  reconnect. `Finish` hands `run` the connection the handler has, or after a data
  error the one it had before (`guard_schema_error`). `Absorbing` stands for library calls that catch every exception of
  their own accord, as the request path of the model's SDK may; only the safety
  run uses it, the finding below does not need it.

## 3. Properties and runs

Of the runs of `MCPipeline`: `MaxRaw` is at most 2: two records are the fewest
with which a closed connection meets a later record and the same edit is
delivered twice. `BreakerThreshold` is 2, so that a breaker counts before it
trips and a success in between resets it; in `pipeline_safety` it is 1, every
exhausted transient failure trips, and the instance stays small enough for the
values Postgres rejects of both kinds.
`MaxRetryPasses` is 1 (one worker pass, one retrier pass) except where the
counter is the subject (`pipeline_versions`). `DlqCap` is 20 and never reached
by a run: it exists so that a sweeper that fed itself would still have a finite
state space. `CHECK_DEADLOCK FALSE`: production is bounded, so the consumers may
have nothing left to do, which is not an error.

| Run | Instance | Shows |
|---|---|---|
| `pipeline_safety` | edits `e1` and `unfit`, good and unstorable verdicts; threshold 1; 1 crash, 1 drop, 1 sweep | `TypeOK`, `NoLoss`, `RowBeforeEnvelope`, `NoDowngrade`, `AmplificationBounded`, `MalformedForCause`, `SweepSkipsForCause`, `CauseInv` |
| `pipeline_sweeps` | one edit, good and unstorable verdicts, 1 crash, 1 sweep, `FairSpec` | `SweepAccounted`, `CustodyKept`, `EventuallySettled`, `SweepEnds` |
| `pipeline_versions` | edits `e1` and `unfit`, garbage; good verdicts; 1 newer envelope, 2 crashes, 1 drop, `MaxRaw` 1, `MaxRetryPasses` 2 | `AttemptsBounded`, `PassesTaken`, `MalformedForCause`, `CustodyInv`, `CustodyKept` |

* **NoLoss** - whatever the worker or the retrier has committed past is
  classified, still ahead of the retrier, or in the DLQ. `CustodyInv`, which
  contains it, has two crashes in its run: one of each process, or one in the
  redelivery of a crash.
* **NoDowngrade** - no step takes back a classified row: the guard of
  `FAILED_UPSERT_STMT` against stale reads, lost acknowledgements and
  redelivery.
* **RowBeforeEnvelope** - a classifier failure is in the table before its
  envelope is on a topic.
* **AttemptsBounded** - the retry topic never carries more than the budget, and
  `retries_exhausted` means exactly the budget.
* **PassesTaken** - and that the count is of passes taken: an edit that waits for
  its third pass has waited for the first two. `AttemptsBounded` would not notice
  a pass counted twice. Two passes are the fewest with one that can be skipped.
* **AmplificationBounded** - retry envelopes are bounded by records and crashes.
  Breaker trips add nothing, because a trip commits first; that is also why
  the runbook's "offsets are never committed on these paths" (`DESIGN.md:90`) is a
  slip of the document and not of the code.
* **SweepAccounted** - the sweeper passes a classifiable envelope only when its
  edit is classified, further on in the DLQ, or refused by Postgres. False once a
  connection is lost (`closed_connection_skips`).
* **MalformedForCause**, **SweepSkipsForCause** - how far that fault of
  `guard_schema_error` goes, with connections being lost. What is parked as
  malformed, or skipped by the sweeper, cannot be decoded, or can be refused by
  Postgres, or is a victim of a closed connection; and a victim needs both a lost
  connection and an earlier refusal, which the DLQ shows. One drop, one record
  that is refused and one more record are what the fault needs. The two
  properties take two runs. In `pipeline_safety` a verdict may be unstorable: only
  so can the sweeper be refused a write, since an edit that does not fit is
  parked and no longer classifiable, and then meet the connection it closed. But
  then every edit can be refused, and "can be refused" says little of a parked
  one. In `pipeline_versions` every verdict can be stored, so only `unfit` can be
  refused, and the two ways to be undecodable, garbage and a newer envelope, are
  there.
* **CustodyKept** - the refinement: each step accepts, hands on or releases, and
  a topic releases a payload only while something else holds it.
* **EventuallySettled** - every record produced ends classified or in the DLQ, if
  `classify` does not for ever go on raising what no handler catches
  (`ClassifyReturns`). It does raise so for some answers, and for a wrong key, and
  the restarted process meets the same record: see the table of differences.
  **SweepEnds** - a sweep ends, by reaching its boundary or by dying.

The runs of the other modules:

| Run | Instance | Shows |
|---|---|---|
| `classify` | 3 attempts, 2 passes; confidences below, between and above the bounds and each odd one | `CallsBounded`, `TimeBounded`, `OutcomeEarned`, `PassInv`, `ContractKept` |
| `poll_intervals` | worker with the program's own seconds, retrier with its waits capped at 60 s; batches of 1 to 4 | `FirstRecordCommits` |
| `page_walk` | 4 edits, 3 of them stored, pages of one row, 2 writes, lag 1, every filter | `WalkExact`, `WalkEnds` |
| `browse` | 2 edits, pages of one row, 2 keys, 1 write, 1 failure, overlapping polls, row screen | `LatestWins`, `FirstPageCurrent`, `PollNeverJumps` |
| `browse_liveness` | 2 edits, 2 writes, 1 key, `FairSpec` | `NewEditsAppear` |
| `shutdown` | 3 tries, 2 records, 2 signals, `FairSpec` | `LeavesGroup`, `NothingSkipped`, `RunCloses`, `LifecycleInv`, `SignalEnds`, `TriesEnd` |

* **CallsBounded**, **TimeBounded**, **OutcomeEarned** - however failed attempts
  and answers mix: at most 6 calls and 366 s, `unavailable` only after exactly one
  budget of attempts, and no failure while an answer is at hand.
* **ContractKept** - the refinement: inside, attempts come and go; outside, an
  answer is kept or replaced once, until an answer comes that `normalize` raises
  on. That one step (`Escapes`) is outside the contract, and the property says
  that it is the only one.
* **FirstRecordCommits** - the worker's longest record is two statements that
  each lose the connection (2 x 68 s), both passes (366 s), a publish (90 s) and the
  commit (5 s): 597 s, less than 600. The retrier waits where the worker reads a
  status: with the shipped cap of 120 s its longest record is 649 s, which is too
  long, and 71 s is the largest cap that fits; the run has 60 s (589 s), the cap
  its delays of 30, 60, 60 still reach. The property is stated of the first
  record of a poll, because for later ones it is false (see below); it is
  also what makes an evicted process progress: after its restart the record it
  lost comes first. Four records are enough: two worst cases exceed the
  interval.
* **WalkExact** - an edit nobody writes during a walk is on exactly one page if it
  matches, on none if not; rows that move, tie or appear late around it do not
  shift it. Pages of one row make every row a page's edge; of four edits one
  can move from behind the cursor to the front, and one be inserted, with two
  left to be counted.
* **WalkEnds** - and the walk ends, without any assumption on the writer but
  that `MaxWrites` bounds it here.
* **LatestWins**, **PollNeverJumps**, **FirstPageCurrent** - what the exclusive
  workers are for. One write, two keys and two requests in flight give every
  order of {sent, written, served, delivered} of both. `FirstPageCurrent` leaves
  out what is noticed behind the row screen: a poll then only leaves a note,
  which a load in flight removes.
* **NewEditsAppear** - every change of the counts the browser can detect is shown,
  noted, or its load failed. One label makes the counts of the table
  monotone; with more, a later change can restore the old counts, which the code's
  comment admits.
* **LeavesGroup** - two signals, because one is unwound by the `finally` block
  and only the second can interrupt that. **NothingSkipped** - closing commits
  nothing. **RunCloses** - a process that handled records and was left to close
  what it had leaves nothing open, but for a connection that a handler opened and
  `run` was not given. **SignalEnds** - a signal raised anywhere but
  where it is swallowed ends the process. **TriesEnd** - no dependency that
  stays away holds a process for good.

Three runs expect a violation: each states what a comment or document says, and
TLC shows the code doing otherwise. The findings are in `PROJECT.json`.

| Run | Says | Does |
|---|---|---|
| `closed_connection_skips` | the skipped record "can never be persisted" (`sweeper.py:176`) | reconnect, then a data error: `conn` stays bound to the closed connection (`sweeper.py:170`), and valid envelopes are skipped and committed |
| `sweeper_evicted` | 300 s are too tight (`worker.py:43`) | the sweeper keeps them (`sweeper.py:44`) |
| `shutdown_swallowed` | a signal unwinds the loop at whatever message it is on (`worker.py:130`) | suppressed during a reconnect's close (`db.py:188`) |

`pipeline_sweeps` has no dropped connection, because with one `SweepAccounted`
is false: that is `closed_connection_skips`. What remains true with one is
`SweepSkipsForCause`.

### Other differences, without a run

The modules also show these; the states or steps that do are behaviors of the
specification named, and no run is kept for them.

| Module | Says | Does |
|---|---|---|
| Pipeline | connection failures are not parked as malformed (`db.py:25`) | the same stale connection in worker and retrier (`routing.py:148`): valid edits are parked until a restart; the DLQ keeps them (`NoLoss`) |
| Pipeline | offsets never committed on a breaker trip (`DESIGN.md:90`) | committed, then exit (`routing.py:97`, `CommitAndTrip`) |
| Pipeline | DLQ once attempts exceed 1 + max (`retrier.py:17`) | when they reach it (`routing.py:35`, `TransientTopic`) |
| Pipeline | a duplicate envelope is harmless (`DESIGN.md:77`) | the second copy's verdict replaces the first (`retrier.py:157`) |
| Classifier | any JSON type is reachable, and unusable output is a parse error (`classifier.py:176`, `test_classifier.py:405`) | a list as the label, or a huge integer as the confidence, raises outside the taxonomy (`classifier.py:174`, `187`; `Escape`, `ClassifyEscapes`); the process exits, and the record is redelivered for as long as the model repeats itself |
| Classifier | unusable output of the second pass keeps the first-pass result (`classifier.py:225`) | such output loses it, as only `ModelUnavailableError` is caught there (`classifier.py:230`; `Escapes`) |
| Classifier | normalize enforces the bounds (`classifier.py:34`) | a NaN passes the clamp (`classifier.py:187`, `Clamp`) |
| PollLoop | per-message time under the interval is enough (`worker.py:42`, `retrier.py:9`) | the interval spans a batch (`worker.py:138`, `CommitFails`) |
| PollLoop | the wait's cap stays well under the interval (`config.py:41`), delays and calls well inside it (`retrier.py:7`) | not their sum: wait 120 s, two passes 366 s, reconnect 58 s, and a publish of 90 s, since `send` may wait for metadata before `get(timeout=30)` (`failures.py:123`), are 634 s before a statement is counted |
| Browser | changing a filter resets to page 1 (`tui.py:10`) | the old list's `next_page` is used under the new filter until its page is there (`tui.py:251`) |
| Browser | a note shows while paging deeper (`tui.py:13`) | a load answered before the change takes it away (`tui.py:205`) |
| Browser | on the first page new edits appear (`tui.py:12`) | only a note if it was reached with p (`tui.py:237`); not what changed before the first poll (`tui.py:230`); not if answers take longer than the interval (`tui.py:218`, `Overlap`) |
| Lifecycle | one try/finally closes the connection (`infra.py:30`) | it closes the one that was replaced, if the handler raised (`worker.py:147`) or met a data error after its reconnect (`routing.py:148`) |

### Fairness

`FairSpec` assumes weak fairness of `WorkerStep`, `RetrierStep` and
`SweeperStep`: a process that runs takes its next step (its loop has no
voluntary stop; model calls and sends time out), one that exited is restarted
(`restart: unless-stopped` for worker and retrier), and a sweep that started is
not suspended. The restart of the sweeper is not in its fairness: an operator
starts sweeps. Nothing is assumed of producers, crashes, drops or the operator,
and of the model only what `EventuallySettled` says itself: that in the end its
answers are such that `classify` returns or fails within its taxonomy. A model
that is down, or whose output is unusable in the ways the code provides for,
may be so for ever: retries then end in the DLQ.

PageWalk: the client keeps asking (`walk_pages` is a loop). Browser: the timer
goes off (`set_interval`), the API answers what it was sent, and the event loop
goes on with what it awaited; the user, the writes and failures are under no
fairness. `browse_liveness` has `Overlap` FALSE - an answer comes before the next
poll is due; without it fairness of the delivery does not help, as each poll can
cancel the last. Lifecycle: the process is run while it has something to do;
waiting for a record is stuttering, and signals are never owed.

## 4. Proofs

Proved, for every set of payloads, edits and verdicts, every
threshold, budget and bound:

| Theorem | Statement |
|---|---|
| `TypeCorrect` | `Spec => []TypeOK` |
| `NoDowngradeCorrect` | `Spec => NoDowngrade` |
| `CustodyInvCorrect` | `Spec => []CustodyInv` |
| `NoLossCorrect` | `Spec => []NoLoss` |
| `OutboxInvCorrect` | `Spec => []OutboxInv` |
| `RowBeforeEnvelopeCorrect` | `Spec => []RowBeforeEnvelope` |
| `AttemptsBoundedCorrect` | `Spec => []AttemptsBounded` |
| `PassesTakenCorrect` | `Spec => []PassesTaken` |
| `AmplificationInvCorrect` | `Spec => []AmplificationInv` |
| `AmplificationBoundedCorrect` | `Spec => []AmplificationBounded` |
| `CauseInvCorrect` | `Spec => []CauseInv` |
| `MalformedForCauseCorrect` | `Spec => []MalformedForCause` |
| `SweepSkipsForCauseCorrect` | `Spec => SweepSkipsForCause` |
| `SweepAccountedCorrect` | `Budget["drop"] = 0` implies `Spec => SweepAccounted` |
| `CustodyKeptCorrect` | `Spec => CustodyKept` (the refinement) |
| `PassInvCorrect`, `CallsBoundedCorrect`, `OutcomeEarnedCorrect`, `TimeBoundedCorrect` | `Spec => []...` of Classifier |
| `ContractCorrect` | `Spec => ContractKept` (the refinement, up to `Escapes`) |
| `InTimeCommitsCorrect` | `Spec => []InTimeCommits` |
| `FirstRecordCommitsCorrect` | for a process p with `RecordTime(p) <= MaxPollInterval[p]`: `Spec => [](who = p => FirstRecordCommits)` |
| `WalkExactCorrect` | `Spec => []WalkExact` |
| `LatestWinsCorrect`, `PollNeverJumpsCorrect` | `Spec => []LatestWins`, `Spec => PollNeverJumps` |
| `FirstPageCorrect` | `Spec => []FirstPageCurrent` |
| `LifecycleInvCorrect`, `LeavesGroupCorrect`, `NothingSkippedCorrect`, `RunClosesCorrect` | `Spec => []...` of Lifecycle |

The first eight are in `PipelineProofs`, the next seven in `HandOverProofs`, the
others in the proof module of their component.

### The pipeline

Assumptions: `MaxRetryPasses` and `MaxRaw` are numbers, the threshold is
positive, unfit edits are edits, edits are payloads, and `NoVerdict` is not a
verdict. TLC evaluates all of them in every run.

`NoLoss` is not inductive: a state with a handler at its commit and its record
nowhere would satisfy it and break it in one step. `CustodyInv` adds

* `TypeOK`: in particular `position = committed + 1` exactly while a record is
  in flight, so a commit passes one record, the one in flight;
* `ControlOK`: what a handler knows (a failure before a publish, a rejection
  before a park, an edit wherever one is classified), so that the publish steps
  cover every case and what is written to the table is an edit;
* `HandedOn`: a record at the commit already has its other home; for the
  retrier, one that does not count the very envelope being committed.

The argument has three parts. Topics are only appended to (`NextAppends`) and
classified rows stay (`ClassifiedStays`), so homes stay (`KeptStays`). A process
gets to its commit only by a step that places the record (`NextCareful`: write,
publish, park, or a pre-check that saw the row classified). Hence the invariant
is kept (`CustodyStep`).

`RowBeforeEnvelope` and `AttemptsBounded` need to know, when an envelope is
published, what its handler did and read before. `OutboxInv` adds to the two of
them, with `TypeOK` and `ControlOK`,

* `ReadyToPublish`: a worker or retrier at its publish step has the edit's row
  in the table, and a retrier or sweeper works on an envelope it can classify,
  whose attempt count is therefore bounded by `AttemptsBounded` itself;
* `RetryReasonsOK`: the retry topic carries only envelopes of exhausted
  transient failures (whatever a newer producer adds is so by `NewerEnvelope`).

`AmplificationBounded` is a count, and `LineageOK` is what makes it inductive. A
retry envelope descends from a record the worker took, one pass after another,
so a pass number can occur on the retry topic at most as often as records were
handed over: once per record the worker has disposed of and once per crash,
which is what makes a process hand the same record over again. Envelopes of a
newer producer are counted apart. The invariant counts, for each pass, the
entries of that pass together with the earlier ones the retrier has still to
dispose of, because the entry of pass `k + 1` is paid for by the entry of pass
`k` it came from. The entries then map one to one to pairs of a pass and a
hand-over, and the bound is the size of that set (`LineageBounds`). A breaker
trip costs nothing because it commits first.

`PassesTaken` is inductive with `OutboxInv`. A pass is published only by the
retrier, from an envelope that is itself the wait for the pass before
(`RetrierPublishTaken`), and the entries before it are there for good
(`WaitedStays`). A redelivered envelope only says again what was said.

`MalformedForCause` needs the history of each connection, and `CauseInv` keeps
what is left of it in the state. `CauseOK(p)` says why p's connection is not the
one it was opened with, and what an `outcome` at the park or the commit was
given for: a decoding error for a record no handler can decode; `data` for a
value that Postgres can refuse; `closed` only after a loss and a refusal. The
link between the two is `CarriedConn`: a connection is closed under a handler by
the refusal of the record before, and the entry that reports it is in the DLQ by
the commit that hands the closed connection on (`CommitCaused`). Entries stay
and drops are only ever counted up, so a cause stays one (`CausesStay`).

`SweepSkipsForCause` adds `SweepReady`: the record at the sweeper's commit is
accounted for - the write just made its row, the requeue just put it further on,
or the statement just failed (`SweeperCommits`) - and rows and logs stay until
the commit; `CauseInv` says why a statement fails. `SweepAccounted` is the
corollary where no connection is lost, which the theorem states as its
assumption: with no drop in the budget nothing is ever `closed`.

`CustodyKept` follows from `CustodyInv` and `OutboxInv`. Each place changes by
one payload per step: receiving, crashing and going down move nothing; a
publish, a park, a write or a requeue hands one payload on, which its old place
still holds because the record in flight is not committed; a commit releases at
most the record in flight, and `HandedOn` says where else it is; only a record
from outside is accepted. Each is a step of Custody, or a stutter when the
payload was held there already.

### The classifier and the clock

`CallsBounded` and `OutcomeEarned` need to know how calls and attempts relate
while classify runs: `PassInv` says calls equal attempts in the first pass, are at
most one budget more in the second, and a second pass has a first answer below
the threshold. `TimeInv` adds that a running pass has spent at most what its
failed attempts take, `SpentBefore(attempt)`, and the step of an attempt is the
recurrence of that sum: `2^(k+1) = 2 * 2^k`, which `DelaysProofs` takes from the
library's theorem on the number of subsets of a finite set (`FS_SUBSET`), the
provers having no arithmetic of exponents. Assumptions: attempts at least one,
waits and timeouts are numbers.

`FirstRecordCommits` is proved of each process whose own longest record fits its
interval, `RecordTime(p) <= MaxPollInterval[p]`: an inequality between the
constants of `config.py`, `infra.py`, `db.py` and `classifier.py`, kafka-python's
`max_block_ms` and the times assumed. The worker satisfies it with the shipped
values, the retrier with a lower `retry_backoff_max_seconds` only, the sweeper
not. The invariant `ClockInv` gives, for each stage, the sum of the bounds of the
stages before it, on top of one longest record for each record the batch has had
before (`Earlier`). `InTimeCommits` - the n-th record of a batch commits if n of
the longest ones fit - needs no assumption on the settings, and the first record
is its case n = 1. With the shipped numbers n is 1 at most, so no run checks it; it says
how many records a poll may safely hand over, for any numbers.

### The pages

`WalkExact` is an invariant of the walk's end; `WalkInv` says what holds at each
cursor: of the edits nobody has written, the walk has seen those that match and
do not lie beyond its place. A page moves the place to its oldest item
(`PassedNext`). That needs: a page with candidates has an item (`PageNotEmpty`:
the candidate with the fewest others ahead has none), the items have an oldest
(`Oldest`), and what is nearer than an item is an item (`NearerOnPage`, by
counting what is ahead). A write leaves the keys of other edits and the
place alone, so the place need not be the key of any row. The only assumptions:
ids are numbers (for their order), finitely many, and a page has room for one.

### The browser

`LatestWins` and `PollNeverJumps` follow from `InFlight`: a load in flight asks
for the current filters and cursor, a poll's for the first page.
`FirstPageCurrent` needs `Fresh`: on the first page an answered load is not
older than what has been noticed, since noticing starts a new one.

### The life of a process

For every number of signals, tries and records; `Absorbing` may be empty or the
model's call. None of the three properties is inductive. `LifecycleInv` adds to
them, with the types, where the group can still count the process (`GroupInv`:
in the loop or about to close the consumer, unless a signal hit that), that
exactly the record in its handler is taken and not finished (`RecordInv`: an
error or a signal there cannot leave an offset ahead of it), and what the
finally block has closed by each of its steps (`ClosingInv`). `RaiseGoes` and
`InterruptGoes` say where an exception takes the process; the rest is one step
per action.

### Model-checked only

Liveness (`EventuallySettled`, `SweepEnds`, `WalkEnds`, `NewEditsAppear`,
`SignalEnds`, `TriesEnd`): it rests on fairness and `ENABLED`, outside this
prover's reach. Every invariant and every other action property that a passing
run checks is proved as well.

## 5. Plan

Done: every module of section 2, and the theorems of section 4.

Left:

1. **Ingest** - the filter and projection of `pipeline.yaml` as operators.
2. Two sweeps at once, and a producer whose retries duplicate an envelope next
   to the original.

## 6. Not modelled

The SDKs and drivers beyond what section 2 says of them; pydantic's parsing of
the environment; Bloblang's mapping of the stream (its output to `raw` is);
container configuration beyond topics and restarts; the browser's layout and
highlight; prompts; the API's 400 responses, which read nothing. Clocks of
different machines: `not_before` is compared with the retrier's own clock.
Tests and fakes are read as statements of intent.
