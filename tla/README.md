# pdfextractor: formal models

TLA+ models of the PaperSoul extractor service (`src/src/pdfextractor`), the TLC
configurations that check them on small instances, and TLAPS proofs of their main
invariants for every size. Paths below are relative to `src/src/pdfextractor` unless
they start with `src/`.

## 1. The system

One process serves HTTP on an asyncio event loop. An upload passes these parts:

    client ── RequestIdMiddleware ── SizeBackstop ── ConcurrencyLimit (the door)
                                                          │
                     POST /api/v1/extractions (route, event loop)
                       1. AdmissionGate.admit      (asyncio semaphore, FIFO, timed)
                       2. BufferPool.acquire       (reusable bytearray)
                       3. multipart reader         (frames the body into the buffer)
                       4. run_in_executor ──► thread: ExtractionService.extract
                                                 └─ ProcessPoolTextExtractor.extract
                                                      _Gate (thread semaphore, timed)
                                                      ProcessPoolExecutor ──► worker
                       5. finally: buffer back, slot back, maybe mark_ready

| part | state it keeps | operations | hard behaviour |
|---|---|---|---|
| `_Gate`, `ProcessPoolTextExtractor` (`infrastructure/concurrency/pool.py`) | semaphore, `_in_use`, `_waiting`, `_executor`, `_restarts`, `_closed`, lifecycle lock | `extract`, `warmup`, `close`, rebuild | threads interleave at every lock; extraction timeout leaves a job behind; workers die; rebuilds race each other and `close()` |
| `ReadyState` (`pool.py`) | one flag | `mark_overloaded`, `mark_ready`, `ready` | written by the gate, the rebuild, the slot release and the route, never under a common lock |
| `AdmissionGate` (`infrastructure/concurrency/admission.py`) | asyncio semaphore, `_in_use`, `_waiting` | `admit`, `release` | a queue timer may fire after a slot was handed over and before the task runs |
| `BufferPool` (`infrastructure/memory/pool.py`) | free list, `_created` | `acquire`, `release` | reuse while an abandoned job still refers to the buffer |
| route (`presentation/api/v1/extract.py`) | none of its own | one handler | clean-up order; readiness by `admission.idle` |
| multipart reader (`infrastructure/http/multipart_reader.py`) | parse buffer, state, sink | `feed`, `finish` | delimiters cut by chunk borders, caps |
| middlewares (`infrastructure/middleware/middlewares.py`), handlers (`presentation/errors/handlers.py`) | the door's semaphore | one `__call__` each | what each outcome logs, counts and echoes |
| log dispatcher (`infrastructure/telemetry/logging_.py`) | queue, thread, global | `emit`, `flush`, `shutdown` | records racing the sentinel |
| metrics (`infrastructure/telemetry/metrics.py`, `presentation/api/v1/metrics.py`) | counters, `_last_restarts`, cache | `render`, `exposition` | concurrent renders; staleness |
| `ExtractionService` (`application/services/extraction_service.py`), `PyMuPDFExtractor`, `document_to_markdown` (`infrastructure/extraction/`) | none; an open document during a call | `extract` | the order of the checks, what each way out leaves open, what rendering and normalisation do to a text |
| `Settings` (`infrastructure/config/settings.py`) | the settings, for the life of the process | validators, effective capacities | optional fields that fall through `or`, capacities that must agree |
| lifespan (`main.py`) | what it built | start, warm-up, teardown | what is logged and flushed in which order |

External, and modelled from how the code uses them: `asyncio.Semaphore` (Python 3.12's:
served in order, the released slot handed to a waiter's future), `threading.Semaphore`
(a woken waiter competes again), `concurrent.futures.ProcessPoolExecutor` (futures,
`BrokenProcessPool`, `shutdown(cancel_futures=True)`, the feeder that serialises a job's
arguments late), `queue.Queue` with its `join()`, Starlette's place for the handler of
`Exception`, `unicodedata.normalize`, and PyMuPDF (a file opens or not, has a password or
not, and its pages are blocks of lines of spans).

## 2. Modules

| module | models | state ↔ code | actions ↔ code |
|---|---|---|---|
| `BoundedGrants` | what every gate promises (abstract) | `held`, `spent` | `Grant`, `GiveBack` |
| `ExtractorPool` (+`MC`, `_proofs`) | `ProcessPoolTextExtractor`, `_Gate`, `ReadyState`, the executors | `sem`, `inUse`, `waiting` = the gate; `executor` = the generation of `self._executor` (= `_restarts`); `locked`, `closed` = `_lifecycle`, `_closed`; `overloaded` = `ReadyState`; `gen`, `fut`, `broken`, `shut` = the executors | `TryFast` … `Reject` = `_Gate.acquire`; `ReadExecutor` … `ReleaseWhenDone` = `extract` and its callback; `Restart*` = `_restart_pool`; `Release*`, `MarkReady` = `_release_slot`; `CloseBegin/End`, `WarmBegin/Submit/End` |
| `AdmissionGate` (+`_proofs`) | `AdmissionGate` over `asyncio.Semaphore` | `slots`, `queue`, `granted` = the semaphore; `inUse`, `waiting` = the counters; `expired` = timers that fired | `Admit`, `Park`, `Resume`, `GiveUp` = `admit`; `Release` |
| `BufferPool` | `BufferPool` | `free`, `created`; `lent`, `sink`, `content` = who has which buffer and what is in it | `Lend`, `Refuses` = `acquire`; `GiveBack` = `release` |
| `ExtractSystem` (+`MC`, `_proofs`) | the extraction route, composing the three above with one capacity | theirs, `returned` (threads back from `extract`), `payload` (whose document a worker was sent) | `Enter`/`Park`/`Resume`/`Expire` = `admit`, `BodyRead`, `Finally` = the route's `finally`, `Send` = the executor's feeder |
| `MultipartReader` (+`MC`, `_proofs`) | `_MultipartReader` | `buf`, `state`, `sink`; `fed` = what the stream delivered | `Feed`, `Finish`, one action per state of `_step` |
| `LogDispatcher` (+`_proofs`) | `_AsyncDispatcher`, `configure_`, `flush_`, `shutdown_logging` | `entries`, `unfinished` = the `queue.Queue`; `worker`, `hand` = the daemon thread; `attached`, `owner` = the main thread | `Emit`, `Get`/`Handle`/`TaskDone`, `Configure`, `Flush`/`FlushEnd`, `Shutdown`/`Sentinel`/`Join`/`Detach` |
| `MetricsScrape` (+`_proofs`) | `ExpositionCache.exposition` and `Metrics.render` | `cached`, `fresh`, `lock`; `last`, `counter`, `requests`; `restarts` of the pool | `Scrape`, `Lock`, `ReadTotal`/`Count`/`StoreLast`/`Generate`, `Keep` |
| `RequestPipeline` (+`_proofs`) | the middlewares, handlers, probes and the lifespan from `create_app()` to the exit hook, composing the door (an `AdmissionGate`), `LogDispatcher` and `MetricsScrape` | `stage`, `response`, `echoed`, `life`; `level` = the level of both loggers | `Start`, `WarmUp`, `Teardown`, `Closed`, `Exit` = the lifespan; `Backstop`, `Knock`, `GetIn`, `Shed`, `Respond`, `Leave`, `Unhandled`, `Probe`, `Scrape`…`Exposed`; `LogAt` = a logger call; `TimePasses` is the clock, `Rebuild` the pool's `_restart_pool` |
| `Settings` | `Settings`: validators, effective capacities; `Wiring` = what `create_app()` and the lifespan build with them | none, operators | one operator per validator, by its name |
| `Markdown` | `markdown.py` over blocks, lines and spans | none, operators | one operator per function |
| `ExtractionService` (+`MC`, `_proofs`) | one document from the settings to the answer: `create_app()`, `ExtractionService.extract`, `PyMuPDFExtractor.extract`, the statuses of `errors.py` | `settings`; `stage`, `file`, `text`, `answer` = the call; `handles` = what is open | `Configure`/`Refuse`; one action per way on or out: `RefuseEmpty`, `Open`, …, `Normalise`, `Deliver`; `Escape` = `needs_pass` or `page_count` raised, `WorkerDies` = the `BrokenProcessPool` of the pool the adapter runs in |

**Grain of atomicity.** In `ExtractorPool` a step is one access to state shared between
threads: `_Gate` takes its lock separately for `_in_use` and `_waiting`, `extract` reads
`self._executor` without the lifecycle lock and uses it afterwards, `_release_slot` asks
`inflight()` and then calls `mark_ready()`: each is a step of its own, and `pc[c]` says which
comes next. On the event loop (`AdmissionGate`, the route, the middlewares) a step is what
runs between two awaits. In `LogDispatcher` and `MetricsScrape` the threads step at every
shared access, `generate_latest()` excepted: it collects each metric under its own lock, but
the two counters modelled here are read in one step.

The wrong versions named `Bug…` in the modules are not part of any next-state relation.
They document what each property guards against: with one of them in place of its action
TLC finds the property violated.

**The AdmissionGate's "silent" waiters.** `admit()` counts a caller as waiting only if
`saturated` (admission.py:58). `_in_use` lags the semaphore between a release and the
moment the waiter it granted runs; a caller that comes in that window parks without being
counted. So `_waiting` is the number of *counted* waiters, and `idle` may be true while a
request is parked: in that window a slot has just been handed over, and its owner is about
to run.

**The door.** `ConcurrencyLimitMiddleware` has its own `asyncio.Semaphore` and no counters.
`RequestPipeline` instantiates `AdmissionGate` for it with `inUse` and `waiting` as derived
expressions, so the door adds no state that the code does not have.

**Which gate queues.** With the default settings the door lets in as many uploads as the
admission gate has slots, and the admission gate never queues: it does when
`PDFEXTRACTOR_MAX_INFLIGHT_REQUESTS` is set larger than the pool's ceiling. `ExtractSystem` has no
door, so any number of requests may come to its admission gate; `RequestPipeline` has the
door and leaves the route's inside out.

## 3. Runs

| run | module, instance | shows |
|---|---|---|
| `pool_safety` | `ExtractorPool`: 3 calls, 2 closers, 2 permits, ≤2 executors broken | permits, counters and live jobs agree; broken executors are replaced and shut down; the gate is a bounded grant |
| `pool_lifecycle` | 2 calls, 1 closer, 1 warm job, 1 permit, fair | close() is final and returns; every permit comes home |
| `admission` | `AdmissionGate`: 5 requests, 2 slots, fair | slots conserved, no lost wake-up, whoever parks is admitted or shed |
| `system` | `ExtractSystem`: 2 requests, capacity 1, a worker may die, fair | a slot always owns a buffer; responses carry their own document; the second gate queues nobody but behind an abandoned job; readiness is lost for a reason; requests are answered even if jobs never end |
| `reader` | `MultipartReader`: bodies put together from right and wrong pieces, cut anywhere | chunks do not show; sink and parse buffer are bounded |
| `pipeline` | `RequestPipeline`: 2 uploads, 1 scrape, 1 probe, door of 1, from `create_app()` to exit, fair | the door leaks no slot; what was answered was logged, after the warm-up, as far as the level lets it through; probes and scrapes get past a stuck door; the process ends |
| `scrape` | `MetricsScrape`: 3 scrapes, cache on, 2 rebuilds, 2 requests, fair | expositions go forward; a rebuild is counted once |
| `extraction` | `ExtractionService`: every environment one field from a small valid one (and combinations of the three capacities), some 500 documents | accepted settings build the parts; rendering loses no letter, leaves no blank behind, makes headings of what stands out only; the answer is within the limits; nothing stays open on any way out, and a 500 is either an exception no `try` surrounds or a dead worker |
| `pool_innocent` (violation) | 3 calls, 2 permits, 1 break | a second rebuild kills calls on a healthy executor |
| `system_buffer` (violation) | 3 requests, capacity 2 | a job may read another request's document |
| `system_quiet` (violation) | 3 requests, capacity 1 | the instance comes to rest and stays not ready |
| `pipeline_unhandled` (violation) | 1 upload | the 500 of an unhandled exception has no correlation id |

**Bounds.** The number of calls exceeds the number of permits in every run about a gate, so
that there is always somebody to hold, somebody to queue and somebody to come late; three
calls on two permits also let two calls see the same executor break while a third is on its
replacement, and two broken executors let the replacement break too. `admission` has five
requests on two slots: two holders, a granted waiter that has not run, an expired one and
one behind it, which the races of the hand-over need at once. `pool_lifecycle` and
`system` are smaller because liveness is checked without symmetry; one permit and
two calls keep the queue, the rebuild, the deferred release and the buffer lent again while an
abandoned job refers to it; what `system` checks of safety is proved for every size. The warm job is in
`pool_lifecycle` only: it takes no permit and meets `close()` and `Break` there.
`reader`: boundary of one byte, delimiter `LF D D B`, header cap 4 (so that a header block
with its blank line straddles the cap), budget 2; texts up to 9 bytes, more than twice the
delimiter. `extraction`: each field of the settings takes the values at and beside
its validator's bound; lines of one or two spans put every mark, marker, blank, size ratio
(below, at and above 1.25, 1.5 and 1.8) and a letter cut from its accent next to each other,
two lines to a block, two blocks to a page, three pages to a document; the caps are 3, 8
and 20 characters, which the documents fall short of, meet and exceed. Documents with and without pages, locked or not, raise at `needs_pass`, at
`page_count`, while they render, or as the count is read for the result, and the worker may die
under any document. `pipeline` starts at one of three levels, INFO, WARNING and CRITICAL: DEBUG
drops no more than INFO, and ERROR differs from WARNING in the line of a failed warm-up only.
`MaxBreaks`, `MaxRestarts` and `MaxRequests` bound what the environment may do.
Symmetry is used in runs that check safety only (`pool_safety`,
`system_buffer`, `system_quiet`), where calls and closers are interchangeable model values
and no definition chooses one of them.

Deadlock is checked in every run: where the system may rest, its module has a stuttering
`Terminated`/`AllQuiet`/`Over` that holds only in the states where everyone has returned.

**Fairness.**
- `ExtractorPool!FairSpec`: the operating system schedules every thread past its entry to
  `extract`, timed waits time out, warm-up and `close()` go on, and jobs end. The last is
  *not* promised by the code; `PermitsComeHome` and `CloseReturns` rest on it (the code has
  no bound on a running job, and `close()` waits for it).
- `AdmissionGate!FairSpec`: timers fire and the loop runs tasks that are due. Nobody need
  ever release a slot.
- `ExtractSystem!SysFairSpec`: the loop and the threads run. Bodies need not come and jobs
  need not end: that is what the queue and extraction timeouts are for.
- `RequestPipeline!FairSpec`: the loop runs what a probe or a scrape has due; log thread, main
  thread and its atexit hook run. Uploads may stop anywhere, at the door or in their route, and
  the server may never be told to stop.
- `MetricsScrape!FairSpec`: loop and worker threads run what is due.
Weak fairness is enough everywhere: a semaphore that is free and taken by others over and
over is escaped by the timers, each of which stays enabled until it fires.

## 4. Proofs

All theorems hold for every value of the constants that meets the named assumption.

- **`ExtractorPool_proofs`** (`PoolAssumption`: finite calls and warm jobs, disjoint; at least
  one permit). `GateAccounting` is inductive with `TypeOK`: each step moves one call between
  `Holders`, `Counted` and `Queued` and changes the counter of that set by one (`MoveCount`, on
  adding and removing one element); all other actions leave the gate alone (`OthersLeaveGate`).
  `LiveJobsHoldPermits` is inductive too; from both follows `InflightReflectsLiveWork`: live
  calls are counted calls, counted calls are holders, and their cardinalities are ordered. About
  the lifecycle, the invariants as checked are not inductive. `LockInv` says that at most one
  call is in `mark`…`swap`, that it holds the lock and the pool is then open, and that whoever
  drains has closed it and holds the lock; with it `NoRebuildAfterClose` is a step property.
  `ExecutorInv` adds to `NoExecutorLeak` and `BrokenIsReplaced` that the executor about to be
  swapped out has been shut down, that no job refers to an executor not yet made, and that a
  call on its way to the deferred release has timed out. `ReadyInv` says that whoever degraded
  readiness is still on its way or was turned away, hence `DrainedIsReadyUnlessShed`;
  `DrainedInv` that a closed pool nobody drains has no live job on its executor, hence
  `ClosedIsFinal`. The refinement to `BoundedGrants` takes the accounting (a grant finds room)
  and that only a call that is over was turned away (`OutcomeInv`).
- **`AdmissionGate_proofs`** (`GateAssumption`). `IInv` is `TypeOK /\ QueueOfParked /\
  SlotAccounting`. `QueueOfParked` makes the rest go through: a waiter's place in the queue is
  unique, so that removing it removes one element (`WithoutOne`), and `HandOut` grants as many
  waiters as it takes slots (`HandOutCount`). `NoLostWakeup` is inductive on top of it: a step
  that leaves a slot free has either granted somebody or left nobody open in the queue
  (`HandOutServes`).
- **`MultipartReader_proofs`** (`ReaderAssumption`): `TypeOK /\ SinkWithinBudget /\
  BufferBounded` is inductive. Lemmas state what `Find`, `Drop`, `Prune` and `Before` return;
  `Find`'s minimum exists by `WFMin` on the naturals. `ChunksDoNotShow` and `SinkHoldsTheFile`
  compare the reader with `Reference`, a recursive function over the whole body. They are not
  inductive; `Follows` is. Its parts: the buffer is the body from some position to what was fed
  (`Window`); what the reference makes of the body is what it makes of it from there, in the
  reader's state (`Stands`, once for the cap and once for the cap less three bytes, unless the
  reference refuses); the sink ends where the buffer begins and no delimiter is in it
  (`Filling`); and a reader that asks for the next chunk has seen in its buffer all there is to
  see (`Quiet`), which is what pruning too much or cutting a delimiter in two would break. One
  lemma per state (`FollowSeek` ... `FollowSkip`) shows that what `_step` finds in its buffer is
  what the reference finds in the body. Where a fact about the reference needs induction over
  positions it is a least counterexample that `WFMin` gives.
- **`LogDispatcher_proofs`** (`StopIsNoRecord`, a hypothesis: the sentinel is no record).
  `FlushedIsWritten` is not inductive. `LogInv` is the books of the queue: what was put is what
  was written, then the record in hand, then what is queued; `unfinished` counts the last two
  until `task_done`; the sentinel is last. So `unfinished = 0` means that all is written
  (`Joined`).
- **`MetricsScrape_proofs`** (`ScrapeAssumption`). `CountedOnce` needs the cache to be on: the
  lock's owner is the only one who renders (`LockInv`), and `_last_restarts` moves only with the
  counter (`CountInv`). `GoForward` does not: every exposition that is stored, cached or served
  was current when it was generated and both counters only grow.
- **`ExtractSystem_proofs`** (`PoolAssumption`). Every step of the composition is a step or a
  stutter of the gate, of the buffers (`PartsStep`; `ImplementsGate`, `ImplementsBuffers`) and,
  but for the readiness that the route sets, of the pool. The module instantiates
  `AdmissionGate_proofs` under the composition's names, proves `BufferPool` on its own
  (`Conservation`: the books of the buffers are inductive; `Refusals`) and extends
  `ExtractorPool_proofs`, so the parts' inductive steps are cited and not repeated. New is what
  links them: `lent` = the requests inside (`PlacesInv`), from which a granted request always
  finds a buffer (`NeverRefused`: the capacities are equal and somebody inside is missing); the
  sink of a call that is still waited for holds its document and nothing else was sent
  (`CallInv`), hence `OwnDocument`; whoever holds a permit and is not inside any more timed out
  (`Runaway`), hence `GateWaitsOnlyForRunaways`; and why readiness is degraded (`ReasonInv`).
  Because `Finally` touches nothing of the pool but its readiness, and that only towards ready,
  the pool's own promises survive the composition: its accounting, rebuilds and `BoundedGrants`
  (`SysPermits`, `SysExecutors`, `SysGrants`, with `SysAdmissions` for the first gate).
  `SysReady` shows that what `system_quiet` finds is the one way to come to rest unready: a call
  was turned away by the pool's gate. The composition has no `close()`, so what is said of a
  closed pool stays a theorem of `ExtractorPool_proofs`.
- **`RequestPipeline_proofs`** (`PipelineAssumption`). The door and the log are instances of
  `AdmissionGate_proofs` and `LogDispatcher_proofs`; here the door's two counters are derived,
  which the gate's invariant covers as it stands. `StageInv` says where at the door a request of
  each stage is; `LifeInv` that a handler is attached from start to flush; `OnceInv` that
  whoever was answered was put once and after the warm-up if the level lets the line through,
  and that nobody else was. The level is set by `Start` and never again. After the flush
  everything put is written, in order: `AnsweredIsLogged`. The process implements its three parts
  (`ImplementsDoor`, `ImplementsLog`, `ImplementsScrapes`), so that what is proved of them alone
  holds in it (`DoorGrants`, `Forwards`, `RebuildsCountedOnce`). `AnswersAreCounted`: the
  counter of requests is the number of answers that got their id; from it `NoAnswerIsBound`,
  that the bound TLC needs on that counter never blocks an answer.
- **`ExtractionService_proofs`** (`SettingsAssumption`, `ServiceAssumption`: environments of the
  right type, files as PyMuPDF describes them, over any alphabet whose texts have no newline).
  `Course` is the inductive invariant: it says at each stage what is open, what the text is and
  what may be answered. The rest is about what the text is, for every document. `FlattenSeq`,
  `FoldLeft` and `MapThenSumSet` are unfolded to equations on appended elements (the first
  lemmas), and induction over a sequence is stated with sets (`Appending`: a set that has the
  empty sequence and is closed under appending has them all), which the provers can use where an
  operator parameter is out of reach. `Words`: `Letters` distributes over concatenation, so each
  function of `markdown.py` is shown to keep it, then the two folds of normalisation. `Limited`:
  decomposing makes three characters of one at most, and a normal form is one where nothing
  merges (`Composed`) and no three newlines meet (`Sparse`), which both folds then leave alone.
  `Blanks`: paragraphs are tidy at their ends, joining keeps that, and normalisation changes no
  blank but runs of newlines (`Tracks`). `Headings`: the weights that `BodySize` compares are
  sums over spans, and a size that has more than half of the page's characters wins; that it has
  more than half of the document's, too, is not needed, the code never asks. Its
  hypothesis, `"#" \notin Alphabet`, is needed: the code does not escape a number sign, so a
  body line that begins with one reads as a heading (section 5).

The lists under "theorems" in `PROJECT.json` say which theorem proves which checked property.

**Only model-checked.** Liveness (`PermitsComeHome`, `CloseReturns`, `ParkedAreAnswered`,
`RequestsAnswered`, `ObservabilityAnswered`, `ShutsDown`, `ScrapesAnswered`): TLAPS has no rules
for fairness and ENABLED. Every safety property of a passing run is a theorem,
`HeadingsStandOut` under the hypothesis above. The four violations are what they are: their
properties do not hold.

## 5. Where the code and what is said of it disagree

Shown by a run (`PROJECT.json`, "findings"):
1. `pool_innocent`: `_restart_pool` replaces the *current* executor, not the one that broke
   (pool.py:227-228). Two calls that see one break rebuild twice; the second rebuild shuts
   down a healthy executor with whatever was submitted to it.
2. `system_buffer`: after an extraction timeout the route gives the buffer back
   (extract.py:80) while the job still refers to it; extract.py:10-12 says it never does. No
   *response* can carry another request's text: `OwnDocument` holds, the job that reads the
   wrong bytes belongs to a request that was already answered.
3. `system_quiet`: a call the pool's gate turns away marks the instance overloaded
   (pool.py:147); the last release sees a counted waiter that is about to give up and does
   not mark it ready. At rest, not ready, until the next request.
4. `pipeline_unhandled`: the 500 for an unhandled exception is sent outside
   RequestIdMiddleware, without the correlation id and uncounted.

Met while reading, without a run of their own:
- A call that merely waits at the pool's gate degrades readiness (pool.py:88), though it is
  served later; `src/tests/extractor/integration/test_concurrency.py:7-9` says the instance is
  not ready only while the pool is broken and being rebuilt, pool.py:224-225 that shedding load
  is no reason.
- Readiness comes back only when `inflight()` reaches 0 (pool.py:207-208), not when a
  rebuilt pool serves again, as pool.py:222-224 suggests.
- `inflight()` and `mark_ready()` in `_release_slot` are two locked steps: a rejection in
  between is overwritten.
- With a TTL of 0 two renders read the same `_last_restarts` and count a rebuild twice
  (metrics.py:68): `RestartsCountedOnce` fails with `Ttl = FALSE`.
- A header block that ends within three bytes of the cap is refused or not depending on
  where a chunk ends (multipart_reader.py:148 and 152); `ChunksDoNotShow` states it with
  that exception.
- The cap on the text is asked before normalisation (extraction_service.py:63-65), and NFC
  may make three characters of one: an answer can exceed `MAX_EXTRACTED_CHARS`, though
  `src/README.md:115` says that more than the cap is a 422. `ResultWithinLimits` states the bound that holds.
- The body size is taken per page (markdown.py:42, 101) and not from the document as
  markdown.py:9 says: a page that holds only a title shows it as body text. `HeadingsStandOut`
  is therefore no claim about the docstring's rule as a whole: it speaks of the pages on which
  both rules name one size, those where most characters, of the page and of the document,
  have it.
- A blank span in a large font makes a heading of the line it is in: its size counts in the
  line's maximum (markdown.py:59) and not in the body size (markdown.py:109-110). Fonts below 0.05 pt
  round to a body size of 0 (markdown.py:111), which switches headings off; `LeastSize` keeps them out.
- `Settings` does not compare fields: a `min_text_length` above `max_extracted_chars` is
  accepted, though few documents can then be answered; a `max_concurrent_extractions` above
  `workers` too, and then calls time out in the executor's own queue.
- Characters that mean something in Markdown are not escaped (markdown.py:66-77).
- `needs_pass` and `page_count` are read outside the inner `try` (pymupdf_extractor.py:52-54
  and 60). The docstring (39-45) promises `UnreadableError` for anything that cannot be parsed;
  should PyMuPDF raise there, its exception leaves `extract()` as it is and the answer is a 500.
  `Escape` models it: a document can be to blame for a 500, as it can by killing its worker
  (pool.py:162-164). `NothingStaysOpen` says that these are the only two ways to one.
- With `PDFEXTRACTOR_LOG_LEVEL` at WARNING, ERROR or CRITICAL (settings.py:100-106) the access line,
  an INFO (middlewares.py:106), is dropped for every request, and so is the warm-up's;
  at CRITICAL the line of an unhandled exception, too. `AnsweredIsLogged` holds with respect to
  the configured level.

## 6. Not modelled

- PyMuPDF and the parsing of a PDF: its result is what `Markdown` starts from. The regular
  expression for ordered items (markdown.py:28, 82): such a line stays as it is, as does one that is no item.
- How pydantic reads the environment. `boundary_from_content_type`: a pure function of
  one header. Schemas, the JSON response, the entry point: declarations and glue.
- The composition has one capacity because the lifespan gives `effective_max_concurrent_extractions`
  to the admission gate, the buffers, the thread pool and the pool's gate (main.py:75-88); `SettingsBuildTheParts` shows that
  it is never less than one.
- What the pool does around the adapter, its queue and its timeouts, is not in `ExtractionService`:
  a job that outlives its call, with its document still open in the worker, is `ExtractorPool`'s and
  `ExtractSystem`'s.
- Message texts of the error handlers; which header carries the
  correlation id; the fields of a log line; gauges and histograms.
- Time: timers fire at any instant once set, and a cached exposition is fresh until it is not.
- `close()` and the shutdown of the route's thread pool (main.py:107-109) are no steps of their own: they may keep
  `Closed` waiting for ever, so `ShutsDown` begins where they are over. Loggers other than the service's two.

## 7. Status

All of the program's own concurrency, its framing, its extraction and its settings are
modelled; every safety property that a passing run checks is proved. What could be added: a bound on `close()`,
should the code get one, with `CloseReturns` then free of the assumption that jobs end; and
the gauges, which `render()` sets from `inflight()` and `queue_depth()`.
