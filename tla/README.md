# Verification of docling-markdown-generator

The repository is a service and a library that turn documents into Markdown
with Docling: a FastAPI server (`server.py`) takes uploads and hands them to a
pool of worker processes (`pool.py`), each of which runs a `PDFConverter`
(`converter.py`, `serializers.py`, `utils.py`) that may ask a vision-language
model for picture captions (`vlm.py`). A command line (`cli.py`) does the same
without the server. All paths below are under `src/docling_lib/`.

This directory holds TLA+ modules for the parts whose correctness depends on
order, concurrency and failure, TLC configurations for small instances of them,
and TLAPS proofs of what matters most for every instance.

## 1. The system

| component | state | operations | interacts with |
|---|---|---|---|
| Conversion endpoint, `server.py` `convert_file` and helpers | progress of each request, its upload in `UPLOAD_DIR`, its `OUTPUT_DIR/<uuid>` | validate, save the upload, make the output directory, take a permit, submit to the pool, check the result, count, unlink | semaphore, process pool, metrics, thread pool for file calls |
| Concurrency semaphore, `get_concurrency_semaphore` | limit, value, FIFO of waiters | create once from free memory, acquire, release | endpoint |
| Metrics registry | active gauge, totals, durations | increment, record, render | endpoint, `/metrics` |
| Rate limiter, `rate_limiter`, `cleanup_expired_rate_limits` | a deque of stamps per client, time of the last clean-up | admit, refuse, start a clean-up task, clean a batch | endpoint; client address |
| Request path: `ContentSizeLimitMiddleware`, `api_key_auth`, `_get_client_ip`, `download_file` | each connection's request and the bytes read of it | count the body, find the client's address, check the key, serve a file | rate limiter; endpoint |
| Process pool, `get_process_pool`, `shutdown_process_pool` | the global executor | create lazily, submit, break, shut down | endpoint, workers |
| Worker task, `process_pdf_multi_process_worker`, `process_pdf` | a task directory, the conversion lock | copy in, convert, copy out | process pool, model pool, converter |
| Model pool, `ThreadSafeModelPool` | dictionary of converters and access list | `get_converter` | worker task |
| Converter, `PDFConverter` | one document | convert, recover Excel pictures, caption, serialize, add front matter, save images and text | serializers, captions, utils |
| Captions, `_prefetch_vlm_captions`, `generate_caption_sync`, the picture serializer | captions found, permits of a `threading.Semaphore` | prefetch in threads, retry, fall back | HTTP clients, remote model |
| Asynchronous captions, `generate_caption`, and the tables by provider | one semaphore per provider, endpoint and limit; the loop's default executor | encode, take a permit in a thread, request, retry, be cancelled | HTTP clients, remote model |
| Serializers and assembly, `serializers.py`, `_serialize_document`, `_save_markdown` | one document's text | items to Markdown, page markers, front matter, key section, image files | converter |
| HTTP client caches | one client per process, one per event loop | get, close at exit | captions |
| Configuration, command line, scripts | none | read environment, parse arguments | all |

What is hard in it:

* **Interleaving.** Handlers interleave at every `await`; the clean-up of the
  rate limiter yields between batches; threads share the model pool, which gives
  up its lock while it builds; caption threads share permits.
* **Failure part-way.** An upload, a copy or an unlink can fail after earlier
  steps took effect; a worker process can die and breaks the executor for good;
  the server can be killed and restarted with its files left on disk.
* **Stale readings.** The concurrency limit is one reading of free memory; a
  clean-up task goes on with the clock it was started with; a cached converter
  is found by a key that leaves options out.
* **Cancellation and shutdown.** A caption task is cancelled while a thread still
  takes a permit for it; the pool is shut down while others look for it.
* **Order without a lock.** The framework looks at body, key and limit in turn; a
  document's elements are put in front of its text one after the other.
* **Bounds.** Models kept, permits, retries, body size, threads of an executor.

What makes each part correct: permits are neither lost nor duplicated and nobody
waits beside a free one; uploads do not outlive their request nor vanish before
their task; a 200 means a complete output; the counters agree with the requests;
no window holds more requests of a client than the limit and no client is
refused without cause; a key has one converter and the oldest is dropped first;
one executor lives at a time and a shutdown waits for its work; caption requests
are bounded, a found caption is used, permits survive cancellation, every document
ends; a request is counted at its sender and costs nothing if it does not get to a
handler; every item of a document comes out once, in order, under its page
and with a link that leads to its own image.

## 2. Modules

| module | models | composition |
|---|---|---|
| `ConversionServer` | the endpoint, the semaphore, the metrics and the process pool as the server sees it | |
| `ConversionService` | what a client is promised: one answer, 200 only for a conversion that ended, bounded slots, each outcome counted once | abstract |
| `ConversionServerRefinement` | the mapping from the first to the second | INSTANCE of `ConversionService` |
| `RateLimiter` | `rate_limiter` and its clean-up tasks over elapsed time and a wall clock | |
| `RequestPath` | the size middleware, the router, key and client address, the download handler | extends `RateLimiter`: its steps are taken by requests |
| `ProcessPool` | `get_process_pool` against `shutdown_process_pool`, and what callers do with the result | |
| `ModelPool` | `get_converter` with its two locked sections | INSTANCE of `LRUCache` |
| `LRUCache` | an indivisible least recently used cache | abstract |
| `WorkerTask` | `process_pdf_multi_process_worker` and the `process_pdf` it calls, on their files | |
| `ConversionTask` | what the server relies on when it submits a task | abstract, instantiated by `WorkerTask` |
| `VlmCaptions` | prefetch, permits, retries and fallback of one document in each worker process | |
| `AsyncCaptions` | `generate_caption` on one event loop, its executor, its cancellation, and what its arguments make of the request | |
| `ExcelImages` | which pictures of a workbook are added to the document | |
| `MarkdownDocument` | the serializers, the assembly of the text and its two callers | extends `ExcelImages`: what that adds is rendered |
| `MC...` | model values, constant sets and symmetry for the runs | extend the modules above |
| `...Proofs` | theorems and their proofs | extend the modules above |

### ConversionServer

`pc[r]` names the await at which the handler of request `r` is suspended; what
the code does between two awaits that can suspend is one action, since the event
loop is one thread. `tempFiles` and `outDir` are the disk, `limit`, `value` and
`waiters` are the fields of `asyncio.Semaphore` as Python 3.12 implements it
(`_wake_up_next`, `release`, and the wake-ups an `acquire` makes when it resumes
are `Wake`, `ReleaseTo` and the `Resume` actions), `pool` is the global executor,
`active`, `totals` and `samples` the registry. An acquire that need not wait does
not suspend, so making the directory, acquiring and submitting are one action
(`MakeOutputDirAndSubmit`). The `finally` block counts the outcome in the step
that knows it, then awaits the unlink, which may raise and replace the answer.

The environment chooses, as far as `Faults` lets it: a disk call that fails, a
conversion that returns nothing, a worker that dies (every task of the executor
is failed with it, and every later submission raises), a `psutil` call that
raises, and a kill of the process between any two steps, after which memory is
gone and files are not. `MemoryChanges` moves the free memory `psutil` reports.
`samples` is the list of durations, cut at `Keep` (1000 in the code).

### RateLimiter

One action per call of `rate_limiter` (it has no `await`) and one per stretch of
the clean-up task between two `sleep(0)`. `real` is elapsed time and `wall` what
`time.time()` returns; they differ once the clock has been stepped back.
`accepted` records in elapsed time what was let through.

### RequestPath

`conn[s]` is a connection with its request, how far it is, the bytes read and the
answer. A request is a record: sender, the proxies it came over, what the sender
wrote into `X-Forwarded-For` itself, `X-Real-IP`, key, route and path, the declared
length and the chunks that really come. `Hops` is the header as the server receives
it and `ClientIp` is `_get_client_ip`, with the networks of `TRUSTED_PROXIES`
expanded to addresses. The order is the framework's: middleware, router, the
reading of a form, then the dependencies in the order of the route's list
(`Dependencies`, `After`). `Limited` and `Passes` take the step of `RateLimiter` in
the same action. `served` counts, per address, the requests that a handler answered. The
handlers are one step each: `Download` is `download_file`,
with the safety of the path as data of the request; `Convert` stands for
`ConversionServer` and for the framework's own check of form fields and headers, whose 422
comes after the limit.

### ProcessPool

One action per statement that another thread can observe: the look at the global
without the lock, the locked section, the second reading of the global for the
return. `shutdown_process_pool` closes the executor and keeps the lock until its work
is done. `health[e]` tells an open executor from one that closes, is shut down or is
broken by a worker's death; `work[e]` are the threads whose task it has. A caller that was
given `None` hands its work to `run_in_executor(None, ...)`, a thread of its own.
`overlapped` remembers whether a shutdown ran during the call.

### ModelPool

`Hit` and `Miss` are the first locked section of `get_converter`; `LostTheRace`,
`Insert` and `ReplaceOldest` the second, after the unlocked build. `Settings`
stands for the values of the eight options in the key. `pages` stands for an
option the converter is configured from and the key leaves out. `LRUCache` sees
the cached converters in the order of the access list.

### WorkerTask

`stage[t]` is how far task `t` has come: scratch directory made, input copied, paths
allowed, lock held and document converting, parsed, serialized, images saving, saved,
publishing, cleaning, done. `lock` is `_converter_lock` of each process. A result
file is the Markdown (`0`) or the image of a picture, named by the place of the
picture in the document: once by the serializer that writes the link (`LinkName`),
once by `_save_images` (`ImageName`). `scratch` and `output` are what lies in the
temporary and in the final directory. Copying follows `iterdir`: the images are
one entry, whose `copytree` goes on after an error and raises at its end, the
Markdown another. `Refuse` stands for the checks of `_validate_output_security`,
whose verdict the environment chooses. A copy that fails leaves nothing of its
file, although `copy2` can leave a part of it; both count as not copied. The thread
pool that saves images is wide enough for all of them to be in any order.

`ConversionTask` has the steps that `ConversionServer` takes for a task
(`WorkerConverts`, `WorkerPublishes` and so on), so the two modules meet there:
the server is checked against the contract, the worker against it too.

### VlmCaptions

`stage[p][i]` is where the call for picture `i` is in process `p`; the thread
pool takes queued pictures in document order and is as wide as `Width`. A permit
is held across the retries and their pauses. Afterwards the serializer goes
through the pictures, uses what the prefetch found and calls once more, in its
own thread, for what it did not find. A picture may have no image (`Missing`) or
one that does not load (`damage`): the prefetch skips the latter with a warning,
the serializer raises on it.

### AsyncCaptions

`stage[c]` is the await of call `c`, `job[c]` its work in the loop's default
executor, which has `Workers` threads and a queue. A cancellation reaches a call at
any await: a queued job is then skipped, a running one goes on, and the permit is
given back if `acquired` was set. `Acquire` and `Acquired` are apart because the
thread takes the permit before the loop hears of it. `Provider`, `Endpoint`,
`Format` and `Reader` are the defaults and the tables of `vlm.py`, each written out
from its own place in the code, and `Key` the semaphore, over the
spellings in `Args`; `Lower` gives the lower-case form of those that have another.
`Mixes` lists which arguments come together: three that contend for one semaphore, and
all the names the tables know. What a service makes of a request is the environment's: it
answers (`Answered`) in a format it speaks (`Spoken`), and refuses (`Refused`) another.
`outcome` remembers which; an answer that the reader of its provider does not understand is
an empty caption, `unread`.

### ExcelImages and MarkdownDocument

A workbook is a sequence of sheets, each with the two-cell and one-cell anchors of
its drawing, or without a usable drawing, or malformed. The steps are those of the
two loops: `SearchSheet` over the sheets, then `HashDetected` and one `Skip` or
`Add` for each item found. `detected` is what docling's own backend found, which
the environment chooses. `Hash` keeps image and storage apart, since the code
compares the hash of file bytes with the hash of a new PNG. The paths from the
package's relationships to a drawing, cell positions and names are left out.

`MarkdownDocument` goes on from there: `body` are the items docling made, `Contents`
those and the recovered pictures behind them. The serializers take one item per
step: `Break` is docling's page break between items and the marker `serialize_doc`
makes of it, the other steps are the forms an item can take. A table comes out in parts,
captions and itself: as docling's own (`SerializeTable`), as HTML if it has merged cells
(`SerializeMerged`), as docling's own again if that export raises (`ExportRaises`), and
without itself if the export returns nothing (`ExportIsEmpty`). Pictures are those of `doc.pictures`,
which `_save_images` saves and the names are numbered by; those of another layer than the body,
as on a hidden sheet, are never given to the serializer (`hidden`). `Assemble` puts the first marker, the front
matter and the key section in front of the text in the order of the code. `use` are
the options and the caller: `_save_markdown` ("save") saves the images after the
text is assembled and then writes the file, `EnhancedDoclingConverter` saves them
first if it has a directory ("assets") or not at all ("render"). `text` is a sequence
of markers, items and links, an item named by its place in the document, so that a
property can say that none is lost, doubled or out of order.

## 3. Runs

| run | bounds | what it asks |
|---|---|---|
| `server_faults` | 3 requests, 1 worker, memory for 0 or 3 conversions (limit 1 or 2), one kill and restart, all faults | permits conserved; uploads reclaimed and never taken from a task; counters agree; success is published; the service is implemented |
| `server_queue` | 4 requests, limit 2, failing conversions and worker deaths, fair | no lost wake-up; first come, first served; every request is answered |
| `request_path` | 2 senders and a proxy on one connection, 16 requests, body limit 2, limit 2, window 2, clean-up every 3, batches of 1, one step back by 1, time to 6 | limit in every window; refusals deserved; senders counted as themselves; nothing too large goes on; the limit is spent on what handlers answer |
| `process_pool` | 3 threads, 2 shutdowns, worker deaths, fair | one live executor; a shutdown waits; a dead pool only beside a shutdown; calls return |
| `model_pool` | 3 threads, 3 settings, 2 entries, 3 converters built | one converter per key; least recently used |
| `worker_task` | 2 tasks of one process, 3 pictures, one without data, all faults, fair | links resolve; nothing remains; tasks end; the contract is implemented |
| `captions` | 5 pictures, one without image, none, one or three broken, limit 0, 1 or 2, one retry, fair | permits; requests bounded; captions used; documents end, with one exception |
| `async_captions` | 3 calls, 2 threads, 30 mixes of arguments, one retry, cancellation, fair | permits accounted for; a shared limit is kept; requests fit their service; calls end |
| `document` | workbooks of up to 2 sheets of up to 2 pictures, 4 kinds of files; paged documents of 3 to 5 items with every kind of table; 3 uses | readable pictures reach the text; names and links; order; markers; front matter |
| `download_doc` | as `request_path`, steady clock, time to 4 | expected violation: a published picture is not served |
| `pool_key_doc` | 2 threads, 2 settings | expected violation: a caller gets a converter configured otherwise |
| `excel_doc` | as `document` | expected violation: a picture that docling found is added again |

No run asks for types: `TypeOK` of a module is proved instead (section 4), for
every value of the constants.

Why the bounds are enough. Two permits and four requests are the smallest
instance in which a newcomer could pass a woken waiter while a permit is free;
three requests with a limit of one or two make two waiters, a worker death with
tasks in every stage, and a kill in the middle. Memory for none and for three conversions with one
worker meets both edges of the limit's clamp: without the lower one a permit would be missing,
without the upper one there would be three (`PermitsConserved`). `Keep` is 1 or 2 instead of 1000 and
only bounds the list. Three addresses with batches of one make a clean-up task yield
between them; one connection is enough, for what two connections share is the limiter,
whose steps the clean-up tasks already interleave with, and the theorems of section 4
are about any number. The body limit of 2 has bodies of chunks 1+1 and 2+1, one that fits
exactly and one that exceeds it only as a sum. Furthermore a window of two ticks with a clean-up every three makes tasks
overlap with requests and with each other. Two entries for three settings force
an eviction, and the third thread lets one build race with another while a third
evicts. Two tasks are enough to contend for one lock; three pictures with the
second lacking data tell numbering by place from numbering by image. Three or four loadable pictures exceed the widest pool of two, and
a single one takes the way without a pool, where a limit of 0 is not refused.
Three calls with two executor threads let one wait for a thread while another
waits for a permit and a third holds it; three threads let two of them queue on the lock
behind a shutdown, the second of which closes what was created in between. Two sheets are the
least in which a malformed or empty one stands before another, and the documents jump over a page,
go back a page and begin without one, and have tables of every kind with and without captions.
`MaxRestarts`, `MaxTime`, `MaxBuilds` and `MaxShutdowns` are bounds of the model, not of the
code; each is named where it guards an action.

Deadlock is checked in every run; where the system really ends (the server has
stopped for good, all documents have ended) the module has an explicit step for
it (`Stopped`, `Ended`); in `VlmCaptions` and `AsyncCaptions` it is one for the endless waits
of section 5 too, which the liveness properties except by name.

**Fairness.** `ConversionServer!FairSpec` is weak fairness of each request's
handler and task: the event loop runs every ready handler, thread-pool file
calls and conversions end (the code sets no time limit on either), and the
executor feeds idle workers. The arrival of requests, faults and shutdown are
not fair. `WorkerTask!FairSpec` is weak fairness of each task: docling and file
calls end. A task holds the lock once, so that weak fairness is enough for the
tasks behind it. `VlmCaptions!FairSpec` is weak fairness of each thread of a process;
that a request ends is the client's 300-second timeout. Weak fairness suffices
for permits because the pool is not wider than the semaphore, which
`NobodyWaitsForAPermit` states. `AsyncCaptions!FairSpec` is weak fairness of the executor's
queue and of each call: a thread blocked in `acquire` competes with calls that
all end, and a call takes a permit once. `ProcessPool!FairSpec` is weak fairness
of each thread's step: tasks end, and the lock is free again when a shutdown is over,
of which there are finitely many. Calls, cancellations, shutdowns and deaths are
not fair.

Where code and documentation disagree, the run that shows it checks the
documented statement and is expected to find it violated; `PROJECT.json` quotes
both sides. One such finding rests on a run that passes: `MatterLeads` of `document` states
what the code does where the documentation says the opposite, and holds.

## 4. Proofs

All for every value of the constants that satisfies the named assumptions.

* `ConversionServerProofs`. `TypeCorrect`: types. `SemaphoreCorrect`: permits
  conserved, the queue exact, no lost wake-up. None of the three is inductive
  alone: a wake-up moves whom the queue lists, so the accounting needs the queue
  to list each waiting request once, and the queue to be empty before the
  semaphore exists (`NoQueueYet`); `SemaphoreInv` is their conjunction with the
  types. `AdmissionOrdered`: first come, first served, from the same invariant.
  `NobodyWaitsBesideAPermit`, `InputsOutliveTasks` and `SuccessesArePublished`
  state single properties. `FilesCorrect`: `FileInv` adds that a request that has not created its upload
  has none (`UploadMatchesStage`) and that a converted task has its output complete
  (`OutputComplete`). `MetricsCorrect`: the gauge is the number of open requests, and the
  total of successes lies between the number of requests answered 200 and that with those
  whose unlink raised. That needs, of each request, when it was counted and what its code is
  by then (`CountedRequest`), and that a step of one request changes no other, but for
  those it wakes (`Alone`), so that the cardinalities move by one.
  `ServerImplementsService`: each action is
  mapped to the step of `ConversionService` it makes, or to a stutter; the
  invariants above and `PlannedCodes` (what the status of an unfinished request
  may be) give the slot bound and the replies.
* `RateLimiterProofs`, for a clock that is steady or set back once, by less than a
  window (`SmallStepsBack`, which the run satisfies too). `LimiterCorrect`:
  the deque is the live end of what was let through, and no window holds more
  than `Limit`. The inductive invariant `IInv` says of each stamp that is kept that it is
  the time of its request, or early by what the clock lost since (`IsStampOf`); in that
  case no clean-up task carries a reading from before the step that is later than the
  request, so that the only readings that could drop the stamp too soon are gone. What is
  no longer kept has expired.
  `RefusalsDeserved`: until the clock is set back, who is refused has `Limit` requests in
  the last window. The module goes on with `RequestPath`: `PathImplementsLimiter` maps each step of the
  path to one of the limiter or a stutter, so that the results above hold of
  requests (`PathLimit`, `PathLog`, `PathRefusals`). `SendersCounted`, for any clock:
  `SenderIsLastUntrusted` says that in the header a trusted chain hands on, the
  sender's address is the last one not trusted, whatever stands before it;
  `SlotsStep` is the invariant that a request on its way is one of `Requests`.
  `OversizedStops`: `received` is the sum of the chunks so far (`SlotsInv`), and the sum over all
  of them is no less (`RunningLenTotals`), for bodies of any number of chunks.
  `LimitSpentOnHandling`: by the order of `Dependencies` it is the limit that lets a request
  on to its handler and the key that lets it on to the limit (`KeyThenLimit`); each step moves at
  most one request into or out of those that are handled (`HandledChange`), so that their
  number, the answers given and the log of the limiter stay in step (`LimitInv`).
* `ProcessPoolProofs`. `OnePool`, `ShutdownWaits`, `DeadPoolsExplained`. The inductive
  `IInv` adds that a thread that waits for the pool's work has the lock, alone, and the
  closing executor is the global one (`LockInv`), and that a call no shutdown has
  overlapped has found or made a pool by the time it returns (`CallInv`).
* `AsyncCaptionsProofs`. `PermitsOfCalls`: the accounting of permits, from the
  correspondence of `stage` and `job`. `SharedLimit`: calls to one service have one
  `Key`, and those that ask own permits of its semaphore. `DefaultService`: an invariant of
  `outcome`. `TablesAgree` shows by cases on the provider that the default endpoint speaks the
  one format that the payload has and the reader expects; the steps of the service then leave
  no call without an endpoint of its own refused or unread.
* `ModelPoolProofs`. `PoolCorrect`: the dictionary and the list agree and a key
  has one converter; `IInv` adds that an entry's converter has the entry's key.
  `PoolImplementsLRU`: the refinement of `LRUCache`.
* `WorkerTaskProofs`. `TasksCorrect`: links, order and remains. The inductive
  invariant is two statements about one task: `ResultInv` (before the Markdown is
  written nothing is decided or published; afterwards the scratch directory is what
  is copied and what is to be, unless a copy failed) and `ImagesInv` (from the
  moment saving starts an image is there, waiting or failed).
  `TaskImplementsContract`: each step is one of `ConversionTask` or a stutter.
* `VlmCaptionsProofs`. `PermitsCorrect`: that nobody waits follows from counting.
  `IInv` says that the calls in progress are no more than the pool is wide while it
  prefetches and at most one afterwards (`WidthInv`, `SerialInv`), so a waiting call
  leaves a permit. `RequestsCorrect` and `CaptionedLeftAlone`: `CallInv` gives the
  number of calls of a picture exactly, from the phase and its stage, and `PostInv`
  what the call in progress has sent so far.
* `MarkdownDocumentProofs`, about a workbook and the document made of it, of any
  length. `ExcelInv`: `found` is the pictures of the sheets searched so far, sheet by
  sheet (`FoundOn`), and of those compared so far each good one has its hash among
  `hashes`, which are hashes of detected or added pictures and of nothing else.
  `AllPicturesLinked` follows, with `TextInv`: the items before `at` are in the text, in
  order (`InOrder`), the linked ones with a link (`LinksIn`), and only names of pictures
  are saved. `OrderKept` is its first part once the text is whole, with `AllWhole`: a table in
  the text has its captions and itself, but for the one whose export returns nothing. `LinksTrue`
  needs that no two pictures have one name: the number in a name is the count
  of pictures up to it, which grows strictly (`NamesAreTheirOwn`). `MatterFirst`, from `MatterInv`.
  `MarkersTrue`: `RightlyMarked` says of each part that the last marker in front of it names its
  page, with the marker of page 1 missing until the text is assembled. By itself it is not
  inductive: what the next marker says depends on the page the serializer has reached, which
  is that of the last item in a document that only ascends, and at least that in others (`Reached`);
  and the marker that `Assemble` puts in front is the only one of page 1 (`LaterMarks`).

Every invariant and every action property of a passing run is stated by one of these
theorems. Only model-checked is liveness (`EveryRequestAnswered`, `EveryTaskEnds`,
`EveryDocumentEnds`, `EveryCallReturns`, `EveryCallEnds`), which is outside what the
prover can do. `PathLimit` claims nothing for a clock that is set back by a window or
more, where it is false (section 5), nor `PathRefusals` of what is refused after a step back.

The sum of a body's chunks and the media of a drawing's anchors are recursive functions.
The library's induction takes an operator as a parameter, so the proofs about them take the least
element of a set of naturals instead (`LeastIndex`, `Induction`): first that a function with
the two equations exists, so that the one `CHOOSE` picks satisfies them. `SelectSeq` of
the standard module is a definition the prover cannot open, which is why `ExcelImages` has
`OnlyMedia`, and `MarkdownDocument` compares places in the text instead of a filtered one.

What is proved and asked by no run: the types, `QueueIsExact`, `LogIsLiveSuffix`,
`OrderMatchesPool`, `NobodyWaitsForAPermit`, `UncaptionedWasAskedTwice` and
`MarkdownIsLast`.

## 5. What to know about the results

* The upload of a request that was open when the process was killed stays in
  `UPLOAD_DIR`: `UploadsReclaimed` lists these uploads as the exception they
  are, together with those whose unlink raised.
* A worker death breaks the executor and nothing replaces it: later requests are
  all answered with 500 until the server is restarted.
* An unlink that fails after a success turns the 200 into a 500 that the totals
  count as a success; `MetricsAgree` bounds the difference by those requests.
* The concurrency limit is computed once, when the first request needs the semaphore
  (`server.py:357`), and stays for the life of the process, although `README_EN.md:78`
  says that it follows the free memory.
* The list of durations is cut at 1000 entries (`server.py:167`) and rendered as a
  summary (`server.py:203`, `API_REFERENCE.md:120`), whose count and sum therefore stop
  growing or even fall, while the totals go on.
* `AtMostLimitPerWindow` is checked and proved for a clock step shorter than a window. A
  step back of a window or more between the start of a clean-up task and its
  batches lets the task drop stamps that still count.
* A worker that dies leaves its scratch directory, with a copy of the input, in
  the output directory of the request; nothing removes it.
* The gauge `docling_active_conversions` counts requests from validation to their
  `finally`, those waiting for a permit or uploading too, so it can exceed the
  number of worker processes.
* `vlm_max_concurrent` bounds the requests of one worker process; all workers
  together may send that many each.
* A workbook picture that opens but cannot be loaded or saved as PNG ends the
  adding of pictures: those after it are left out.
* `LinksResolve` leaves out pictures whose image could not be saved and those
  without image data: their links stay in the Markdown.
* `vlm_max_concurrent = 0` fails a document with two or more loadable pictures
  (a thread pool of no threads) and, with exactly one, waits for ever on a
  semaphore of no permits while the worker holds the conversion lock. The run has
  both, and `EveryDocumentEnds` excepts the second; negative values are left out.
* A body that is found too large while the form is read may be answered 400 by
  FastAPI, which makes that of an exception in its form parser, instead of the 413 of
  `API_REFERENCE.md:240`; the model allows both.
* Pictures are published under `images/`, and the download route takes one path
  segment, so they cannot be fetched one by one (`download_doc`).
* `get_process_pool` may return an executor that is shut down, or `None`, to a
  caller beside a shutdown. In the server both run on the loop's thread, so that
  this cannot happen there.
* The semaphore of captions is found by provider, endpoint and limit. Calls with
  another limit, an endpoint with a trailing slash or an alias of the provider have a
  semaphore of their own, so a service can see the sum of several limits.
  `generate_caption` with a limit of 0 waits for ever; the run has limits of 1 and more.
* A `generate_caption` that is cancelled after its thread took the permit and before the
  loop noticed loses the permit: `PermitsAccounted` counts it as owned, and
  `EveryCallEnds` excepts the calls behind it.
* With `include_kv_extraction` the key section stands before the front matter
  (`converter.py:598`), while `MARKDOWN_SPEC.md:11` says that documents begin with the front matter
  and `MARKDOWN_SPEC.md:70` that the section is appended. `MatterLeads` says what the file begins
  with in either case, and the difference is a finding.
* A table with merged cells whose HTML export returns nothing, without raising, is left
  out (`serializers.py:294`, `305`): only its captions remain, or nothing does. The fallback to
  docling's own table is for exceptions. `ContentInOrder` names this exception.
* The link of a picture takes the place of all that docling says of it, its captions
  included (`serializers.py:114`).
* A picture that docling keeps out of the body (on a hidden sheet, in a header) is one
  of `doc.pictures`: it is numbered and its file is saved, but nothing links it. A
  workbook's picture with the same bytes then counts as present and is not added
  (`converter.py:341`). `LinksNameTheirPictures` and `NothingIsLost` except these.
* The marker in front of the text always names page 1. A document whose first item is on
  another page has its first items under it, and pictures recovered from a
  workbook, which follow all other items, stand under the last marker if their sheet
  is an earlier one; `MarkersNamePages` is about the others. Their links and
  file names have the right sheet.
* A picture can cost two calls of up to `max_retries + 1` requests each.

## 6. Not modelled

* The wording of the text: which delimiters a formula gets, the layout of a table, the
  fields of the front matter, the payload of a request to a provider, log redaction, the
  rendering of `/metrics`. They are sequential string building, and the models keep
  what decides between their forms.
* `config.py` (defaults read from the environment once), `cli.py` (arguments, then
  `process_pdf` for one file after the other), `scripts/` and the package entry: no
  state that a second actor sees, and no order that could go wrong.
* The caches of HTTP clients in `vlm.py`: which of two equal clients a caller
  gets makes no difference to it.
* The set-up of docling's pipelines in `PDFConverter`: options handed on.
* Docling itself, `httpx`, `asyncio`, Starlette and the executor, beyond the behaviour the
  code relies on; definitions for these are marked external.

## 7. Plan

All modules of the plan are written and their safety properties proved. What is left:
composition, of `WorkerTask` with `Download`, which may read a directory that is being filled,
and of `ConversionServer` over `ProcessPool` for a server that is shut down while requests
are open, with the refinements that show that the parts keep what they promise there; and
lemmas of liveness that are safety properties (that a step which must come is
enabled, that a measure falls), as far as they can be stated without `ENABLED`.
