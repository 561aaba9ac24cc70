# Verification of the AI Developer Copilot Platform

TLA+ models of the backend of this repository, the TLC runs that check them and
the TLAPS proofs about them. Paths are relative to the repository root;
`backend/app/` is left out where it is obvious.

## 1. Inventory

Most files of the repository are scaffolding for later phases: the domain,
application, agent, schema, repository, webhook and middleware packages hold a
docstring each, the frontend has placeholder views and guards that let every
navigation pass, the tests are empty. The behaviour there is lies in the
infrastructure layer of the backend and in the code that starts it.

| Component | State | Operations | Interacts by |
|---|---|---|---|
| Application lifespan, `main.py` | six module singletons `_state` (db, redis, qdrant, storage, llm, embedding) | `initialize_*`, `dispose_*`, `get_*`, `lifespan()` | uvicorn drives it; handlers obtain clients |
| Database sessions, `infrastructure/db/session.py` | one engine and pool, two session factories | `get_write_session`, `get_read_session`, `check_db_health` | handlers share the pool; PgBouncer and PostgreSQL behind it |
| Health endpoint, `interfaces/api/v1/health.py` | none of its own | `health_check`, `_probe` | probes three services, takes a pooled connection |
| LLM adapter, `infrastructure/llm/llm_adapter.py` | an httpx client | `complete`, `stream` | the provider over HTTP, consumers of the generator |
| Embedding adapter, `infrastructure/llm/embedding_adapter.py` | an httpx client | `embed`, `embed_batch`, `_embed_chunk` | the provider over HTTP |
| Object storage adapter, `infrastructure/storage/object_storage_adapter.py` | a boto3 client | upload, download, delete, exists, ping in worker threads | S3, cancelled callers |
| Task queue, `infrastructure/tasks/celery_app.py` | Celery configuration | routing, late acknowledgement | Redis broker, three worker pools of `docker/docker-compose.yml` |
| Names, `tenant_key`, `collection_name`, `storage_path` | none | build keys from ids | every user of Redis, Qdrant and storage |
| Container start order, `docker/docker-compose.yml` | health of 12 containers | `depends_on` conditions | containers |
| Scaffold generator, `scripts/generate_scaffold.py` | the file tree | `ensure_dirs`, `write`, the `build_*` functions | overwrites the working tree |

What makes each one correct, and hard:

* **Lifespan.** A handler never meets a singleton that is missing, closed or left
  over from an earlier cycle; clients are closed dependents first. Hard: a
  constructor or a close that raises half way, a process that enters its lifespan
  again, closes that await.
* **Sessions.** A session's writes take effect as a whole or not at all, "ok" means
  durable, no session commits another's work, connections always come back. Hard:
  a lost commit acknowledgement, cancellation (which `except Exception` does not
  see), pool exhaustion, connections that died idle.
* **Health.** A report is true of the time it was made in and comes in bounded time.
  Hard: three probes that see different instants, timeouts racing answers, a probe
  that competes with traffic for connections.
* **LLM adapter.** Only transient errors are retried; tokens reach the consumer in
  order and once; connections come back. Hard: retries of a completion that did
  run, streams that end early or carry errors, abandoned generators.
* **Embedding adapter.** Vectors stay aligned with texts across batches and response
  orders. Hard: remainders, batch sizes at the edges, incomplete responses.
* **Object storage adapter.** Calls that are awaited one after the other take effect in
  that order, answers are true of some moment of the call, a failure is not reported as
  absence. Hard: threads that outlive a cancelled caller, requests that boto3 repeats or
  gives up on while they are still under way.
* **Scaffold generator.** A run that completes leaves every generated file whole and the
  package markers of developers alone. Hard: runs that are killed half way and repeated
  over a tree in which developers save files at any moment; there is no record of an earlier
  run, and nothing between a check and the write that follows it.
* **Task queue.** A task that was accepted is forgotten only after it has been executed and
  has a result; it is repeated only where something was lost; a stuck indexing task delays
  nobody else. Hard: processes and containers that die between any two steps, messages that
  the broker restores while they are still being worked on.
* **Names.** No key, collection or path of one tenant is one of another tenant. Hard: parts
  that contain the separator, ids of any length, hyphens that are replaced.
* **Container start order** is not modelled (section 5).

`PROJECT.json` lists every hazard at its line with the properties that cover it.

## 2. Modules

| Module | Models | Checked by |
|---|---|---|
| `Lifespan` | `main.py` and the singletons | `MCLifespan`, proved in `ApplicationProofs` |
| `Transactions` | abstract: what a session promises its caller | implemented by `DbSession` |
| `DbSession` | the session factories over the shared pool | `MCDbSession`, proved in `DbSessionProofs` |
| `HealthCheck` | the health endpoint and its probes | `MCHealthCheck`, proved in `ApplicationProofs` |
| `AtLeastOnce` | abstract: what the task queue promises who dispatches a task | implemented by `TaskQueue` |
| `TaskQueue` | `celery_app.py` and the worker containers | `MCTaskQueue`, proved in `TaskQueueProofs` |
| `Naming` | `tenant_key`, `collection_name`, `storage_path` | `MCNaming`, proved in `NamingProofs` |
| `LLMComplete` | `LLMAdapter.complete()` | `MCLLMComplete`, proved in `LLMAdapterProofs` |
| `LLMStream` | `LLMAdapter.stream()` | `MCLLMStream`, proved in `LLMAdapterProofs` |
| `Embedding` | `EmbeddingAdapter.embed_batch()` | `MCEmbedding`, proved in `EmbeddingProofs` |
| `BlobStore` | abstract: what the storage adapter promises who awaits it | implemented by `ObjectStorage` |
| `ObjectStorage` | `ObjectStorageAdapter` and its threads | `MCObjectStorage`, proved in `ObjectStorageProofs` |
| `Scaffold` | `scripts/generate_scaffold.py` | `MCScaffold`, proved in `ScaffoldProofs` |

Operators whose comment begins "A mutant" are faulty variants of the definition
that follows them; `PROJECT.json` pairs each with the property that must fail when
it takes the definition's place. No specification uses them.

### Lifespan

`phase` is the place of the `lifespan()` coroutine and its server. `pos` is the next
of the calls in program order (`StartOrder`, `StopOrder`). `slot[c]` is what
`_state` of client `c` refers to, named by the lifespan cycle that made it, and
`open` are the client objects not yet closed. `Initialize(c)` overwrites the slot
whatever it holds, as the code does. A dispose call is two steps, before and after its
await (`closing`). Requests are accepted between the `yield` and the stop signal and
hold what `get_<c>()` gave them; uvicorn resumes the shutdown half when the last one
has ended. `held`, `refused` and `aborted` record what the properties speak of.

### DbSession and Transactions

A session is a coroutine with a program counter: `body` (statements, with the checkout of a
connection at the first one), `waiting` for a connection, `commit`, `ack` (the database has
committed, the caller does not know yet), `rollback`, `close`. `Fail` is the `except
Exception` clause, `Cancel` the CancelledError that passes it by; at an await of the
database it makes the driver give the connection up (`Break`) with whatever is on the wire.
The pool follows the engine's arguments: `PoolSize` connections kept, `MaxOverflow` more,
`pool_pre_ping` (`Reuse` connects anew what did not survive), reset on return (`Release`). A
connection may break at any moment (`Disconnect`: the network, PgBouncer, a backend
process), and a crash of the database breaks them all (`broken`); with it goes the open
transaction. A COMMIT on the wire is the exception: the sessions of `late` are those whose
COMMIT nobody waits for any more, and `LateCommit` carries it out, perhaps after the session
has ended, or never. PgBouncer is not a component of its own: to a session it is the server.

`Transactions` keeps per session only its factory, whether it wrote, the effect of its
writes and the report to the caller. The effect is open, asked for (`commit()` was
called), and then committed or aborted for good; it may be settled after the report, and a
caller that was told anything but "ok" after the commit was asked for is in doubt. The
refinement mapping (`Tx` and `Effect` at the end of `DbSession`) takes the effect from the
database's durable set and what may still join it, and the report from the end of the block.

### HealthCheck

A request starts three probes; each has its own timer (`age`). Time passes in ticks,
and what can happen at once happens before the next tick, so "a service that is up"
answers in time and slowness is the state `hung`. `Checkout` makes the database probe
wait for a connection; `Expire` is the cancellation by `wait_for`, after which the
database probe is in `cleanup` until its session has given the connection back, for at
most `Cleanup` ticks. The pool of the Redis client (`max_connections`) does not wait:
when the other users of Redis have exhausted it (`"full"`) the ping raises at once.
`seenUp` and `trouble` record what was the case at some instant of a request; the
connection its own probe holds is no trouble of the database, one that others hold is.

### TaskQueue and AtLeastOnce

A message is in the list of its queue, delivered and unacknowledged, or gone (`place`). A
container reserves what its prefetch limit allows (`reserved`), its processes run one
task each (`proc`); a process whose task has ended has stored the result, and its parent
has still to acknowledge the message (`returned`). `Route`, `Consumes`, `Prefetch` and
`Discovered` are the settings and the `-Q` options of the compose file. `Ack` is
`task_acks_late`, `ChildKilled` is `task_reject_on_worker_lost`, the `"started"` of `Start`
is `task_track_started`. `ContainerDies` takes parent and processes together, and nothing
starts the container again: the worker services have no restart policy. The settings
leave the visibility timeout of the Redis transport at its default, so the broker restores
what is unacknowledged for long: what nobody holds any more (`RestoreLost`), and what
somebody still works on (`RestoreOverrun`). How Celery and the transport behave where no
setting speaks is modelled from their documented behaviour and marked external.

`AtLeastOnce` knows only which tasks were accepted, executed to an end and forgotten, and
that the last needs the one before. `losses` and `overruns` count, per task, what may have
caused a repetition.

### Naming

A string is a sequence of characters; ids are strings over `IdChars`, which contains none
of the characters that follow an id in a name, as is the case for UUIDs. `Join` is
Python's `sep.join(parts)`, a parameter because it is recursive; `MCNaming` defines it, and
`NamingAssumption` states the equations that define it: one part is itself, and several are
the first, the separator and the rest joined. TLC evaluates them for the lists of the run.
The state is the set of names in use, each with the store and the arguments it was built
for.

### LLMComplete, LLMStream, Embedding

`LLMComplete`: `log[k]` is how each attempt of call `k` ended; `ran[k]` the attempts whose
completion the provider ran, some of them after the client had given up (`late`), because it
was on its way when the attempt timed out, was cancelled or was answered by a proxy.
`streaming` counts the connections that calls of `stream()` hold of the same client.
`LLMStream`: the generator reads lines from `wire`; `Skip` is each of the three `continue`s;
a consumer may stop asking while the generator is suspended at its yield; `doneRead` tells
that it has passed over `[DONE]`. `Embedding`: `embed_batch()`, and `embed()` as a call of
it with one text; text `j` and its vector are the number `j`; a response is any order of the
batch's items; `SortedVectors` is the stable sort by index.

### ObjectStorage and BlobStore

One key, because no request touches two. A call is a coroutine (`task`) and the work it
handed to the default executor (`work`, begun in the order of `queue`). `Deliver` gives
the caller the end of its thread; `Cancel` leaves a thread that has begun to itself.
boto3 repeats a request whose reply it did not get: `Serve` may happen several times for
one call, and only the last reply counts. A write boto3 has given up on (`GiveUp`) may
still be executed, during the call or long after it (`ServeLate`); the model does not
count such requests. `BlobStore` promises, to those who await, that a call acts only
between its invocation and its answer and that the answer is true of what it met there;
abandoned calls, and calls with a request astray, may go on acting. The three ordering
properties carry that exception (`astray`): without it they do not hold of this code.

### Scaffold

Each step of `main()` stands for the files it writes, of which one is kept: the files of
a step are written by the same code, one after the other, and never read. Most of the lines
the `build_*` functions stand for are the text of those files, which the model leaves out.
`open()` in mode "w" empties a file (`OpenFile`), closing it completes it (`CloseFile`), and
a run may be killed in between. `MakePackages` skips an `__init__.py` that exists, `CopyDocs`
a document that is not in the folder it is copied from, `write` nothing; the check and the
opening are two steps (`Check`, `OpenChecked`), between which a file may be saved or a source
removed, which makes `copy2()` raise. Developers save files, and downloads appear and
disappear, at any time, also while the generator has the file open: then the saved text, the
generated one or a mixture stays (`Closed`). `raced` is a history variable: what was saved
between the check or opening and the closing of the present run. That a write fails (a full
disk) is left out.

## 3. Runs

| Run | Question | Bounds |
|---|---|---|
| `lifespan` | what requests may rely on, what leaks, does a shutdown end | 2 requests, 2 cycles: a cycle that inherits the slots of an aborted one |
| `session_contention` | exclusive, bounded, uncontaminated connections | 3 sessions, 1 + 1 connections that break at any time: a waiter, a discarded connection and one that died idle; symmetry |
| `session_crash` | failed work, stale connections, refinement, liveness | 2 sessions, 1 connection that breaks at any time, 1 crash and recovery at every point |
| `health` | truth and latency of a report, is it given | 1 request, 3 changes of the services, 1 connection that other handlers take too, timeout 2, cleanup 1 |
| `task_queue` | repetition, overlap, loss; do the queues hold each other up | 3 tasks, one of them an indexing task that never ends; 2 pools, one of 2 containers; 1 process killed, 1 container dead, 1 visibility timeout outlived |
| `naming` | can two tenants meet | 2 names in use, 5 ids of one and two characters, up to 2 parts with and without separators |
| `complete` | what is retried and run twice | 2 calls over 1 connection, which streams take too, 2 attempts |
| `stream` | order, completeness, connection | 3 tokens, 2 other lines, 2 lines under way |
| `embedding` | alignment, each text sent once | up to 7 texts, batch sizes -1 to 3, both methods |
| `embedding_one_per_text` | one vector per text (not with a negative batch size, nor if the provider leaves one out) | up to 3 texts, batch sizes -1 and 1 to 3 |
| `storage` | real-time order, refinement | 3 calls on a key, 2 threads, 2 attempts: a read after a write after a write; symmetry |
| `scaffold` | what a later run repairs and keeps | 2 killed runs, 2 edits or downloads: a killed run after a killed run, an edit that is saved under a run's hands and one that is not |

Every bound is the smallest at which the case named happens. None of the guards
compares against a larger count than these reach: order and alignment need a first, a
middle and a last element, contention one actor more than there are resources. The
theorems of section 4 remove the bounds for the safety properties.
`MaxCycles`, `MaxCrashes`, `MaxFlips`, `MaxNoise`, `MaxWire`, `MaxTexts`, `MaxAttempts`
of `ObjectStorage`, `MaxKills`, `MaxEdits`, `MaxDeaths`, `MaxOverruns` and `MaxUses` are
bounds of the models, the other
constants are parameters of the code. `CHECK_DEADLOCK` is off in all but `scaffold`:
every one of the other systems stops when its finite work is done. Symmetry is used in
runs of safety properties only. The type invariants are theorems (section 4).

One run is expected to be violated, because the code does not do what its own
documentation says: `embedding_one_per_text`. `embed_batch()` promises one vector per
text and in two ways returns fewer, without an error.

* With a negative `embedding_batch_size`, which the settings accept, it sends nothing and
  returns no vectors; this is the counterexample of the run. (`embed()` raises an
  `IndexError` there.) `EachTextSentOnce` of the run `embedding` says what holds instead:
  nothing is sent.
* A response that leaves an item out is accepted and shifts the later vectors to other
  texts; this is the counterexample when -1 is left out of the batch sizes.

What else was met while modelling, and the models show, without a run of its own:

* `max_retries` of `LLMAdapter` counts attempts, the first one included; its docstring and
  the error message call them retries. For 0, which the settings accept, no request is
  sent (`More` and `Exhausted` of `LLMComplete`). A property on the count would restate
  that one test.
* The docstring of `stream()` promises an `LLMError` on API errors. An error object in a
  stream that began with status 200 has no `choices` and is skipped as a damaged chunk
  (`Skip`), and a stream that is cut short ends like a complete one, for nothing asks
  whether `[DONE]` was read (`Return`). A null `delta` or `choices` raises out of the
  generator, no `LLMError`. Nor is an error object under status 200 one in `complete()`,
  where a null content becomes the string `None`.
* "all infrastructure clients disposed" is logged with storage still in its slot; a close
  that raises leaves the remaining clients open.
* A write session raises over a commit that took effect when the acknowledgement is lost
  (`Transactions` allows it, callers must know it).
* A reachable database is reported as an error when handlers hold the pool.
* A file saved between a check of the generator and its opening is overwritten.
* A task that outlives the visibility timeout is executed by two processes at once, and the
  second run may leave the result at "started" for good.
* Keys of different numbers of parts, or with a separator in a part that is not the last,
  may be one key of the same tenant.

### Fairness

* `Lifespan`: the coroutine's own calls return or raise, and handlers end. Nothing
  makes the server start, accept or stop.
* `DbSession`: the next step of an open session happens (its awaits return, raise or
  reach the pool timeout; its body ends). The database need not recover.
* `HealthCheck`: the event loop runs what is ready, and time passes even while other
  handlers keep taking and returning connections (strong fairness of `Tick`); this is
  what the loop's clock gives the timers of `wait_for`.
* `TaskQueue`: workers take what they may and run it, tasks end unless they are among
  `Hanging`, and what a dead container held becomes visible again (weak fairness of
  `Deliver` by some worker, `Start`, `End` and `RestoreLost`). Nothing is killed, lost or
  published because it must be. Only tasks of the indexing queue may hang.
* `LLMStream`: the coroutine runs on, at the latest when the httpx timeout expires. The
  provider owes nothing. The consumer of a stream goes on or stops, and the event loop
  finalizes an abandoned generator. The bound `MaxNoise` hides one thing from
  `ConnectionReturned`: a provider that sends comment lines for ever keeps the generator
  reading, because the read timeout is per read.

The other specifications have no liveness property and no fairness: that
`LLMAdapter.complete()` and `embed_batch()` end follows from bounded loops over requests
with a timeout, and boto3 bounds its own attempts.

## 4. Proofs

Every safety property of the passing runs, and each of the three refinements, is a theorem
for all values of the constants. Two proof modules extend two specifications each:
`ApplicationProofs` those of the process, `HealthCheck` and `Lifespan`, and
`LLMAdapterProofs` those of one class, `LLMStream` and `LLMComplete`. That is why the
specifications of `Lifespan` and `LLMComplete` are called `LifespanSpec` and
`CompleteSpec`.

**`Lifespan`** (in `ApplicationProofs`): for every set of requests and every number of cycles,
the three safety invariants of the run `lifespan` hold, and the state is well typed.
The assumption is `CyclesAssumption` (`MaxCycles \in Nat`).

None of the invariants but the type is inductive alone: that a request holds live
clients depends on how far `lifespan()` has come. `LifespanInv` adds, phase by phase, which
slots hold an open client of the current cycle (`StartingInv`, `ServingInv`,
`StoppingInv`), that no handle is of a later cycle (`CycleInv`), and that requests run
and hold clients only while serving or draining (`RequestInv`). `DependenciesOutlive`
across a close rests on `StopReversesStart`: of two clients that are disposed of, the
one started first is disposed of last. That lemma compares the two call lists of
`main.py`; swapping two calls in either would break it.

**`DbSessionProofs`** proves, for any sessions and connections, any pool and any number of
crashes and broken connections, every safety property of the two session runs, type
correctness, and that `DbSession` implements `Transactions`. The assumptions are those of
`PoolAssumption`: a pool with a limit, finitely many connections, and `NoConn` is none.

The lemma `Steps` sorts the steps into checkouts, returns (`Returns`), steps of a session
that leave its connection alone (`Stays`), cancellations, and those of the database and the
network. `ReleaseFrees` says what a return does: the connection is nobody's, and no other one
is touched; `BreakLoses` and `CancelBreaks`, what a break does. `Inv` adds to the properties
what makes them inductive: which program counters go with which answer, factory and
connection (`ProgressInv`); where the writes of a session are, in the transaction of its
connection, on a wire nobody listens to, in the database or lost (`WorkInv`); and that a
broken connection is held only by a session that was there when it broke (`BreakInv`), which
is where `pool_pre_ping` is needed. `PoolBounds` is inductive given the types and
`ConnectionsExclusive`. In the refinement, `LeaveBody` of a write session asks for the
commit; `ServerCommits` and `LateCommit` are `Commit` if the session wrote anything; a
session that fails, and each one whose commit a crash settles, is aborted (`Settles`); and
`Close` is `End`, whose "ok" needs that the writes are durable by then.

**`LLMComplete`** (in `LLMAdapterProofs`): for any calls, any `max_retries` (0 included)
and any pool, the properties of the run `complete` and type correctness, from
`CompleteAssumption` (finitely many calls, a pool that is not empty). `Ends` is what the
ways an attempt ends have in common: the log grows by one entry, and the request may stay
under way. `LoopInv` says that the log of a call that goes on is transient throughout;
`SentInv`, that an attempt which ran or may still run late is either the one under way or
has its entry in the log, and that this entry is a timeout or a broken connection unless
it ended the call. A pool timeout is the case to look at: it is retried like the others,
but its attempt was never sent, so it can never run.

**`TaskQueueProofs`** proves, for any finite set of tasks and processes, any containers
and any number of kills, deaths and timeouts, every safety property of the run
`task_queue` and the refinement of `AtLeastOnce`, from `QueueAssumption`. Everything rests
on who holds a message (`HolderInv`): while no run of a task has outlived the visibility
timeout, its message has at most one holder, and none unless it is unacknowledged.
`DeliveryInv` says not only that deliveries are within their causes but that a message
which is yet to be delivered, or is restored without a holder, has its next cause already:
without this the count is not inductive. `ResultInv` says that a process about to
acknowledge has stored a result. `OneTaskPerProcess` is inductive given the types; it is
where the prefetch limit of one per process is needed. In the refinement `Publish` is
`Accept`, `Return` is `Execute`, and `Ack` is `Settle` or a stutter.

**`NamingProofs`** proves `NamespacesApart` and `PartsApart` for any ids without separators,
any parts and any number of names in use, from `NamingAssumption`. `Built` (every name in
use is what a helper returns) is invariant; the rest is about sequences: two names are
equal, so the first separator after the prefix is at one place in both, so the ids before it
are equal (`FirstSeparator`). A collection name has no such character in front of the
repository: there the infix `_repo_` is told from the id by its letter `r`, which no
hexadecimal id contains. `PartsApart` needs that `Join` is one-to-one on lists of equally
many parts (`JoinInjective`). That is an induction on the number of parts; it is done by
looking at the smallest number for which two lists differ (`SmallestIn`, from the
well-foundedness of the natural numbers): the first parts end at the same separator, so they
are equal, and the rest would be a smaller case.

**`HealthCheck`** (in `ApplicationProofs`): the three safety properties of the run `health`
and type correctness, for any finite set of requests, any pool, any timeout, from
`HealthAssumption`. `ProbeInv` gives each probe its own clock: a probe under way is as old
as its request (`Timely`), and a probe that has survived a tick has been seen in trouble
(`Witnessed`), because whatever could have answered would have done so before the tick. So a
timeout is evidence. Where a probe cannot have a connection, others hold them all: its own
is not counted.

**`LLMStream`** (in `LLMAdapterProofs`): `TokensInOrder`, `DoneIsComplete` and type
correctness for a stream of any length, from `StreamAssumption`. `OrderInv` orders what was
yielded before what is on the wire; `AccountInv` says where each token is that was sent:
damaged, yielded or on the wire; `DoneInv`, that nothing follows `[DONE]`.

**`ScaffoldProofs`** proves the three properties of the run `scaffold` and type
correctness for any number of kills and edits, from `ScaffoldAssumption`. `WritingInv` says
that a file which is being opened was found absent, and one that is being written was
emptied, unless it was saved since; `DoneInv`, that the files of the steps before the
present one are whole or were saved under the hands of this run. `OneFilePerKill` is not
inductive, because the file that is open may be whole again by a save: `DamageInv` counts
the cut files that nobody has open (`Left`), to which only a kill adds.

**`EmbeddingProofs`** proves the three properties of the run `embedding` for any number of
texts, any batch sizes and responses in any order, from `EmbeddingAssumption`; for
`VectorsAligned` the responses must be `Faithful`, as in the run (the run
`embedding_one_per_text` shows what happens otherwise). The sort is reasoned about by
counting, without induction: the rank of an item is the number of items up to it;
different items have different ranks; and a one-to-one map of a finite set into itself
reaches all of it (`RanksOnto`). So sorting keeps the number of the vectors and whose they
are (`SortedPermutes`), and where a response is complete its items are those of an
interval of texts, so that the rank of text `j` is `j - i` (`FaithfulSorted`). `Progress`
relates the loop variable to the program counter, `SentInv` says exactly which texts have
been sent, in calls that fail too, `DataInv` that the response at hand is one to the
present batch, and `AllInv` that the vectors gathered are those of the first `i` texts, or
of all of them after the last batch.

**`ObjectStorageProofs`** proves the five properties of the run `storage`, the refinement of
`BlobStore` among them, for any calls, threads and attempts, from `StorageAssumption` (calls
are told from results: no call is named "ok"). `Basic` says what the stage of a call means:
work that has not begun is in the executor's queue once (`QueuedOnce`), a thread that is over
has a result that is true of what the call has met (`Stages`, `True`), and calls that were
answered before stay answered. That is all the refinement needs: in `BlobStep` the steps of
the executor stutter, `Serve` is an act of an open or of an abandoned call, and `Deliver`
is an answer. The ordering properties relate two calls and are not inductive alone:
`Overwritten` speaks of writes the storage has executed and not only of answered ones,
`ReadsNotStale` of contents a download has met and not only of what it returned, and
`UploadLost` and `AbsenceMet` trace content that is missing to a delete that was not
answered before the upload was made, or has a request astray. `Stable` and `Gains` say what
a step can do to the history of a call, and stand for the actions in those proofs.

Model-checked only: the five liveness properties (`ShutdownEnds`, `SessionsEnd`,
`AlwaysAnswers`, `ConnectionReturned` and `IndexingDelaysNobody`). Liveness under fairness,
and ENABLED, are out of reach of the prover.

## 5. Not modelled

Network timing other than as timeouts; the contents of messages and prompts; logging;
event loop starvation; PgBouncer's own limits; authentication (not implemented). The
packages of stubs, the frontend, CI and infrastructure files have no behaviour to
model.

Of the storage adapter: a missing bucket, over which `object_exists()` answers "no" for
every key. The bucket is taken to exist while calls run; no operation of the adapter creates
or deletes one.

Of the task queue: the expiry of results after a day, warm shutdown, the loss of the broker
or of its data, the empty beat schedule, task bodies (none exists). A task that kills its
process every time is requeued every time; the model bounds the kills, and promises
nothing for a task that never survives. Names of tasks outside the five modules, which
would go to a queue nobody consumes, do not occur yet.

Container start order: the `depends_on` conditions are declarative, and the initialize
calls of the backend do not connect to anything, so no code relies on the order. Settings
are a cached record; the values that matter are constants of the modules above.

## 6. Plan

Done: all modules of section 2, with their runs; every safety property of a run and every
refinement, with its proof.

Next, in this order:

1. Composition: `HealthCheck` over the pool of `DbSession`, whose sessions it now sees as
   a count of busy connections; requests of `Lifespan` over both.
2. Lemmas that would let the liveness arguments be read beside the runs: which step is
   enabled in which program counter, and a variant that it decreases.
3. Task bodies, once there are any: `DuplicatesExplained` says how often each must stand
   being repeated, `OverlapsExplained` when it must stand running twice at once.
