# Zenproxyrs: specifications, checks and proofs

The repository holds two Rust crates. `zen-proxy-rs` is a reverse proxy that
speaks the OpenAI and Anthropic protocols to its clients and sends each request
upstream through one of many SOCKS nodes. `free-model-client-rs` is the protocol
kernel embedded in it: it prepares a request for the upstream, reads the answer
and turns it into what the client expects. This directory holds TLA+ models of
both, the TLC runs that check them and the theorems TLAPS proves about them.

## 1. Inventory

Proxy, under `src/zen-proxy-rs/src/`:

| Part | State | Operations | What makes it correct | Modules |
|---|---|---|---|---|
| Node pool: `pool/manager.rs`, `dead.rs`, `ratelimited.rs`, `node_registry.rs` | three sub-pools, statistics, registry, fuse; a lock per map | dispatch, report, probes, fuse and unfuse, add, remove, recover | a report gives its lease back once; a node is never lost between pools | `ProxyPool` |
| Node admission: `pool/dispatch.rs` | per node: leases, AIMD limit, window budget, cooldown, queue of admitted metadata | sample, scan, best-of-all, sticky; admit, roll back, release | leases and charges match the requests that hold them | `NodeAdmission` |
| Shared budget: `pool/global_budget.rs` | in Redis: expiring leases, window counters, cooldown; in memory: the instance's lease ids | acquire script, release script | the limit holds over all instances; no outage locks a node out | `GlobalBudget` |
| Session pins: `pool/session_pin.rs` | Redis, and a map in each instance's memory | lookup, record, clear | a cleared pin is not found again | `SessionPins` |
| Lanes: `lanes.rs`, `proxy.rs` | a counter per lane | classify, poll, attach, drop | the counter is the number of live permits | `Lanes` |
| Request retry: `v4/provider.rs` | attempt, budget, exclusions, pin, the node's lease | call_with_retry | every lease is reported once; limits, exclusions and permissions hold through every fallback; the request ends | `RequestRetry` |
| Delivery: `v4/provider.rs`, `proxy.rs` | per answer: what was sent, what is owed to pool and collector | the metered stream, the straight way | each answer is reported and recorded once, with its own outcome as far as the code knows it then | `Delivery` |
| Collector: `collector/*` | bounded queue, worker, counters, ring, rolling windows | record, drop, write, open a window | a record is counted once, wherever it went | `Collector` |
| Legacy relay: `proxy.rs`, `sse.rs` | the line under way | push a chunk, relay lines | a line is relayed whole | `LegacyStream` |
| Model discovery: `v4/model_discovery.rs`, `v4/model_probe*.rs` | a record per model behind one lock; probe runs; the worker's round | refresh, probe, record traffic, promote, demote, quarantine | exposure is earned; flags follow the state; candidates get their turn; dead models leave | `ModelDiscovery`, `ProbeAnswer` |
| Names and live probe: `v4/model.rs`, `live_probe.rs`, `main.rs` | verdicts, running batches | resolve, list, probe | the list follows the probes in the end | `LiveProbe` |
| Context, guard, repair: `v4/context.rs`, `protocol_guard.rs`, `request_repair.rs` | none: functions of a request | trim, cut, refuse; count, repair, refuse; name | what goes upstream is paired; names differ | `ContextGovernor`, `ProtocolGuard`, `ToolRepair`, `Conversation` |
| Administration, background loops | of the parts they act on | pool and model calls, recovery and discovery loops | | in `ProxyPool`, `ModelDiscovery`, `LiveProbe` |
| Active pool: `pool/active.rs` | requests per node | count | only the statistics read it | not modelled |
| Transport, ledger, configuration, providers, export | caches, sums, files | read, render, load | I/O and formatting | not modelled |

Kernel, under `src/free-model-client-rs/src/`:

| Part | State | Operations | What makes it correct | Modules |
|---|---|---|---|---|
| Translation: `protocol/translate.rs` | none | translate, shorten, fold, collapse, canonicalize the tool history | every call answered, no answer without its call | `KernelHistory`, `KernelRequest` |
| Upstream client: `zen/client.rs` | parser's buffer | read frames from chunks, collect an answer | both readers find the same events however the bytes are cut | `UpstreamReader` |
| Markup guard: `proxy/dsml_guard.rs`, `dsml_repair.rs`, `unfinished_intent.rs` | text held back | push, flush, detect, repair | markup and bare announcements do not reach the client | `StreamText` |
| Anthropic streaming: `proxy/anthropic.rs` | per stream: open blocks and their indices, text, calls, attempt, events yielded | a handler per upstream event, retries, the end | one message from one attempt, its blocks numbered | `AnthropicStream`, `KernelState` |
| OpenAI streaming: `proxy/openai.rs` | likewise | likewise | likewise | `OpenAiStream` |
| Collected answers: both | the attempts' collected parts | collect, judge, retry, respond | likewise | `CollectedAnswer` |

How they interact. `proxy_handler` takes a permit of a lane and hands the
request to `handle_v4_proxy` or, for what the kernel does not speak, to
`proxy_with_retry`. `handle_v4_proxy` repairs, guards and governs the body and
calls `call_with_retry`, which asks the pool manager for a node; the manager asks
the dispatch pool, which admits the request on a node locally and then in Redis.
The upstream call is the kernel: it prepares the history, reads the upstream's
events and yields the client's. The outcome is reported to the manager and
handed to the collector by `call_with_retry`, or for a stream by a metered task
of its own. A report moves the node between the pools; spawned probes, two
background loops and the administrator move it back. Discovery decides which
models there are, the live probe which of them are listed. No lock spans two of
these structures, and most of what can go wrong lies between two of their calls.

Hard behaviours: reports, probes and sweeps that interleave on one node; check
and act in two steps (lease count and budget, local and shared budget, fuse and
recovery); permits and leases whose owner is dropped at an await; expiry, lost
replies and crashes around Redis; retries that change the target, the exclusions
and the budget; text that is held back and attempts that are given up while the
client already has events; bytes and batches that arrive cut and out of order.
`PROJECT.json` lists each hazard with its line and the properties about it.

## 2. Modules

**Proxy**

* **`Permits`** is the abstract limiter: at most `Limit` permits are out; one may
  be given back or lapse at any step. `Lanes` and `GlobalBudget` implement it.
* **`ProxyPool`** has a variable for each sub-pool, the registry and the fuse, a
  program counter per request and a record per probe task. Each step is what one
  lock protects; `report`'s error path, for instance, is `ReportError` (release),
  `ReportWithdraws` (dispatch.remove) and `ReportBuries` (dead.add and bury), and
  `recover_node` is `RecoverNode` (dead.recover), `RecoverUnlimits`
  (ratelimited.recover) and then `RecoverFused` or `RecoverRejoins` and
  `RecoverCredits`. `try_admit` is two steps: `Load` compares the lease count with
  the limit before it waits for the budget's lock, `Admit` raises the count later,
  and in between the shard's read lock keeps `dispatch.add`, `remove` and `release`
  out (`ShardFree`). A scan that finds no node calls `try_admit` on every node of
  the shard and drops the answer: `Load` with `"diagnosing"`, then `Diagnose`, takes
  a lease for nobody. Which nodes a budget admits is free here, and `NodeAdmission`'s
  matter. The history variables: `leaked` counts the leases that diagnostics took,
  `crowd` the most admissions that had loaded a node's count at one time, `stolen`
  has the nodes whose count something other than a report lowered, `excused` those on
  which two operations overlapped or that were recovered under an open fuse.
* **`NodeAdmission`** follows one node through the four ways of trying it, the
  load of the lease count before the budget's lock, the answer of the shared
  budget and the two-step rollback. `late` is how old the clock is that an
  admission carries with it. Other nodes are the freedom to pass this one over.
* **`GlobalBudget`** has the Redis keys with their times to live, the lease ids
  each instance remembers and the requests in flight. A script is one step. Steps
  for an outage, an answer that is lost after the script ran, a crash of an
  instance and the passing of time are separate. Clocks differ by `Skew`.
* **`SessionPins`** has the pin in Redis and in each instance's memory, and tasks
  that look it up, record and clear it, each in two steps between which Redis may
  come or go.
* **`Lanes`** has each lane's counter and each task's loop variables; load,
  compare-exchange and sleep are separate steps.
* **`RequestRetry`** follows one request through all of its attempts. Nodes that
  happen to be free are chosen anew at each dispatch; how a call ends and what it
  takes are free, and what a failure is taken for follows `classify_app_error` and
  the status tables. `balance` counts leases taken less reports made, per node.
* **`Collector`** and **`Delivery`**. `Delivery` extends the collector with the
  tasks that deliver an answer: through the kernel, whose retries are one step
  here, or straight. A kernel's stream passes a channel that the client empties
  or gives up. On the straight way an answer that was to be a stream and is no
  `text/event-stream` is read in full before it goes out (`"whole"`): the read may be
  abandoned, or fail, which gives a 502 that is recorded as such (`WholeBreaks`)
  although the pool was told of a success; a plain answer's body (`"body"`) that
  fails is no record at all. `owed` and `told` are history variables: the record a
  task owes and what it told the pool.
* **`ModelDiscovery`** has a record per model, the worker's round, a program
  counter per probe run and the pending promotions. Each step is one stay under
  the registry's lock: a refresh copies and merges (`Refresh`) and stores later
  (`Store`); the engine looks (`Ensure`), records (`Start`, `RecordPass`,
  `RecordFailure`), decides on the record that call returned, and sets the state
  in a further step (`Set`). `older` is the order of `last_probe_unix`. `earned`,
  `promoted`, `proven` and `demoted` are history variables: what a model has ever
  passed, met or been given. **`ProbeAnswer`** says how a probe's answer is judged.
* **`LiveProbe`** resolves names through the static tables, the aliases and the
  discovered models, and lets overlapping batches of probes set the verdicts.
* **`LegacyStream`** relays a byte stream that is cut into chunks, line by line.
* **`ContextGovernor`**, **`ProtocolGuard`** and **`ToolRepair`** are operators on
  requests, over the messages of **`Conversation`**: sequences of parts with the
  id a call or result carries and, beside it, what it is really about.

**Kernel**

* **`UpstreamReader`** cuts a stream of frames into chunks anywhere and lets the
  streaming and the collecting reader read it side by side.
* **`KernelHistory`** holds the operators that rewrite a history,
  **`KernelRequest`** the steps from the client's request to the body that goes
  upstream: guard, govern, guard again, translate, shorten, anchor, canonicalize,
  dispatch.
* **`KernelState`** has the state that one request shares with its handler: `req`,
  `stage`, `prep` (the conversation under preparation), `gen` (the generator's
  locals between two awaits) and `wire` (what the client has received). Events the
  generator yielded wait in `gen.out` and are delivered one by one; a client may
  hang up between any two. Blocks are named by their indices, as in the code:
  `next` is `emitted_tool_call_blocks`, which a thinking block and a call count when
  they open and a text block only when it closes, and `textAt` and `thinkAt` are the
  indices the open blocks were given. **`StreamText`** says what the guard makes of a
  text, which is a set of pieces: a kind, and the attempt it came with.
* **`AnthropicStream`**, **`OpenAiStream`** and **`CollectedAnswer`** are the three
  handlers, an action for each kind of upstream event, failure and ending. A probe of
  the model's vendor is answered on the spot when there is nothing to forward
  (`MimoProbe`); the same answer to reasoning alone (`anthropic.rs:707`) cannot come
  about: reasoning alone is shown as text, unless it leaks, which is found before.
* **`Kernel`** composes them: one request through the proxy's guards and the
  kernel to the end of its answer.
* **`MessageStream`** is the abstract specification of an answer: the message
  starts once, blocks open, grow and close, calls come last, it ends once, and no
  call comes from an attempt before one the client has text of. Blocks are numbered
  from 0 without a gap, and no number is used twice, with the one exception that the
  code makes and `Reused` states: the last number, while a text block of it is open,
  may be used again, by reasoning or text that opens or by a repaired call. What is
  grown or closed is open, and a number that is closed never comes back. `Kernel`
  implements it, number for number, projecting texts to attempts (`FollowsMessage`).

`MC<module>` gives the constants their values for TLC, `<module>_proofs` holds
the theorems. **`Parts`** (`ProxyPool`, `Delivery` with its collector,
`SessionPins`, `UpstreamReader`, `LegacyStream`) and **`FrontEnd`** (`Lanes`,
`LiveProbe`) are disjoint sums: their parts share no state, and a behaviour moves one of them, chosen at
its start. A definition marked
"Mutant of" is a deliberately wrong variant of the one it names; nothing uses it.
It serves to show that the property `PROJECT.json` names with it would notice such
a slip.

What is abstracted on purpose: node scores and latency averages (any admissible
node may be chosen); texts, which are pieces of a few kinds; sizes, which are
small numbers; usage figures, ids, headers and the wording of errors and of
synthesised texts; connections and timeouts below the level of an attempt that
fails or stalls. Of the three window counters one is kept in the runs, since all
three are used alike. The kernel's switch `true_first_token_frt` is on, its
default.

## 3. Runs

| Run | Bounds | What it shows |
|---|---|---|
| `MCParts` | pool: 1 node, 2 requests, 1 probe task, 2 administrator calls, limit 1, 1 lease taken by diagnostics. Delivery: 2 tasks, queue, ring and channel of 1, 2 windows, 1 turn of the clock, 1 notice, 1 retry. Pins: 3 tasks on 2 instances, 2 nodes. Readers: 2 frames of several bodies, LF and CRLF, all cuts. Relay: 3 events, chunks that end at line ends | `LeasesCovered`: no path but the diagnostics of a refused scan leaks capacity. `CapacityHonoured`: where no count was disturbed, the limit is passed by fewer requests than had loaded the count at one time. `KeptInSomePool`: no operation alone loses the node. `AnswersAccounted`: each answer is recorded once, also past a full queue, and as what the pool was told, but for a stream that broke on a rate limit and a body that could not be read. `PinGone`: a clear that reached Redis leaves no pin there nor on its instance. `ChunksImmaterial`: events and verdicts do not depend on where the bytes are cut |
| `MCProxyPoolLost` | the same pool, 2 probe tasks | violated: `RecoveryReturnsNode` |
| `MCNodeAdmission` | 2 tasks, window of 4 calls, limits 1 to 2, cooldown 2 s, clocks late by at most 1 s | leases have owners, charges and overshoot are bounded, the queue of metadata follows the requests, cooldowns end |
| `MCNodeAdmissionWindow` | the same | violated: `WindowReopens` |
| `MCGlobalBudget` | 2 instances, 3 requests, limit 2, 2 calls a window, leases of 2 ticks, one clock 1 tick ahead, fail-open | the counted leases implement `Permits`; requests in flight are backed; orphaned capacity has a cause; grants go on |
| `MCFrontEnd` | lanes: 3 requests, lanes of 1 and 2 slots, 2 polls. List: threshold 2, 2 batches at a time | counters are exact, lanes implement `Permits`, every arrival is answered; the list follows the probes in the end |
| `MCRequestRetry` | 3 nodes, 7 request classes, 3 empty and 2 other retries, budget 24 s, delays of 0 and 12 s | leases settle, the budget is kept, exclusions, direct permission and pins survive every fallback, the request ends |
| `MCRequestRetryBudget` | the same, with a clock | violated: `AttemptsEndInBudget` |
| `MCModelDiscovery` | 2 models, the worker and 1 operator's run, 2 required probes, quorum and threshold 2, 1 candidate a round, 2 interventions | flags follow the state, exposure is earned, candidates get their turn, models that pass no probe leave the list |
| `MCModelDiscoveryDemotion` | the same | violated: `DemotionHolds` |
| `MCKernel` | 2 attempts of 2 events each; histories of an instruction and up to 4 (chat) or 3 (messages) further messages in any order, and some long ones | `HistorySent`: what goes upstream is paired. `OneAttempt`, `WholeCalls`, `MarkupWithheld`, `AnnouncementNotFinal`, `FollowsMessage`: what the client receives is one message of one attempt, with whole calls and without markup, whose blocks share no index but that of an open text block. `AnswerEnds`: it ends |
| `MCLegacyStream` | 2 events, chunks that end anywhere | violated: `SplitLinesWhole` |

`MCKernel` also evaluates `ToolsAreNamedApart`, an assumption about `ToolRepair`
over all small lists of tools: the repair names every tool, and differently.

Why the bounds are enough. In `ProxyPool` no step relates two nodes, so one node
with two requests, a probe and two calls of the administrator, one after the other,
shows each pair of operations of different actors overlapping on it, and each with a
third; two probes of one node excuse it. Two requests at a limit of 1 are enough to
pass it, and a request that takes a lease in diagnostics may go on to be refused or
admitted. What the runs cannot show, more of any of them, the theorems do. `MCParts`
exchanges the two requests and the two tasks of `Delivery` at once (`MCExchange`):
a behaviour moves the ones or the others, and nothing names them. Two tasks are
the least at which admissions race, and the overshoot grows by one per task; two answers
are the least of which one is in the queue while the other finds it full. Three
tasks let a pin be recorded, looked up and cleared at once, on two instances
whose memories differ. In `GlobalBudget` one instance has two requests, so that
it may give back the wrong lease, and the other a slower clock. Three requests
let one overtake another while the third holds a slot. Three nodes let a request
be excluded from two and still have a choice. In `ModelDiscovery` the second
model passes no probe and is always listed: it competes for the one candidate
slot, while the first meets every list, answer, run and administrator. In the
kernel, what an attempt leaves behind only matters for the next one, and two
events are enough for text to be held back and then released, dropped or turned
into a call; four messages after the instruction hold a call, its results in
either order, an intruder between them and a second turn, and the long histories
pass the thresholds of the governor, of both shortening policies and of folding.
`MaxInterventions`, `MaxOps`, `MaxLeaks`, `MaxWithdrawn`, `MaxSpent`, `MaxLate`, `MaxChunks`,
`MaxFrames`, `MaxEvents`, `Batches`, `Clock` and `Notices` bound what nothing in
the code bounds.

Deadlock checking is off where the system may stop: in `MCParts` and
`MCProxyPoolLost` the administrator's calls run out, streams end and abandoned
requests hold their leases; in `MCRequestRetry`, `MCRequestRetryBudget`,
`MCKernel` and `MCLegacyStream` the one request or stream ends.

Fairness. `NodeAdmission`: admission code runs on; a release gets the shard's
write lock in the end, since a waiting writer keeps new readers out (strong
fairness); time passes. `GlobalBudget`: time passes, windows turn, requests end,
and Redis does not fail for ever whenever it could grant. `Lanes`: a task in its
loop is scheduled, and a compare-exchange that can succeed again and again does.
`LiveProbe`: the timer goes on, and a batch ends because each of its probes has a
timeout. `RequestRetry`: every await of the handler ends, calls by their deadline
or the HTTP client's timeouts. `ModelDiscovery`: the worker and each run's
blocking task are scheduled, a probe answers or times out, and the list can be
downloaded now and then. `Kernel`: while the request is busy its handler takes
steps, which is weak fairness of `Work` written out: every wait for the upstream
ends by a timeout. No fairness is assumed of clients, crashes, administrators or
the pool's probes; a client that never reads its answer leaves the generator
waiting, and `AnswerEnds` is about the generator.

### What the code does differently from what it says

* `RecoveryReturnsNode`. `main.rs` starts workers for "periodic ratelimited-pool
  recovery" and "Dead-pool recovery". A node recovered while the fuse is open, or
  by a probe that was spawned while it was, leaves both pools and joins none;
  `unfuse_all` restores dead nodes only. It stays registered and idle.
* `WindowReopens`. `calls_in_window` and its siblings are never reset. A node
  that has spent `max_calls_per_window` refuses for the life of the process.
* `AttemptsEndInBudget`. The precheck is clamped so that "a single attempt cannot
  overrun the retry budget", but its time is never charged, so several attempts
  overrun it together.
* `DemotionHolds`. A demotion says "probe required before exposure". A refresh
  that copied the registry before it, or an availability check that began before
  it, stores or sets the published state again; no probe was started since.
* `SplitLinesWhole`. A test is named "handles_chunk_split_inside_json", but asks
  only for text of the second half. `SseBuffer` keeps the line under way in a
  local of the call: what a chunk held of a line is lost when the chunk ends.

### Met while modelling, and in the models

No document of the repository promises the contrary of these, so no run states
them as violations; the properties are stated around them.

Pool and admission:

* Admissions that load the lease count at one time compare the same number with the
  limit, so all but one of them may pass it. The diagnostics of a refused scan may
  take a lease, when the node was freed meanwhile, that nobody gives back until the
  node leaves the dispatch pool. `CapacityHonoured` and `LeasesCovered` say how far
  each goes.
* A recovery credits a node by releasing a lease nobody gives back; a removed and
  re-added node is released by reports of its former life.
* A client that goes away during an await of `call_with_retry` leaves its lease
  behind and no record; an unreadable body is never reported; a locally answered
  probe is reported twice.
* A request admitted without a Redis lease gives back another's.
* After an outage of Redis a pin that was cleared meanwhile is read from it again,
  and another instance's memory keeps its own.
* `public_upstream_message` rewrites a 503 into a message with the word "proxy",
  which `classify_app_error` takes for a failed SOCKS handshake.

Models and lists:

* A model whose run is over may stay `ProbePending` for good when two runs
  overlap on it or a refresh stores an old copy: refreshes keep the state and only
  candidates are picked, so an administrator has to act. `EveryCandidateTried` is
  about candidates and promises no more.
* An older batch of live probes may be applied after a newer one. An allow-list
  entry given as an upstream id is probed under that id and never leaves the list.
  A discovered model hidden by a request alias is listed but resolves to the static
  one.
* The probes take an empty `data:` line for broken JSON in a chat stream, a hard
  failure, and skip it in an Anthropic one.

Delivery and collector:

* On the straight way a success is reported before the body is read: a body that was
  to be a stream and cannot be read is a 502 for the client and the collector, and a
  success for the pool.
* `precheck_stream_first_output` swallows an upstream error it meets while peeking,
  though its comment says the error is forwarded.
* An OpenAI stream with reasoning only counts as empty output, an Anthropic one
  does not; a stream that broke later counts as a success.
* A snapshot may show more successes than requests; a late writer opens an earlier
  window again; paging through the ring skips or repeats records written out of
  order; failures of the straight way write no record, and its relay empties the
  upstream after the client left; "\r" at the end of a chunk and "\n" at the
  beginning of the next give the client an empty line too many.

Kernel:

* Canonicalizing gives a result with an unknown id to the next pending call. The
  guard's downgrade of an orphan in the middle of a run of results makes the rest
  of the run invalid, and the request is refused. Folding and collapsing may drop
  the latest instruction, and an older explicit one wins over a newer plain one.
* Text held back and an error of an earlier attempt survive a retry once the
  message has started; a repaired leak or a retry after reasoning only may leave
  the earlier block open. Opening a text block does not advance the counter that
  thinking blocks and calls take their index from (`anthropic.rs:2383`, `:2428`):
  text followed by reasoning are two open blocks at index 0, and a repaired call may
  have the index of a text block that was never closed. A client that keeps its
  blocks by index takes the two for one; `Reused` is this case, and `FollowsMessage`
  shows that there is no other. A client that is not Claude Code may receive
  `message_start` twice. `FollowsMessage` has `strict` and `framed` for the answers
  of which the code does ensure the form, and `OneAttempt` leaves out answers whose
  reasoning the client saw.
* The OpenAI handler sends arguments of calls as they arrive; a retry for text only
  still offers tools; a collected answer with text and only partial calls is an
  error; white space is output for one reader and none for the other.

## 4. Proofs

All for every value of the constants, from the named assumptions on them, which
TLC evaluates in the runs.

* `Parts_proofs`. `PartsKeepApart`: the sum is each of its parts, so that what is
  proved of a part holds of the sum. Of the pool: `TypeCorrect`, `LeaseInvariant`,
  `LeasesAreCovered`, `CapacityIsHonoured`, `NoOperationLosesANode`. `LeasesCovered`
  is not inductive: a node that is withdrawn and restored must start at zero, and
  the exact count must be known where nothing disturbed it. `LeaseInv` adds that a
  node without a PoolNode has no leases and nobody about to add to them, that the
  leases together with the admissions that have loaded the count stay below the limit
  and the crowd (`Crowded`), and that counts are exact outside `stolen`. Each action changes the holders of one node by
  one request, and cardinality lemmas say by how much. `KeptInv` is about nodes
  that are not excused: at most one operation is under way on such a node, and it
  says, step by step of that operation, in which of the pools the node is or will
  be put. Of session pins: `ClearsLeaveNoPin`. Its invariant adds that while one
  instance alone may still hold the pin in its memory, Redis has none. Of delivery
  and collector: `AnswersAreAccounted`. Its invariant `DeliveryInv` says that a
  record is in one place, the queue or the hands of one writer (`Places`); that the
  counters, the windows and the ring have of it just what its writing has done so
  far (`Tallies`, `Rolls`, `Numbered`, `Holds`), also when the worker and a task
  write side by side; and that a task owes what its phase says (`Owing`).
  Of the streams: `ReadersAreFaithful`, for any frames, line ends, breaks and
  chunks. The first delimiter of bytes that begin like a frame is the frame's own
  end, and there is none in less than a frame (`FrameEndLF`, `FrameEndCRLF`,
  `NoFrame`): the two kinds of delimiters never mix in one stream. So the loop over
  `next_frame` finds just the frames that have come in whole, up to the first bad one
  (`FramesFound`), and `ReaderState` says which of the stream's bytes are left in the
  buffer. Of the relay, which does lose lines (section 3), only the types are
  proved. `PartsTypesCorrect` are the types of all parts together.
* `NodeAdmission_proofs`: `Typing`, `QueueFollowsServing`, `LeasesHaveOwners`,
  `LimitsAreHonoured` and its parts `WindowIsKept` and `OvershootIsBounded`. Leases
  are matched with owners by three invariants: who is served, who is between the two
  steps of a rollback, and who was alone when it read the count. The overshoot is
  bounded by the admissions that read before the last of them admitted. That what
  is served stays charged compares a sum over tasks with a counter: the sum is
  written as the number of pairs of a task and a number up to its charge (`Units`),
  and each action adds or takes such pairs.
* `GlobalBudget_proofs`: `Typing`, `BudgetImplementsPermits`,
  `SharedLimitIsHonoured`, `CapacityIsKept`. Lease ids are distinct, so counting
  becomes a matter of injections: every request in flight has a counted lease, or
  its instance lost one to expiry, skew or a stolen release; every counted lease
  has a request, or a cause that will expire. The refinement maps every grant,
  purge, expiry and release to a step of `Permits` on the counted leases.
* `FrontEnd_proofs`: `LanesTypeCorrect`, `LaneCountsExact`, `LanesImplementPermits`.
  The counter is exact in every step because a swap only happens on the value
  compared; the refinement follows from it. `FrontEndTypesCorrect`, with
  `FrontEndKeepsApart` as in `Parts_proofs`. Of `ListingFollowsProbes` the part that
  is no liveness, `ListedNamesResolve`: it holds in every state, whatever the tables
  and the allowlist.
* `RequestRetry_proofs`: `RetryTypeCorrect`, `LeasesAreSettled`,
  `CallsStartInBudget`, `TargetsAreSound`. The invariant ties the balance of every
  node to the phase and the node of the attempt under way; the budget's follows
  from the check at the end of each attempt. It shows that the early return for a
  spent budget, which would leave a lease unreported, cannot be reached. The
  targets' invariant follows the exclusions, the pin and the last target from one
  fallback to the next.
* `ModelDiscovery_proofs`: `DiscoveryInvariant`, `DiscoveryTypeCorrect`,
  `DiscoveryFlagsAgree`, `DiscoveryExposureIsEarned`. Exposure is not inductive by
  itself, because a state may be decided on a record that is out of date: `Inv`
  says of the copy a refresh is about to store, of the state every run is about
  to set or may restore and of every pending promotion what the property says of
  the registry. Since the histories only grow (`CarryOver`), what was deserved
  when it was decided still is when it is set.

* `Kernel_proofs`: `KernelInvariant`, `MarkupStaysBack`, `AnswerOfOneAttempt`,
  `CallsAreWhole`, for the three handlers, their retries, delivery and a client that
  hangs up. What a client has depends on what was sent, held back and recorded
  before: `KernelInv` speaks of what the client has or will have when it has taken
  the events on their way. `Clean`: no markup is among it until a call has come.
  `Streaming`: as long as the handler may start over, the text heard and held back
  is the present attempt's, or reasoning was shown before (the exception
  `OneAttempt` makes); what was heard is remembered, so a handler that finds
  nothing said is right, and when it asks again nothing was heard. `Consistent`:
  one attempt, whole calls, each once, over what was given and what is queued.
  Delivery only moves events from the second to the first. The assumptions:
  `RequestsAssumption` (two paths, three kinds of tools), `DeltasAssumption` (calls
  have an index) and `CollectionsAssumption` (an answer has finitely many calls,
  each of a kind that a stream has).
* `KernelMessage_proofs`: `MessageInvariant`, `AnswerIsAMessage`, `KernelTypes`,
  `AnnouncementsAreCutOff`. That delivery refines `MessageStream` depends on events
  that were yielded long before. `MessageInv` says that the events on their way lead
  from the message the client has, one step of `MessageStream` after the other, to
  a message that the handler knows (`Leads`, `Good`): the blocks it believes open are
  open at the indices it remembers, what else is open it has forgotten, its counter is
  the next number but for a text block that is not counted yet, calls have only begun if it remembers them, the answer has only
  ended if it is through. A handler then only has to extend that message by the
  events it adds, and an attempt that is given up has to leave one from which the
  next can go on. That a bare announcement is no finished answer follows in the
  same way, from the last message of all.

Induction over data is used where the provers can follow it: the library's induction
theorems take an operator, but a set of numbers that holds 0 and with every number
the next one is `Nat` (`Least`, `Inductive`, `UpTo`, `DownFrom`). With it the
recursive functions of the readers (`Frames`, `FlattenSeq`, `FoldLeft`) are shown
to exist and to be unique (`LoopIs`, `FlattenDef`, `FoldExists`), and what they
compute follows.

Only model-checked: all liveness properties (TLAPS has no fairness here);
`ChunksImmaterial`, of whose two parts `ReadersAreFaithful` covers the readers, while
the relay's is claimed for chunks that end at line ends only; `HistorySent`, which is claimed for the conversations of the run (ids that repeat
within one message, or more parts than synthetic ids keep apart, are not among them,
so that it has no statement for all conversations); and `ToolsAreNamedApart`, which
TLC evaluates for all small lists.

## 5. Not modelled

* The active pool, whose counts only the statistics read; node transport (a cache
  of HTTP clients), node providers, configuration, the
  ledger (sums of usage under one lock each, saved as a file) and the
  collector's export: I/O and formatting, without a part in what the properties
  are about. Nothing reads the write-ahead log back.
* `health.rs`: the back-off is stored by concurrent requests, a late store may
  shorten it, and only the health endpoints read it; the detector of global 429s
  is not used.
* Of modelled parts: statistics, scores and averages; the harness adapter of the
  model probes and the change of limits while running; canonical rendering,
  schemas and the completion of a call's arguments; manifests, catalogues and
  cached reasoning; the stand-alone server but for its error messages;
  authentication and redaction; the count of bytes and tokens.
