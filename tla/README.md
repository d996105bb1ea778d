# Verification of voidinfer

voidinfer serves one quantised language model from one GPU. These modules model the
control of the server's concurrent parts: who waits for whom, who may publish what,
which resources are counted where. The arithmetic of the model is not modelled.

## The system's parts and how they interact

A request passes through these parts, top to bottom:

| part | source | state | operations | modelled by |
|---|---|---|---|---|
| HTTP server, schemas | `src/serve/http_server.cpp`, `*_schema.cpp` | connections | parse, stream | - |
| Responses endpoint, generation service | `src/serve/responses_http.cpp`, `generation_service.cpp` | the handler of each request, count of requests | look up, prepare, run, store, reply | `Service` |
| media preparation | `impl/frontend/processor.cpp`, `media_cache.cpp`, `src/core/host_worker_pool.cpp` | gate, cache, flights, live bytes, worker queue | process, prepare, allocate, evict, await | `MediaCache` |
| engine request queue | `src/exl3/exl3_engine_core.cpp`, `ready_work_descriptor.h` | queue, places, lanes, memory projections, failure and stop flags | submit, cancel, select, suspend, fail, close | `EngineQueue` |
| prompt-pass queue | `exl3_engine_core.cpp` 813-962 | holder, waiters per class, hand-over | lock, unlock, yield, pause | `PassQueue` |
| batched rounds | `batched_verify_coordinator.h` | active lanes, the open group of each gate | arrive, lead, wait, set_active | `BatchedVerify` |
| asynchronous verification | `fast_device_round.h`, `exl3_engine_core.cpp` 3257-3606 | drafted and verified tokens, the line's worker, the shared exact line | draft, launch, settle, commit, end | `AsyncVerify` |
| output delivery | `exl3_engine_core.cpp` 2384-2411, 4625-4642, 5666-5742, `output_delivery.h` | result text, pending ranges, leases | emit, poll, publish | `OutputDelivery` |
| host history, disk spill | `lane_kv_source.h`, `kv_spill_store.h`, `text_model.cu` | plane sets, pages, slots | export, restore, exchange, adopt, spill, release | `LaneKv` |
| response store | `src/serve/response_store.cpp` | records, shared context nodes | put, get, erase | `ResponseStore` |
| kernels | `*.cu`, `src/ops` | tensors | forwards | - |

`PROJECT.json` lists all of them, with the reason where one is not modelled.

A client's request first has its media prepared on the client's thread and the worker
pool, then waits in the engine's queue. A lane (one thread each, one to eight of them)
takes it, ingests its prompt in one *prompt pass* and decodes in rounds. Rounds of
several lanes meet at the coordinator's gates and share a forward. What a lane drafts
on compressed history is checked by the *exact line*, a second context that all lanes
share, and published only then. Prompt ingestions and the line's passes share a pool of
scratch memory, so the pass queue lets one run at a time.

What is hard about it: condition variables that are notified outside the mutex, or
waited on without a predicate; a line that changes hands while the last lane's result is not yet
accepted; one thread that fails for all; counts kept in several places; and memory that
requests hold while they wait for more. `PROJECT.json` lists these as hazards, each at its line.

## Modules

Every module has one action per critical section or per step between two of them.
`MC` modules instantiate a module for TLC; `...Proofs` and `...Theorems` modules hold proofs, and
`Subsequences` and `ListFacts` what they need to say of lists. A definition named
as a mutant in its comment is a plausible bug of the definition after it: the property
it is paired with in `PROJECT.json` fails when it takes that definition's place.

**PassQueue.** The fields of `PassQueue`, and for each lane its place: waiting in `lock`,
holding, notifying, yielded, paused. The condition variable is explicit (`awake`), since
the question is whether a wake-up can be lost. `verify_done` only ever meets the target of the
yield in progress, so the model keeps the difference, `owed`. `event` and `uncovered` follow
`prompt_pass_done`. A line worker's passes are taken to be those of its lane; a request
ends after any pass.

**BatchedVerify.** Both gates of `Exl3BatchedVerifyCoordinator`. A group is named by a
number that is free again once its last member let go of it, as the shared pointer does;
there are as many names as lanes, and lemma `FreeGroup` shows that an arriving lane always
finds one. The
opener's `wait_until` has no predicate, so it is modelled with `awake` and a deadline that
may pass at any time; the wait for `done` is a guard. `Forwards` is the split of a group into
halves, `Captured` what `groups()` captured graphs for: `ForwardsCaptured` says that a group with no graph of
its own always splits into forwards that have one, or into single rounds.

**AsyncVerify.** The loop's asynchronous branch, the round's launch, settle, commit and
end, the worker, and the pool with its parked passes. A token is what the exact model
makes of it: its choice, within the tolerance, beyond it, or terminal. The state of the
line is the sequence of tokens it has run, so "the right recurrent state" is equality of
sequences. Stop strings that end the output inside a block are modelled, as session and commit
handle them, though this route refuses such requests today.

**EngineQueue.** `submit` from its checks of the request (`decline`) and its first locked section
(`reserve`) over the storage of the result (`allocate_fails`) to the second locked section with its sweep
of cancelled entries; `Request::cancel` in its two steps, the lanes' loop and selection, admission by
memory, the memory gate with suspension, `close`. The failure of a lane is three steps, as in the code: the
exception ends decoding (`Throw`), the run's handler may mark the engine failed (`caught`), and the
loop's handler cancels the peers and completes the waiting requests (`drain`); other threads run in between, so a failed
engine may still have a queue. Whether storage or generation numbers run out (`Shortage`) is an input. Memory is counted in units and
a request takes one or two; what `cudaMemGetInfo` says to the gate is an input. Two
lanes or more: with one there is neither admission nor suspension. Execution is prefill and a
bounded number of rounds. The opt-in affinity and copy-demand policies are left out.

**MediaCache.** A flight and its payload are named by the request and the part that started
it. Payloads are reference counted, so the live bytes are a function of the state: what the
cache, a flight in use, a request or a prompt refers to. All waits have a 10 ms timeout,
so a waiting thread is one whose action is not enabled. Whether media decode and how
long a prompt is are inputs.

**LaneKv.** Where the KV rows of retained histories are. A page is one block of rows, and the
content of a place is the name of the page whose rows it is, so "the right rows" is equality of names.
One action per critical section of a set's mutex or of the payload mutex. `restore_host_state_impl`
is the sequence `RestorePin` to `RestoreAdopt`; only `exchange` keeps its set locked from one to
the next (`Locked`). Whether host memory is short is an input of `Fill`. The release of rows that follows
an eviction is an action of its own (`ReleaseRows`), since it binds each set separately while lanes run. Pins
are taken without a lock, so a section of the payload mutex may have read a count of zero before the pin and move the page after
it: a step that checks pins may miss (`Missable`) those of any restore that has not had the payload mutex since it
pinned (`Early`), also of one that pinned before the section began. A restore always has that mutex before it reads a
page, in `exchange` or in `materialize_except`, and from then on no check misses it. The branch of `RestoreLoad` that fetches a page
again is therefore not reached.

**OutputDelivery.** `emit` of the lane, `poll` and `wait` of the client's thread, and a sink that may throw
or keep a piece. Text is a length and the set of offsets at which its characters end. A delta beyond the text limit makes `emit`
throw (`out.over`), which ends the request as a failure; each channel reserves that limit, so the check
of its capacity never decides first.

**RequestLife.** What the engine promises: an accepted request has one of `Capacity` places, is answered
once, and a refused one is told a reason that is true: it asks for what the engine does not do, the engine has failed or
stops, no place is left, or storage is short. The code reports used-up generation numbers as "unavailable"; here they are a shortage. `EngineQueue` implements it
(`ImplementsLife`): a queued or active request is accepted, the places are the queue and the lanes.

**ResponseStore.** Records, the LRU list, the reference counts of shared context nodes and the
charged bytes. `put` evicts within one step, as it does under the lock. It has no specification of its
own: its operations are steps of `Service`.

**Service.** The composition: the handlers of the Responses endpoint and the server's count of places,
over `RequestLife`, `OutputDelivery` and `ResponseStore`, with other clients reading and deleting.
Preparation is an outcome. The engine is the abstract one, which `EngineQueue` is shown to implement.

The modules meet at these points, each of which the models take from both sides: a lane of
`EngineQueue` in "prefill" is a thread of `PassQueue` in an ingestion; one in "round" is an
active lane of `BatchedVerify`, and its verification passes and suspensions
(`BatchedInactive`) are `enter_pass` there;
`AsyncVerify`'s `Fail` is `EngineQueue`'s `drain`; a cancelled request of `EngineQueue` is the
`cancelled` `AsyncVerify` reads.

## Runs

| run | instance | what it shows |
|---|---|---|
| `pass_queue` | 3 lanes, one first and two later verifications each, both CUDA failures | one pass at a time; a hand-over keeps its turn; no lost wake-up; ingestions and verifications are served unless a failed event wait left the queue locked |
| `batched` | 3 lanes, groups of 2, halves of 2 and 1, forwards that throw | members stay until the forward is done, one leader per group, every forward has a graph, whoever arrives leaves |
| `async` | 2 lanes on one line, 3 tokens, blocks of 2, tokens exact/near/off, stop strings, cancellation | only verified tokens published, none retracted; a pass survives until it is committed; the state handed over is that of the output |
| `async_live` | 1 lane, 2 requests of 5 tokens, lead 3, ring 4, terminal tokens, failing passes | every request ends; until a block is settled for want of lead, only verified tokens are published |
| `async_lead` | 1 lane, 10 tokens, lead 5 | *violated*: see below |
| `async_cancel` | 1 lane, terminal tokens, cancellation | *violated*: see below |
| `engine` | 4 requests, one declined and one unsupported, 2 lanes, capacity 2, shortages, cancellation, faults, close | `outstanding` is exact; a cancelled entry of the queue always has someone to release it, and `close` leaves nothing behind; the engine implements `RequestLife` |
| `engine_live` | 2 clients that submit for ever, a large request with a home lane, deadlines, memory pressure, faults, close | every accepted request is answered, unless its lane is suspended beside one admitted on its deadline (`Overtaken`); close returns; the oldest decoder never suspends |
| `engine_unsupported` | 3 requests, one with unsupported options | *violated*: see below |
| `media` | 3 requests with shared parts, 1 worker, queue of 1, one cancellation or deadline, one request over its budget | builders stay within their request; one flight per key; cache and live bytes within limits; a prompt has all its parts; every preparation ends |
| `lane_kv` | 2 lanes, 3 pages, a retained history of 2 pages, contexts of 2 pages, one export, two restores, 2 slots, failing writes | pages keep their rows wherever these move; a lane that runs has its lineage's rows; the last page proves the prefix; slots are exact; what a restore reads stays |
| `service` | a streaming and an aggregate request, an earlier response, 1 place, 2 records, 2 leases | the store's counts and bytes are exact; text is delivered exactly, within two ranges and the leases; a request is refused only for left-over places; replies are true; every request leaves |

### The three violated runs

- `async_lead`: corrections append to the line head, which counts towards the lead. When head and
  block fill the lead, the lane may not draft past the block and settles it with no later token;
  its last row then checks nothing, and the head is cleared, so the next block's first token is
  checked by no row. "publish only verified tokens" (`exl3_engine_core.cpp:3119`) fails. `async` checks the same
  property and it holds there: an allowance of 3 tokens is too small for a head and a block
  to fill its lead of 4. The code's lead is 200 by default and can be set from 16.
- `async_cancel`: a drafted terminal token closes the round. If the request is cancelled before
  that block is committed, `end_async` throws and the engine fails, where the comment
  says "A block still in flight (cancellation): drop it."
- `engine_unsupported`: stop strings and thinking budgets pass `submit` and throw on the lane, which
  fails the engine and every other request; `docs/current-status.md` says "refused at submission".

### Bounds, and why they are enough

- `pass_queue`: three lanes are the holder, one that waits and one whose arrival or end changes what
  the second may do. A request has one first verification where a line may run three; the class has no
  further state. The proofs hold for any finite set of lanes.
- `batched`: three lanes with groups of two leave one lane for the other gate or the next group;
  `Half = 2` makes the halves unequal. The proofs hold for all values.
- `async`: the second lane is what takes the line and parks the pass; a third would only
  repeat it. Three tokens give a first block of one, a block of two and a token
  past a block. Symmetry of the lanes is used for safety and action properties only.
  The proofs hold for any finite set of lanes and any sizes.
- `async_live`: five tokens and a lead of three let a correction, a further block and the ring's end
  occur in one request. The allowance is larger than the lead, so that the lead is used up in some behaviours and lasts in others.
- `engine*`: capacity below the number of requests, so that refusal and the sweep happen; a request of each kind beside two ordinary ones; two
  memory units and a large request, so that admission defers; one round, so a lane
  suspends at most once per request. `engine_live` has two requests: suspension needs two decoders.
  The proofs hold for any two or more lanes and all values.
- `media`: a queue of one makes `enqueue` wait, two retained bytes make insertions evict, and without the gate the
  large parts of the three requests fill the eight live bytes before a small part is built. Undecodable media
  and prompts that are too long (`Undecodable`, `TooLong`) are left out: they fail where a cancellation does. The proofs are for all values, these included.
- `lane_kv`: two pages make runs, prefixes and partial exchanges; a third is what the export adds; six
  sets are enough for two lanes and three pages to be apart. TLC identifies states by a `VIEW`
  that drops the names of sets, slots and lanes, which slots are free and the rows nobody names; `MCLaneKv` says why these behave alike.
- `service`: one place makes the second request be refused by the server or, for a left-over place, by the
  engine; two records and nine bytes make `put` evict; four bytes of credit split deltas of three bytes, one character
  of which has two; the text limit of eight bytes is reached. Both requests store. Requests come to an end, so the run does not check for deadlock.

### Fairness

Weak fairness of a thread's steps: a thread that can run does, mutexes are held for a bounded time,
timed waits time out, forwards, decoding and passes end. In `PassQueue` the end of a pass has strong
fairness: a pass is interrupted by its own yields, and a prompt has finitely many blocks. Nothing is assumed of
races (who gets a mutex first), of clients (they need not submit or cancel), of memory becoming
free, or of deadlines except in `engine_live` (`near`), where time passing is the point. `Service` has weak
fairness of progress as a whole: some handler, the engine or a sink that can move does. A sink keeps
no piece forever. Its loops are bounded, except for polls that find nothing, which change nothing.

## Proved

TLAPS proves, for every value of the constants:

- `PassQueueProofs`: `TypeCorrect`, `Exclusion`, `TurnKept`, `Alternation`, `CountersRight`,
  `WakeupsKept`, and `DeviceOrder` if the event can be created. Assumed of the constants: the
  set of lanes is finite and the rest have their types (`ConfigAssumption`). The inductive invariant
  adds to these that `busy` is set whenever a thread holds the queue and that only ingestions
  release it (`Flags`). A grant requires `~busy`, so nobody holds; that no second ingestion
  enters during a release follows from the `yielding` test and the exact counters, through which
  alone `MayRun` speaks of threads. `WakeupsKept` goes by cases on what makes a condition true: every such step notifies
  at once or leaves a thread at "notify"; a newly waiting thread only makes conditions false
  (`WaiterAddsNoCondition`).
- `BatchedVerifyProofs`: `TypeCorrect`, `MembersRemain`, `SingleLeader`, `WidthBounded`,
  `OpenGroupsTakeMembers`, `ActiveCounts`, `EveryForwardCaptured`. Assumed: the widest group holds two
  lanes or more.
  The invariant ties each group to its lanes (`Held`), to its one opener or leader (`Led`) and to its gate
  (`Gated`), and keeps an open group strictly below the widest one (`Width`): one more
  member then always fits, although the target is recomputed at each arrival. `FreeGroup` is a pigeonhole argument: an arriving lane
  holds no group, so the others hold at most `N - 1` of `N`.
- `OutputDeliveryProofs`: `RangesSuffice`, `Exactness`, `LeaseBound`. Assumed: the byte limit fits the widest
  character, and deltas are whole characters. `DeliveryInv` says that, channel by channel, what was heard, the
  pieces in hand and the pending ranges follow one another without a gap up to the end of the text, all reasoning before
  content (`TextInv`). Coalescing then leaves one range per channel, hence two, also when a poll has taken
  part of the first. After the sink threw, this holds of some batch, no longer of the one in hand.
- `EngineQueueTheorems`: `OutstandingIsExact`, `EngineStrandsNone`, `OldestStays` and `EngineKeepsItsPromise`, the refinement
  of `RequestLife`. Assumed: finitely many requests, finitely many lanes and at least two, constants of their types. The invariant
  (`EngineQueueProofs`) says that the queue has every waiting request once, that lanes and active requests
  belong together one to one from selection to release, that the admission order lists exactly the occupied lanes, and
  that a cancelled entry of the queue has its canceller or a stopping lane to release it, and that nothing waits behind a lane that left. The count follows only from all of these: one
  sweep of `submit` drops several entries, one failure answers all. The refinement goes action by action: what the sweep,
  a drain or a cancellation answers leaves the accepted requests as it leaves queue and lanes, and the rest is a stutter.
  What lists lose (`Without`) is a count of what stays, since no proof can go by induction
  over a list; `SubsequencesProofs` proves what it does from the smallest counterexample. `ListFacts` states these facts
  as one formula, which the lemmas of `EngineQueueProofs` assume and `EngineQueueTheorems` discharges: the invariant is then
  proved without the theorem library in scope.
- `AsyncVerifyProofs`: `ResumesItsLine`, `PassSurvives`, `HandsOver`, `NothingTakenBack`, and `PublishesVerified`:
  only verified tokens are published as long as no block that does not end its output is settled with nothing drafted behind
  it (`LeadLasts`), whatever the lead and the allowance; `async_lead` shows that this fails once the lead is used up. The invariant adds to the
  properties that a block is a non-empty prefix of what is drafted and has a job (`BlockOK`), that a line that stands at a
  lane's root has run nothing past it (`RootOK`), that a parked pass is parked because the line is elsewhere (`PassOK`), and that an
  early token is the first of its request, still to be committed (`EarlyOK`). `HandsOver` and `NothingTakenBack` follow step by step.
  For `PublishesVerified` a second invariant (`Checked`) says that what is committed or settled passed the exact scores, and
  so did the first drafted token when no head is there to check it; while the lead lasts, a block accepted in full with nothing
  drafted after it ends its request.
- `MediaCacheProofs`: `OneFlightPerKey`, `BuildersEndFirst`, `LiveStaysBounded`, `NothingMissing`. Assumed: finitely many
  requests, constants of their types (`ConfigAssumption`). The invariant says part by part what a request has begun and holds (`BegunOK`, `HeldOK`), that
  the flight a builder is at stands in its request's list at its own place, not awaited yet (`OwnerOK`), when a
  flight has a payload (`BuildOK`), and what cache, `inflight` and queue name. A request that joins
  a flight relies on another request's builder, so what it holds is about every flight, its own or not. For the
  live bytes, no step but a reservation brings a payload into use: a new reference is to a cached payload or to a flight
  under way, which are in use already; that the bytes of a set grow by no more than the new payload's is by counting.

Only model-checked:

- all liveness, which is beyond this prover;
- `CacheExact`: what a list of entries takes is a sum over the list, and that moving an entry to the front or dropping
  the last ones keeps or lowers it needs induction over lists;
- `ResponseStore` and `Service`: the store's eviction is a recursive operator, beside which tlapm has no SMT backend;
- `LaneKv`: no proof was attempted.

`StreakBound`, `WidthBound`, `OpenTakesMembers`, `ActiveExact`, `CountersExact`, `DeviceOrdered` and the `TypeOK` of `PassQueue` and `BatchedVerify`
are proved and in no run.

## What the models show beside the properties

- `PassQueue`: an event wait that fails leaves the queue locked (`Stuck`); verifications that arrive
  during a yield may run in it, also beyond the number it waits for.
- `BatchedVerify`: `lead` splits a group that is too narrow for a graph of its own into half forwards, for which
  `groups()` captured graphs, so no group of several lanes runs eagerly (`ForwardsCaptured`). The comments of
  `batched_verify_coordinator.h` disagree with one another: "the other subsets run eager forwards" (61-63) and "narrower
  subsets run eager forwards" (287-289) do not know of the split, 284-285 and 416-418 describe it.
- `MediaCache`: a request that waits for another's flight is given that request's cancellation or
  deadline as its error. The code rethrows it on purpose, and no property is about it. A request over its budget through cached parts, which claim nothing, may
  wait until its deadline for live bytes it holds itself; `PreparationEnds` is therefore about
  requests within their budget.
- `EngineQueue`: a large request that waits for its idle home lane may be passed by a younger one on the
  other lane, whose codes then keep it out, again and again; only its deadline ends that; a client has its answer before its place
  is given back.
  A request near its deadline is admitted although a lane is suspended, where the comment at
  `exl3_engine_core.cpp:578` says none is; that lane may then wait for one such request after another.
- `AsyncVerify`: the line head grows with each correction, and once it is beyond the ring's
  checkpoint the next correction (`settle_fail`) or the end of the request (`end_fail`) fails the
  engine. `RequestEnds` counts this as an end. `async_live` reaches both with a lead of 3 and a ring of 4; the code has 200 and
  256, so it takes a long run of corrections with no accepted block between them. The comment
  at `exl3_engine_core.cpp:3318` says "head + one round stays inside the kAsyncRingRows
  checkpoint".

## Not modelled

- Kernels, weights, schemas, templates, tokenizing and sampling, by far the largest part of the source: they compute
  values and have no control state. A transcription of device arithmetic would be neither smaller than the code nor
  checkable on small instances.
- The paged KV cache, device pages and the target-q rendezvous: routes that are not served by default.
- Of the lane KV source: pages filled in part, failed reads and exceptions inside a restore.
- Of the generation service: its deadlines. Of the coordinator: matching and publication of roots.
- The publication boundary, the encoded media entries, the request log and the tool-call filter.
- A run of `AsyncVerify` on the ring checkpoint, with lead, ring and block in the code's proportions.
