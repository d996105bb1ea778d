----------------------------- MODULE MediaCache -----------------------------
(***************************************************************************)
(* The preparation of a prompt's media: Processor::process, the media      *)
(* cache (MediaPreprocessCache) and its worker pool (HostWorkerPool).      *)
(*                                                                         *)
(* A request takes a permit, begins one part after the other (a cached     *)
(* payload, another request's flight, or a flight of its own that a worker *)
(* builds) and then awaits them all.  A flight is named by the request and *)
(* the part that started it, and so is the payload it builds.  Payloads    *)
(* are reference counted: one is charged to the account of live bytes      *)
(* while the cache, a flight in use, a request or a prompt refers to it.   *)
(*                                                                         *)
(* Every critical section is an action.  All waits have a 10 ms timeout,   *)
(* so a waiting thread is one whose action is not enabled.                 *)
(***************************************************************************)
EXTENDS Integers, Sequences, FiniteSets, Functions, Subsequences

CONSTANTS
    Requests, Keys,
    Parts,          \* the media keys of each request, in order
    Bytes,          \* the payload bytes of each key
    Retained,       \* capacity_bytes: what the cache may keep
    LiveLimit,      \* live_capacity_bytes
    MaxRequest,     \* maximum_request_bytes: the budget of one request
    Workers, QueueCapacity,
    Cancels,        \* requests whose client may cancel
    Deadlines,      \* requests whose deadline may pass
    Undecodable,    \* keys of media that do not decode
    TooLong         \* requests whose prompt exceeds the context

ASSUME ConfigAssumption ==
    /\ IsFiniteSet(Requests) /\ Parts \in [Requests -> Seq(Keys)]
    /\ Bytes \in [Keys -> Nat \ {0}]
    /\ Retained \in Nat /\ LiveLimit \in Nat /\ MaxRequest \in 1..LiveLimit
    /\ Workers \in Nat \ {0} /\ QueueCapacity \in Nat \ {0}
    /\ Undecodable \subseteq Keys /\ Cancels \cup Deadlines \cup TooLong \subseteq Requests

Flights == UNION {{r} \X (1..Len(Parts[r])) : r \in Requests}
KeyOf(f) == Parts[f[1]][f[2]]
None == <<>>

VARIABLES
    pc,         \* where each request is in process
    at,         \* the part it begins or awaits
    pending,    \* pending_items: the flights (or cached payloads) it refers to
    stopped,    \* preparation_error is set, and with it stop_preparation
    cancelled, expired,   \* what control reports
    lru, ready, inflight, \* State: the cache and the flights under way
    queue,      \* the tasks no worker has taken
    stage,      \* how far each flight is
    broken,     \* flight->error is set
    built       \* the flights whose payload was allocated

cache == <<lru, ready, inflight>>
request == <<pc, at, pending, stopped>>
flight == <<queue, stage, broken, built>>
vars == <<request, cancelled, expired, cache, flight>>

Init ==
    /\ pc = [r \in Requests |-> "permit"]
    /\ at = [r \in Requests |-> 1]
    /\ pending = [r \in Requests |-> <<>>]
    /\ stopped = [r \in Requests |-> FALSE]
    /\ cancelled = [r \in Requests |-> FALSE]
    /\ expired = [r \in Requests |-> FALSE]
    /\ lru = <<>>
    /\ ready = [k \in Keys |-> None]
    /\ inflight = [k \in Keys |-> None]
    /\ queue = <<>>
    /\ stage = [f \in Flights |-> "none"]
    /\ broken = [f \in Flights |-> FALSE]
    /\ built = {}

BytesOf(S) == Cardinality(UNION {{f} \X (1..Bytes[KeyOf(f)]) : f \in S})

(* The flights and payloads a request or its prompt refers to.             *)
Refers(r) == {pending[r][i].flight : i \in 1..Len(pending[r])}

(* The payloads not yet freed, and MemoryAccount::live.                    *)
InUse(f) ==
    /\ f \in built
    /\ \/ stage[f] \in {"built", "stored", "done"}
       \/ ready[KeyOf(f)] = f
       \/ \E r \in Requests : f \in Refers(r)
live == BytesOf({f \in Flights : InUse(f)})

done(f) == stage[f] \in {"dropped", "done", "over"}

-----------------------------------------------------------------------------
(* The request's thread.                                                   *)

InProcess(r) == pc[r] \in {"begin", "enqueue", "abandon", "await"}

(* MediaPreparationGate::maximum.                                          *)
Permits == LiveLimit \div MaxRequest

(* check_preparation_control of the request throws.                        *)
Stops(r) == cancelled[r] \/ expired[r]

Fail(r) ==
    /\ pc' = [pc EXCEPT ![r] = "failed"]
    /\ pending' = [pending EXCEPT ![r] = <<>>]
    /\ UNCHANGED <<at, stopped>>

acquire_request(r) ==
    /\ pc[r] = "permit"
    /\ \/ Stops(r) /\ Fail(r)
       \/ /\ ~Stops(r) /\ Cardinality({q \in Requests : InProcess(q)}) < Permits
          /\ pc' = [pc EXCEPT ![r] = "begin"]
          /\ UNCHANGED <<at, pending, stopped>>
    /\ UNCHANGED <<cancelled, expired, cache, flight>>

(* All parts are begun, or one could not be: what was begun is awaited.    *)
Await(r, error) ==
    /\ pc' = [pc EXCEPT ![r] = "await"]
    /\ at' = [at EXCEPT ![r] = 1]
    /\ stopped' = [stopped EXCEPT ![r] = error]
    /\ UNCHANGED pending

Begun(r, f, hit) ==
    /\ pending' = [pending EXCEPT ![r] = Append(@, [flight |-> f, hit |-> hit])]
    /\ at' = [at EXCEPT ![r] = @ + 1]
    /\ pc' = [pc EXCEPT ![r] = "begin"]
    /\ UNCHANGED stopped

\* Mutant of Joins: a miss always starts a flight.
JoinsNever(k) == FALSE

(* A flight under way builds the key: the request waits for it.            *)
Joins(k) == inflight[k] # None

begin_prepare(r) ==
    /\ pc[r] = "begin" /\ at[r] <= Len(Parts[r])
    /\ LET k == Parts[r][at[r]]
           f == <<r, at[r]>> IN
       \/ Stops(r) /\ Await(r, TRUE) /\ UNCHANGED <<cache, stage>>
       \/ /\ ~Stops(r) /\ ready[k] # None
          /\ Begun(r, ready[k], TRUE)
          /\ lru' = <<k>> \o Without(lru, {k})
          /\ UNCHANGED <<ready, inflight, stage>>
       \/ /\ ~Stops(r) /\ ready[k] = None /\ Joins(k)
          /\ Begun(r, inflight[k], FALSE)
          /\ UNCHANGED <<cache, stage>>
       \/ /\ ~Stops(r) /\ ready[k] = None /\ ~Joins(k)
          /\ inflight' = [inflight EXCEPT ![k] = f]
          /\ stage' = [stage EXCEPT ![f] = "enqueue"]
          /\ pc' = [pc EXCEPT ![r] = "enqueue"]
          /\ UNCHANGED <<lru, ready, at, pending, stopped>>
    /\ UNCHANGED <<cancelled, expired, queue, broken, built>>

HasRoom == Len(queue) < QueueCapacity

(* HostWorkerPool::enqueue waits for a place in the queue; its checkpoint  *)
(* knows the deadline, not the client's cancellation.                      *)
enqueue(r) ==
    LET f == <<r, at[r]>> IN
    /\ pc[r] = "enqueue"
    /\ \/ /\ expired[r]
          /\ stage' = [stage EXCEPT ![f] = "dropped"]
          /\ broken' = [broken EXCEPT ![f] = TRUE]
          /\ pc' = [pc EXCEPT ![r] = "abandon"]
          /\ UNCHANGED <<at, pending, stopped, queue>>
       \/ /\ ~expired[r] /\ HasRoom
          /\ queue' = Append(queue, f)
          /\ stage' = [stage EXCEPT ![f] = "queued"]
          /\ Begun(r, f, FALSE)
          /\ UNCHANGED broken
    /\ UNCHANGED <<cancelled, expired, cache, built>>

abandon(r) ==
    LET f == <<r, at[r]>> IN
    /\ pc[r] = "abandon"
    /\ inflight' = [inflight EXCEPT ![KeyOf(f)] = None]
    /\ stage' = [stage EXCEPT ![f] = "over"]
    /\ Await(r, TRUE)
    /\ UNCHANGED <<cancelled, expired, lru, ready, queue, broken, built>>

begun(r) ==
    /\ pc[r] = "begin" /\ at[r] > Len(Parts[r])
    /\ Await(r, FALSE)
    /\ UNCHANGED <<cancelled, expired, cache, flight>>

OverBudget(r) ==
    Cardinality(UNION {{i} \X (1..Bytes[Parts[r][i]]) : i \in 1..at[r]}) > MaxRequest

\* Mutant of Arrived: an error ends the wait.
ArrivedOrStopped(r, p) == p.hit \/ done(p.flight) \/ stopped[r]

(* MediaPreprocessCache::await returns or throws.                          *)
Arrived(r, p) == p.hit \/ done(p.flight)

\* Mutant of Rethrows: a flight's error is not looked at.
RethrowsNothing(p) == FALSE

Rethrows(p) == ~p.hit /\ broken[p.flight]

(* A failed part stops the others' builders, and still every part begun is *)
(* awaited: builders refer to the request's stack.                         *)
await(r) ==
    /\ pc[r] = "await" /\ at[r] <= Len(pending[r])
    /\ LET p == pending[r][at[r]] IN
       \/ /\ ~stopped[r] /\ Stops(r)
          /\ stopped' = [stopped EXCEPT ![r] = TRUE]
          /\ UNCHANGED at
       \/ /\ Arrived(r, p)
          /\ stopped' = [stopped EXCEPT ![r] =
                @ \/ Rethrows(p) \/ OverBudget(r)]
          /\ at' = [at EXCEPT ![r] = @ + 1]
    /\ UNCHANGED <<pc, pending, cancelled, expired, cache, flight>>

(* The permit goes back before the prompt is tokenized.                    *)
awaited(r) ==
    /\ pc[r] = "await" /\ at[r] > Len(pending[r])
    /\ \/ stopped[r] /\ Fail(r)
       \/ ~stopped[r] /\ pc' = [pc EXCEPT ![r] = "tokenize"] /\ UNCHANGED <<at, pending, stopped>>
    /\ UNCHANGED <<cancelled, expired, cache, flight>>

tokenize(r) ==
    /\ pc[r] = "tokenize"
    /\ \/ (Stops(r) \/ r \in TooLong) /\ Fail(r)
       \/ ~Stops(r) /\ r \notin TooLong /\ pc' = [pc EXCEPT ![r] = "prompt"] /\ UNCHANGED <<at, pending, stopped>>
    /\ UNCHANGED <<cancelled, expired, cache, flight>>

(* The engine is done with the prompt. *)
release(r) ==
    /\ pc[r] = "prompt"
    /\ pc' = [pc EXCEPT ![r] = "done"]
    /\ pending' = [pending EXCEPT ![r] = <<>>]
    /\ UNCHANGED <<at, stopped, cancelled, expired, cache, flight>>

Preparing(r) == pc[r] \notin {"prompt", "done", "failed"}

cancel(r) ==
    /\ r \in Cancels /\ Preparing(r) /\ ~cancelled[r]
    /\ cancelled' = [cancelled EXCEPT ![r] = TRUE]
    /\ UNCHANGED <<request, expired, cache, flight>>

expire(r) ==
    /\ r \in Deadlines /\ Preparing(r) /\ ~expired[r]
    /\ expired' = [expired EXCEPT ![r] = TRUE]
    /\ UNCHANGED <<request, cancelled, cache, flight>>

-----------------------------------------------------------------------------
(* A worker and the flight it runs.                                        *)

Working(f) == stage[f] \in {"build", "claimed", "full", "built", "stored", "done"}

(* check_preparation_control of the flight's producer throws.              *)
Halts(f) == stopped[f[1]] \/ expired[f[1]]

take ==
    /\ queue # <<>> /\ Cardinality({f \in Flights : Working(f)}) < Workers
    /\ stage' = [stage EXCEPT ![Head(queue)] = "build"]
    /\ queue' = Tail(queue)
    /\ UNCHANGED <<request, cancelled, expired, cache, broken, built>>

Break(f) ==
    /\ broken' = [broken EXCEPT ![f] = TRUE]
    /\ stage' = [stage EXCEPT ![f] = "stored"]

(* Decoding, and the claim on the request's budget: only parts that are    *)
(* built claim it, and a claim that was refused still counts.              *)
claim(f) ==
    LET claimed == {g \in Flights : /\ g[1] = f[1] /\ KeyOf(g) \notin Undecodable
                                    /\ stage[g] \notin {"none", "enqueue", "queued", "build"}}
        over == BytesOf(claimed \cup {f}) > MaxRequest IN
    /\ stage[f] = "build"
    /\ \/ (Halts(f) \/ KeyOf(f) \in Undecodable \/ over) /\ Break(f)
       \/ /\ ~Halts(f) /\ KeyOf(f) \notin Undecodable /\ ~over
          /\ stage' = [stage EXCEPT ![f] = "claimed"]
          /\ UNCHANGED broken
    /\ UNCHANGED <<request, cancelled, expired, cache, queue, built>>

\* Mutant of Reservable: the payload's own bytes are left out.
ReservableIfAny(f) == live < LiveLimit

\* Mutant of Reservable: capacity_bytes is taken for live_capacity_bytes.
ReservableRetained(f) == live + Bytes[KeyOf(f)] <= Retained

Reservable(f) == live + Bytes[KeyOf(f)] <= LiveLimit

(* allocate_payload: reserve the bytes, else evict an entry and try again. *)
try_reserve(f) ==
    /\ stage[f] = "claimed"
    /\ \/ Halts(f) /\ Break(f) /\ UNCHANGED built
       \/ /\ ~Halts(f)
          /\ IF Reservable(f)
             THEN built' = built \cup {f} /\ stage' = [stage EXCEPT ![f] = "built"]
             ELSE stage' = [stage EXCEPT ![f] = "full"] /\ UNCHANGED built
          /\ UNCHANGED broken
    /\ UNCHANGED <<request, cancelled, expired, cache, queue>>

evict_one(f) ==
    /\ stage[f] = "full"
    /\ stage' = [stage EXCEPT ![f] = "claimed"]
    /\ IF lru = <<>> THEN UNCHANGED <<lru, ready>>
       ELSE /\ lru' = SubSeq(lru, 1, Len(lru) - 1)
            /\ ready' = [ready EXCEPT ![lru[Len(lru)]] = None]
    /\ UNCHANGED <<request, cancelled, expired, inflight, queue, broken, built>>

RetainedBytes(s) == Cardinality(UNION {{i} \X (1..Bytes[s[i]]) : i \in 1..Len(s)})

\* Mutant of Kept: nothing makes room.
KeptAll(k) == lru

(* The first n entries of the list leave room for the key.                 *)
Fits(k, n) == RetainedBytes(SubSeq(lru, 1, n)) + Bytes[k] <= Retained

(* What is left of the list once evict_one_locked made room for the key.   *)
Kept(k) ==
    SubSeq(lru, 1, CHOOSE n \in 0..Len(lru) :
        Fits(k, n) /\ \A m \in 0..Len(lru) : Fits(k, m) => m <= n)

(* The built payload enters the cache, if it is not larger than all of it; *)
(* entries that were not used for longest make room.  A builder that stops *)
(* while it writes the patches frees the payload; one that stops after     *)
(* leaves it to the flight.                                                *)
store(f) ==
    LET k == KeyOf(f) IN
    /\ stage[f] = "built"
    /\ \/ /\ Halts(f) /\ Break(f)
          /\ built' \in {built, built \ {f}}
          /\ UNCHANGED <<lru, ready>>
       \/ /\ ~Halts(f)
          /\ IF Bytes[k] > Retained THEN UNCHANGED <<lru, ready>>
             ELSE /\ lru' = <<k>> \o Kept(k)
                  /\ ready' = [q \in Keys |->
                        CASE q = k /\ ready[k] = None -> f
                          [] q = k /\ ready[k] # None -> ready[k]
                          [] q # k -> IF q \in Range(Kept(k)) THEN ready[q] ELSE None]
          /\ stage' = [stage EXCEPT ![f] = "stored"]
          /\ UNCHANGED <<broken, built>>
    /\ UNCHANGED <<request, cancelled, expired, inflight, queue>>

(* inflight.erase *)
Landed(f) == [inflight EXCEPT ![KeyOf(f)] = None]

(* The result is published first, the flight taken off inflight after.     *)
publish(f) ==
    /\ stage[f] = "stored"
    /\ stage' = [stage EXCEPT ![f] = "done"]
    /\ UNCHANGED <<request, cancelled, expired, cache, queue, broken, built>>

erase(f) ==
    /\ stage[f] = "done"
    /\ inflight' = Landed(f)
    /\ stage' = [stage EXCEPT ![f] = "over"]
    /\ UNCHANGED <<request, cancelled, expired, lru, ready, queue, broken, built>>

-----------------------------------------------------------------------------
RequestStep(r) ==
    \/ acquire_request(r) \/ begin_prepare(r) \/ begun(r) \/ enqueue(r) \/ abandon(r)
    \/ await(r) \/ awaited(r) \/ tokenize(r) \/ release(r)

WorkerStep(f) ==
    \/ claim(f) \/ try_reserve(f) \/ evict_one(f) \/ store(f) \/ publish(f) \/ erase(f)

(* Every prompt is over: nothing is left to do.                            *)
rest ==
    /\ \A r \in Requests : pc[r] \in {"done", "failed"}
    /\ \A f \in Flights : stage[f] \in {"none", "over"}
    /\ UNCHANGED vars

Next ==
    \/ \E r \in Requests : RequestStep(r) \/ cancel(r) \/ expire(r)
    \/ \E f \in Flights : WorkerStep(f)
    \/ take \/ rest

(* Threads run, decoding ends and the engine finishes every prompt.        *)
Fairness ==
    /\ \A r \in Requests : WF_vars(RequestStep(r))
    /\ \A f \in Flights : WF_vars(WorkerStep(f))
    /\ WF_vars(take)

Spec == Init /\ [][Next]_vars /\ Fairness

-----------------------------------------------------------------------------
(* A builder refers to its request's stack (the part's bytes, the budget,  *)
(* the stop flag): process does not return before the builder is through,  *)
(* also when another part failed, the client left or the deadline passed.  *)
BuilderWithinRequest ==
    \A f \in Flights :
        stage[f] \in {"queued", "build", "claimed", "full", "built", "stored"} => InProcess(f[1])

(* Identical media are built once at a time, and the flight a request finds *)
(* in inflight is the one under way.                                        *)
SingleFlight ==
    \A f \in Flights :
        stage[f] \notin {"none", "over"} => inflight[KeyOf(f)] = f

(* The LRU list names the cached keys once each, what they hold fits the    *)
(* capacity, and a cached payload was built without an error.               *)
CacheExact ==
    /\ IsInjective(lru)
    /\ Range(lru) = {k \in Keys : ready[k] # None}
    /\ RetainedBytes(lru) <= Retained
    /\ \A k \in Range(lru) : ready[k] \in built /\ ~broken[ready[k]] /\ KeyOf(ready[k]) = k

(* "--media-live-mib bounds every cache-, request-, or runtime-referenced   *)
(* payload", whoever took a reference since the bytes were reserved.        *)
LiveWithinLimit == live <= LiveLimit

(* A prompt has every payload it asked for.                                 *)
PromptsComplete ==
    \A r \in Requests : pc[r] \in {"tokenize", "prompt"} =>
        /\ Len(pending[r]) = Len(Parts[r])
        /\ \A i \in 1..Len(Parts[r]) :
            LET f == pending[r][i].flight IN
            f \in built /\ ~broken[f] /\ KeyOf(f) = Parts[r][i]

(* "A request-level preparation gate ... prevents concurrent partial builds *)
(* from deadlocking the memory account": every preparation ends, also when  *)
(* no deadline passes.                                                      *)
PreparationEnds == <>(\A r \in Requests : ~Preparing(r))
============================================================================
