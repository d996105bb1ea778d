---------------------------- MODULE EngineQueue ----------------------------
(***************************************************************************)
(* The request queue of Exl3EngineCore::Impl and its lanes: submission,    *)
(* cancellation, selection (home lane, L0 code memory, queue deadline),    *)
(* the decode loop's memory gate with its suspended lanes, the failure of  *)
(* one lane, and close.  Two or more lanes (with one there is no admission *)
(* by memory, no home lane and no suspension).                             *)
(*                                                                         *)
(* `mutex` guards all of this state, so each critical section is one step. *)
(* `changed` is the condition variable: a lane that waits on it is woken   *)
(* by a notification or by its timed wait.                                 *)
(***************************************************************************)
EXTENDS Integers, Sequences, FiniteSets, Functions, Subsequences

CONSTANTS
    Requests,    \* the submissions; a client may reuse one once it is done
    Lanes,       \* max_concurrency
    Capacity,    \* queue.capacity(): running and waiting requests
    Memory,      \* units of device memory for L0 codes, the reserve taken off
    Large,       \* the requests whose projected codes take two units, not one
    Unsupported, \* requests with options this route does not run
    Declined,    \* requests submit declines for their sampling or their length
    Homed,       \* the requests that may continue a conversation a lane holds
    Rounds,      \* decode rounds of a request at most
    Cancels, Deadlines, Pressure, Shortage, Faults, Closes, Reuse
                 \* which of these happen

None == "none"

ASSUME ConfigAssumption ==
    /\ IsFiniteSet(Requests) /\ IsFiniteSet(Lanes) /\ Cardinality(Lanes) >= 2
    /\ None \notin Requests \cup Lanes
    /\ Capacity \in Nat \ {0} /\ Memory \in Nat /\ Rounds \in Nat \ {0}
    /\ Large \subseteq Requests /\ Homed \subseteq Requests /\ Unsupported \subseteq Requests
    /\ Declined \subseteq Requests
    /\ {Cancels, Deadlines, Pressure, Shortage, Faults, Closes, Reuse} \subseteq BOOLEAN

VARIABLES
    state,       \* of a request: new, stamped, reserved, queued, active, done, refused
    result,      \* of a done request: ok, cancelled, failure; of a refused one: why
    cancelled,   \* request.cancelled
    cancelling,  \* Request::cancel between the flag and cancel_queued
    due,         \* the queue deadline: no, near (one second to go), past
    home,        \* the lane holding the conversation's history, or None
    stamps,      \* waiting requests in the order of ready_work.submitted()
    queue,       \* queue
    outstanding, \* outstanding
    stopping, failed,
    closed,      \* close has joined the workers
    pc,          \* where a lane's thread is
    active,      \* active[lane]
    admitted,    \* the active lanes in the order of lane_admission
    left,        \* decode rounds left
    awake        \* of a lane waiting on changed: it has been woken

requestVars == <<state, result, cancelled, cancelling, due, home, stamps>>
engineVars == <<queue, outstanding, stopping, failed, closed>>
laneVars == <<pc, active, admitted, left, awake>>
vars == <<requestVars, engineVars, laneVars>>

Init ==
    /\ state = [r \in Requests |-> "new"]
    /\ result = [r \in Requests |-> None]
    /\ cancelled = [r \in Requests |-> FALSE]
    /\ cancelling = [r \in Requests |-> FALSE]
    /\ due = [r \in Requests |-> "no"]
    /\ home = [r \in Requests |-> None]
    /\ stamps = <<>> /\ queue = <<>> /\ outstanding = 0
    /\ stopping = FALSE /\ failed = FALSE /\ closed = FALSE
    /\ pc = [l \in Lanes |-> "wait"]
    /\ active = [l \in Lanes |-> None]
    /\ admitted = <<>>
    /\ left = [l \in Lanes |-> 0]
    /\ awake = [l \in Lanes |-> TRUE]

----------------------------------------------------------------------------
(* The condition variable.                                                 *)

Asleep == {l \in Lanes : pc[l] \in {"wait", "suspended"} /\ ~awake[l]}
notify_all == awake' = [l \in Lanes |-> TRUE]
notify_one ==
    IF Asleep = {} THEN UNCHANGED awake
    ELSE \E l \in Asleep : awake' = [awake EXCEPT ![l] = TRUE]

(* Mutant: only the memory gate's wait is timed.                           *)
TimeoutGateOnly(l) ==
    /\ l \in Asleep /\ pc[l] = "suspended"
    /\ awake' = [awake EXCEPT ![l] = TRUE]
    /\ UNCHANGED <<requestVars, engineVars, pc, active, admitted, left>>

(* The waits are timed: 250 ms in the loop, 100 ms in the memory gate.     *)
timeout(l) ==
    /\ l \in Asleep
    /\ awake' = [awake EXCEPT ![l] = TRUE]
    /\ UNCHANGED <<requestVars, engineVars, pc, active, admitted, left>>

----------------------------------------------------------------------------
(* Admission.                                                              *)

Before(s, a, b) == \E i, j \in DOMAIN s : i < j /\ s[i] = a /\ s[j] = b

lane_suspended(l) == pc[l] \in {"suspending", "suspended", "resuming"}
lane_decoding(l) == pc[l] \in {"gate", "round"} \/ lane_suspended(l)
running_decoders(S) == {l \in S : lane_decoding(l) /\ ~lane_suspended(l)}

request_code_projection(r) == IF r \in Large THEN 2 ELSE 1

CodesOf(S) ==
    LET running == {l \in S : active[l] # None} IN
    Cardinality(running) + Cardinality({l \in running : active[l] \in Large})

l0_codes_fit_alone(r, l) ==
    /\ \A m \in Lanes : ~lane_suspended(m)
    /\ \/ \A m \in Lanes \ {l} : active[m] = None
       \/ CodesOf(Lanes \ {l}) + request_code_projection(r) <= Memory

l0_codes_fit(r, l) ==
    \/ due[r] # "no"
    \/ /\ \A q \in Requests :
            (Before(queue, q, r) /\ ~cancelled[q] /\ Before(stamps, q, r))
                => l0_codes_fit_alone(q, l)
       /\ l0_codes_fit_alone(r, l)

(* A conversation's next turn goes to its home lane unless that is busy.   *)
Eligible(r, l) ==
    /\ ~cancelled[r] /\ active[l] = None
    /\ l0_codes_fit(r, l)
    /\ home[r] \in {None, l} \/ active[home[r]] # None

(* ready_request_locked: the oldest submission eligible for the lane.      *)
ready_request(l) ==
    {r \in Range(queue) : Eligible(r, l) /\
        \A q \in Range(queue) : Eligible(q, l) => ~Before(stamps, q, r)}

----------------------------------------------------------------------------
(* Clients.                                                                *)

(* submit has several refusals before it takes the mutex for the queue.   *)
Refuse(r, why) ==
    /\ state' = [state EXCEPT ![r] = "refused"]
    /\ result' = [result EXCEPT ![r] = why]
    /\ stamps' = Without(stamps, {r})
    /\ UNCHANGED <<cancelled, cancelling, due, home, engineVars, laneVars>>

(* Sampling the device does not do, or a prompt beyond the context.        *)
decline(r) == r \in Declined /\ state[r] = "new" /\ Refuse(r, "invalid")

(* submit takes the time of submission long before it queues the request.  *)
stamp(r) ==
    /\ r \notin Declined /\ state[r] = "new"
    /\ state' = [state EXCEPT ![r] = "stamped"]
    /\ stamps' = Append(stamps, r)
    /\ \E h \in IF r \in Homed THEN Lanes ELSE {None} : home' = [home EXCEPT ![r] = h]
    /\ UNCHANGED <<result, cancelled, cancelling, due, engineVars, laneVars>>

(* submit's first locked section: an engine that is up gives the request a *)
(* generation number, unless the numbers are used up.                      *)
reserve(r) ==
    /\ state[r] = "stamped"
    /\ \/ (stopping \/ failed) /\ Refuse(r, "unavailable")
       \/ ~stopping /\ ~failed /\ Shortage /\ Refuse(r, "shortage")
       \/ /\ ~stopping /\ ~failed
          /\ state' = [state EXCEPT ![r] = "reserved"]
          /\ UNCHANGED <<result, cancelled, cancelling, due, home, stamps, engineVars, laneVars>>

(* Host budget, allocations or a bound of the result's storage fail.       *)
allocate_fails(r) == Shortage /\ state[r] = "reserved" /\ Refuse(r, "shortage")

Complete(S, how) ==
    /\ result' = [r \in Requests |-> IF r \in S THEN how ELSE result[r]]
    /\ stamps' = Without(stamps, S)

(* submit's second locked section: refuse, or release the cancelled        *)
(* waiting requests, then refuse for lack of capacity or queue the request.*)
submit(r) ==
    LET swept == {q \in Range(queue) : cancelled[q]}
        kept == Without(queue, swept)
        after == outstanding - Cardinality(swept)
        Done(q) == IF q \in swept THEN "done" ELSE state[q] IN
    /\ state[r] = "reserved"
    /\ \/ (stopping \/ failed) /\ Refuse(r, "unavailable")
       \/ /\ ~stopping /\ ~failed /\ after >= Capacity
          /\ state' = [q \in Requests |-> IF q = r THEN "refused" ELSE Done(q)]
          /\ result' = [q \in Requests |->
                IF q = r THEN "full" ELSE IF q \in swept THEN "cancelled" ELSE result[q]]
          /\ stamps' = Without(stamps, swept \cup {r})
          /\ queue' = kept /\ outstanding' = after
          /\ UNCHANGED <<cancelled, cancelling, due, home, stopping, failed, closed, laneVars>>
       \/ /\ ~stopping /\ ~failed /\ after < Capacity
          /\ state' = [q \in Requests |-> IF q = r THEN "queued" ELSE Done(q)]
          /\ Complete(swept, "cancelled")
          /\ queue' = Append(kept, r) /\ outstanding' = after + 1
          /\ notify_one
          /\ UNCHANGED <<cancelled, cancelling, due, home, stopping, failed, closed,
                         pc, active, admitted, left>>

(* Request::cancel: the flag first, the queue entry under the mutex later. *)
cancel(r) ==
    /\ Cancels /\ state[r] \in {"queued", "active"} /\ ~cancelled[r]
    /\ cancelled' = [cancelled EXCEPT ![r] = TRUE]
    /\ cancelling' = [cancelling EXCEPT ![r] = TRUE]
    /\ UNCHANGED <<state, result, due, home, stamps, engineVars, laneVars>>

(* Mutant: the queue is not searched for the request.                      *)
CancelUnchecked(r) ==
    /\ cancelling[r]
    /\ cancelling' = [cancelling EXCEPT ![r] = FALSE]
    /\ state' = [state EXCEPT ![r] = "done"]
    /\ Complete({r}, "cancelled")
    /\ queue' = Without(queue, {r}) /\ outstanding' = outstanding - 1
    /\ notify_all
    /\ UNCHANGED <<cancelled, due, home, stopping, failed, closed, pc, active, admitted, left>>

cancel_queued(r) ==
    /\ cancelling[r]
    /\ cancelling' = [cancelling EXCEPT ![r] = FALSE]
    /\ IF r \in Range(queue)
       THEN /\ state' = [state EXCEPT ![r] = "done"]
            /\ Complete({r}, "cancelled")
            /\ queue' = Without(queue, {r}) /\ outstanding' = outstanding - 1
            /\ notify_all
       ELSE UNCHANGED <<state, result, stamps, queue, outstanding, awake>>
    /\ UNCHANGED <<cancelled, due, home, stopping, failed, closed, pc, active, admitted, left>>

(* A client that has its answer, or was refused, submits again.            *)
resubmit(r) ==
    /\ Reuse /\ state[r] \in {"done", "refused"} /\ ~cancelling[r]
    /\ \A l \in Lanes : active[l] # r
    /\ state' = [state EXCEPT ![r] = "new"]
    /\ result' = [result EXCEPT ![r] = None]
    /\ cancelled' = [cancelled EXCEPT ![r] = FALSE]
    /\ due' = [due EXCEPT ![r] = "no"]
    /\ UNCHANGED <<cancelling, home, stamps, engineVars, laneVars>>

(* Time passes for a waiting request. *)
near(r) ==
    /\ Deadlines /\ state[r] = "queued" /\ due[r] = "no"
    /\ due' = [due EXCEPT ![r] = "near"]
    /\ UNCHANGED <<state, result, cancelled, cancelling, home, stamps, engineVars, laneVars>>

past(r) ==
    /\ state[r] = "queued" /\ due[r] = "near"
    /\ due' = [due EXCEPT ![r] = "past"]
    /\ UNCHANGED <<state, result, cancelled, cancelling, home, stamps, engineVars, laneVars>>

----------------------------------------------------------------------------
(* A lane.                                                                 *)

(* Selection: the request leaves the queue for the lane.  The history the  *)
(* lane held for other requests may go with it.                            *)
take(l, r) ==
    /\ state' = [state EXCEPT ![r] = "active"]
    /\ queue' = Without(queue, {r})
    /\ stamps' = Without(stamps, {r})
    /\ active' = [active EXCEPT ![l] = r]
    /\ admitted' = Append(admitted, l)
    /\ pc' = [pc EXCEPT ![l] = "taken"]
    /\ \E keeps \in BOOLEAN :
        home' = [q \in Requests |-> IF home[q] = l /\ ~keeps THEN None ELSE home[q]]
    /\ notify_all
    /\ UNCHANGED <<result, cancelled, cancelling, due, outstanding, stopping, failed, closed, left>>

(* Mutant: a stopping lane takes only what is eligible.                    *)
LookSkipsCancelled(l) ==
    /\ pc[l] = "wait" /\ awake[l]
    /\ \/ \E r \in ready_request(l) : take(l, r)
       \/ /\ stopping /\ queue = <<>>
          /\ pc' = [pc EXCEPT ![l] = "exited"]
          /\ UNCHANGED <<requestVars, engineVars, active, admitted, left, awake>>
       \/ /\ queue # <<>> \/ ~stopping
          /\ ready_request(l) = {}
          /\ awake' = [awake EXCEPT ![l] = FALSE]
          /\ UNCHANGED <<requestVars, engineVars, pc, active, admitted, left>>

(* A woken lane looks at the queue; when stopping it takes the first entry *)
(* though none is eligible, and leaves when there is none.                 *)
look(l) ==
    /\ pc[l] = "wait" /\ awake[l]
    /\ \/ \E r \in ready_request(l) : take(l, r)
       \/ stopping /\ queue # <<>> /\ ready_request(l) = {} /\ take(l, Head(queue))
       \/ /\ stopping /\ queue = <<>>
          /\ pc' = [pc EXCEPT ![l] = "exited"]
          /\ UNCHANGED <<requestVars, engineVars, active, admitted, left, awake>>
       \/ /\ ~stopping /\ ready_request(l) = {}
          /\ awake' = [awake EXCEPT ![l] = FALSE]
          /\ UNCHANGED <<requestVars, engineVars, pc, active, admitted, left>>

(* The request's run is over; its outcome is kept until it is published.   *)
End(l, how) ==
    /\ pc' = [pc EXCEPT ![l] = "finishing"]
    /\ result' = [result EXCEPT ![active[l]] = how]
    /\ IF lane_decoding(l) THEN notify_all ELSE UNCHANGED awake
    /\ UNCHANGED <<state, cancelled, cancelling, due, home, stamps, engineVars,
                   active, admitted, left>>

start(l) ==
    LET r == active[l] IN
    /\ pc[l] = "taken"
    /\ \/ cancelled[r] /\ End(l, "cancelled")
       \/ ~cancelled[r] /\ r \notin Unsupported /\ due[r] = "past" /\ End(l, "failure")
       \/ /\ ~cancelled[r] /\ r \notin Unsupported /\ due[r] # "past"
          /\ pc' = [pc EXCEPT ![l] = "prefill"]
          /\ UNCHANGED <<requestVars, engineVars, active, admitted, left, awake>>

(* An exception unwinds the run: the lane decodes no longer.               *)
Throw(l) ==
    /\ pc' = [pc EXCEPT ![l] = "caught"]
    /\ IF lane_decoding(l) THEN notify_all ELSE UNCHANGED awake
    /\ UNCHANGED <<requestVars, engineVars, active, admitted, left>>

(* The prompt is ingested, unless the request is cancelled or refused there. *)
prefill(l) ==
    /\ pc[l] = "prefill"
    /\ \/ cancelled[active[l]] /\ End(l, "cancelled")
       \/ Throw(l)
       \/ /\ pc' = [pc EXCEPT ![l] = "gate"]
          /\ left' = [left EXCEPT ![l] = Rounds]
          /\ UNCHANGED <<requestVars, engineVars, active, admitted, awake>>

(* Mutant: a lone decoder suspends too.                                    *)
VictimAlone(l) == \A m \in running_decoders(Lanes) : ~Before(admitted, l, m)

(* l0_memory_gate: with too little memory the youngest of two or more      *)
(* running decoders suspends.  Memory as the lane last saw it is an input. *)
Victim(l) ==
    /\ running_decoders(Lanes) # {l}
    /\ \A m \in running_decoders(Lanes) : ~Before(admitted, l, m)

gate(l) ==
    LET r == active[l] IN
    /\ pc[l] = "gate"
    /\ \/ cancelled[r] /\ End(l, "cancelled")
       \/ ~cancelled[r] /\ left[l] = 0 /\ End(l, "ok")
       \/ /\ ~cancelled[r] /\ left[l] > 0
          /\ \/ pc' = [pc EXCEPT ![l] = "round"]
             \/ Pressure /\ Victim(l) /\ pc' = [pc EXCEPT ![l] = "suspending"]
          /\ UNCHANGED <<requestVars, engineVars, active, admitted, left, awake>>

(* The codes have moved to host memory. *)
suspend(l) ==
    /\ pc[l] = "suspending"
    /\ pc' = [pc EXCEPT ![l] = "suspended"]
    /\ notify_all
    /\ UNCHANGED <<requestVars, engineVars, active, admitted, left>>

(* It resumes when stopped or cancelled, or, oldest suspended lane first,  *)
(* when no other lane decodes or its codes fit again.                      *)
MustResume(l) ==
    \/ stopping \/ cancelled[active[l]]
    \/ /\ \A m \in Lanes : lane_suspended(m) => ~Before(admitted, m, l)
       /\ running_decoders(Lanes \ {l}) = {}

MayResume(l) ==
    MustResume(l) \/ \A m \in Lanes : lane_suspended(m) => ~Before(admitted, m, l)

resume(l) ==
    /\ pc[l] = "suspended" /\ awake[l]
    /\ \/ MayResume(l) /\ pc' = [pc EXCEPT ![l] = "resuming"] /\ UNCHANGED awake
       \/ ~MustResume(l) /\ awake' = [awake EXCEPT ![l] = FALSE] /\ UNCHANGED pc
    /\ UNCHANGED <<requestVars, engineVars, active, admitted, left>>

resumed(l) ==
    /\ pc[l] = "resuming"
    /\ pc' = [pc EXCEPT ![l] = "round"]
    /\ notify_all
    /\ UNCHANGED <<requestVars, engineVars, active, admitted, left>>

(* A round publishes tokens; the output may end with it.                   *)
round(l) ==
    /\ pc[l] = "round"
    /\ pc' = [pc EXCEPT ![l] = "gate"]
    /\ left' \in {[left EXCEPT ![l] = n] : n \in {0, left[l] - 1}}
    /\ UNCHANGED <<requestVars, engineVars, active, admitted, awake>>

fail(l) == Faults /\ pc[l] \in {"round", "suspending", "resuming"} /\ Throw(l)

(* execute_coherent_device throws on options it does not run.              *)
reject(l) ==
    /\ pc[l] = "taken" /\ ~cancelled[active[l]] /\ active[l] \in Unsupported
    /\ pc' = [pc EXCEPT ![l] = "thrown"]
    /\ UNCHANGED <<requestVars, engineVars, active, admitted, left, awake>>

(* The handler of the run: without a clean cancellation the engine fails,  *)
(* in a critical section of its own.  The lane then takes a RequestError   *)
(* (memory that ran out after a clean cancellation is one) as the outcome  *)
(* of its request; anything else goes on to drain.                         *)
caught(l) ==
    /\ pc[l] = "caught"
    /\ failed' \in {failed, failed \/ Faults}
    /\ \/ Faults /\ pc' = [pc EXCEPT ![l] = "thrown"] /\ UNCHANGED result
       \/ /\ pc' = [pc EXCEPT ![l] = "finishing"]
          /\ \E how \in {"cancelled", "failure"} :
                /\ how = "cancelled" => cancelled[active[l]]
                /\ result' = [result EXCEPT ![active[l]] = how]
    /\ UNCHANGED <<state, cancelled, cancelling, due, home, stamps, queue, outstanding,
                   stopping, closed, active, admitted, left, awake>>

(* Mutant: the waiting requests are cancelled but left in the queue.       *)
DrainLeavesQueue(l) ==
    /\ pc[l] = "thrown"
    /\ failed' = TRUE
    /\ pc' = [pc EXCEPT ![l] = "finishing"]
    /\ result' = [result EXCEPT ![active[l]] = "failure"]
    /\ cancelled' = [r \in Requests |->
        cancelled[r] \/ r \in Range(queue) \/ \E m \in Lanes \ {l} : active[m] = r]
    /\ UNCHANGED <<state, stamps, queue, outstanding, cancelling, due, home, stopping, closed,
                   active, admitted, left, awake>>

(* The lane's handler of every other exception: the engine fails, peers    *)
(* are cancelled, and the waiting requests are completed here.             *)
drain(l) ==
    LET waiting == Range(queue) IN
    /\ pc[l] = "thrown"
    /\ failed' = TRUE
    /\ pc' = [pc EXCEPT ![l] = "finishing"]
    /\ Complete(waiting \cup {active[l]}, "failure")
    /\ state' = [r \in Requests |-> IF r \in waiting THEN "done" ELSE state[r]]
    /\ cancelled' = [r \in Requests |->
        cancelled[r] \/ r \in waiting \/ \E m \in Lanes \ {l} : active[m] = r]
    /\ queue' = <<>>
    /\ outstanding' = outstanding - Len(queue)
    /\ UNCHANGED <<cancelling, due, home, stopping, closed, active, admitted, left, awake>>

(* The client may see the result before the lane gives its place back.     *)
complete(l) ==
    /\ pc[l] = "finishing"
    /\ state' = [state EXCEPT ![active[l]] = "done"]
    /\ pc' = [pc EXCEPT ![l] = "releasing"]
    /\ UNCHANGED <<result, cancelled, cancelling, due, home, stamps, engineVars,
                   active, admitted, left, awake>>

(* Mutant: the lane does not give its place back.                          *)
ReleaseKeepsPlace(l) ==
    /\ pc[l] = "releasing"
    /\ active' = [active EXCEPT ![l] = None]
    /\ admitted' = Without(admitted, {l})
    /\ pc' = [pc EXCEPT ![l] = "wait"]
    /\ notify_all
    /\ UNCHANGED <<requestVars, queue, outstanding, stopping, failed, closed, left>>

release(l) ==
    /\ pc[l] = "releasing"
    /\ active' = [active EXCEPT ![l] = None]
    /\ admitted' = Without(admitted, {l})
    /\ outstanding' = outstanding - 1
    /\ pc' = [pc EXCEPT ![l] = "wait"]
    /\ notify_all
    /\ UNCHANGED <<requestVars, queue, stopping, failed, closed, left>>

(* close: stop, cancel everything, join the workers.                       *)
close ==
    /\ Closes /\ ~stopping
    /\ stopping' = TRUE
    /\ cancelled' = [r \in Requests |->
        cancelled[r] \/ r \in Range(queue) \/ \E l \in Lanes : active[l] = r]
    /\ notify_all
    /\ UNCHANGED <<state, result, cancelling, due, home, stamps, queue, outstanding,
                   failed, closed, pc, active, admitted, left>>

join ==
    /\ stopping /\ ~closed /\ \A l \in Lanes : pc[l] = "exited"
    /\ closed' = TRUE
    /\ UNCHANGED <<requestVars, queue, outstanding, stopping, failed, laneVars>>

rest == closed /\ UNCHANGED vars

LaneStep(l) ==
    \/ look(l) \/ start(l) \/ prefill(l) \/ gate(l) \/ suspend(l) \/ resume(l)
    \/ resumed(l) \/ round(l) \/ reject(l) \/ caught(l) \/ drain(l) \/ complete(l) \/ release(l)

Next ==
    \/ \E r \in Requests :
        \/ decline(r) \/ stamp(r) \/ reserve(r) \/ allocate_fails(r) \/ submit(r)
        \/ cancel(r) \/ cancel_queued(r) \/ resubmit(r)
        \/ near(r) \/ past(r)
    \/ \E l \in Lanes : LaneStep(l) \/ fail(l) \/ timeout(l)
    \/ close \/ join \/ rest

Fairness ==
    /\ \A l \in Lanes : WF_vars(LaneStep(l)) /\ WF_vars(timeout(l))
    /\ \A r \in Requests : WF_vars(cancel_queued(r)) /\ WF_vars(near(r))
    /\ WF_vars(join)

Spec == Init /\ [][Next]_vars /\ Fairness

----------------------------------------------------------------------------
(* Properties.                                                             *)

Accepted == {r \in Requests : state[r] \in {"queued", "active"}}

(* `outstanding` counts the queue and the lanes, whatever mix of           *)
(* completions, cancellations, sweeps and failures brought it there.       *)
OutstandingExact ==
    outstanding = Len(queue) + Cardinality({l \in Lanes : active[l] # None})

(* Lanes skip cancelled entries of the queue and a failed engine sweeps    *)
(* none ("nothing else would release them"): whatever fails or is          *)
(* cancelled, a cancelled entry has its canceller or a stopping lane to    *)
(* release it, and close returns with every accepted request complete and  *)
(* every place given back.                                                 *)
NoneStranded ==
    /\ \A r \in Range(queue) : cancelled[r] => cancelling[r] \/ stopping
    /\ closed => (Accepted = {} /\ outstanding = 0)

(* "The oldest decoding lane never suspends": a lane that suspends leaves  *)
(* an older one running.                                                   *)
OldestNeverSuspends ==
    [][\A l \in Lanes : (~lane_suspended(l) /\ lane_suspended(l)') =>
        \E m \in Lanes : lane_decoding(m)' /\ ~lane_suspended(m)' /\ Before(admitted, m, l)]_vars

(* l0_codes_fit lets a request about to reach its deadline run beside a     *)
(* suspended lane, and that lane may resume only once nobody else decodes. *)
Overtaken(r) ==
    \E l, m \in Lanes :
        /\ active[l] = r /\ lane_suspended(l) /\ Before(admitted, l, m)
        /\ due[active[m]] # "no"

(* Every accepted request is answered, however many arrive behind it, for  *)
(* all the waits for codes, home lanes and memory; only requests admitted  *)
(* on their deadline while it is suspended can hold it up.                 *)
EveryRequestEnds ==
    \A r \in Requests : (state[r] = "queued") ~> (state[r] = "done" \/ Overtaken(r))

(* close returns. *)
CloseReturns == stopping ~> closed

(* "Parsed by CLI/server, refused at submission": options the engine does  *)
(* not run cost their own request only; without a fault no engine fails.   *)
NoFailureWithoutFault == failed => Faults

(* What a client sees of this state, in the terms of RequestLife.          *)
life == [r \in Requests |->
    CASE state[r] \in {"new", "stamped", "reserved"} -> "out"
      [] state[r] \in {"queued", "active"} -> "accepted"
      [] state[r] = "done" -> "answered"
      [] OTHER -> "refused"]
answer == [r \in Requests |-> IF state[r] \in {"done", "refused"} THEN result[r] ELSE None]
places == Range(queue) \cup {active[l] : l \in {m \in Lanes : active[m] # None}}
up == ~failed /\ ~stopping

Life == INSTANCE RequestLife WITH Answers <- {"ok", "cancelled", "failure"}

(* Whatever the queue, the lanes, cancellations, failures and close do, a  *)
(* client sees what RequestLife says: one of Capacity places while it is   *)
(* accepted, one answer that stays, and a refusal whose reason is true:    *)
(* what it asks for is not done, the engine is down, every place is taken  *)
(* or something else of the host ran out.                                  *)
ImplementsLife == Life!LifeSpec
============================================================================
