------------------------ MODULE EngineQueueTheorems ------------------------
(***************************************************************************)
(* For any number of requests and lanes: outstanding is exact, no request  *)
(* is stranded, the oldest decoding lane never suspends, and the engine    *)
(* implements RequestLife.                                                 *)
(***************************************************************************)
EXTENDS EngineQueueProofs, SubsequencesProofs

-----------------------------------------------------------------------------
(* Who releases a cancelled request.                                       *)

(* A cancelled request that waits has its canceller still under way or an  *)
(* engine that stops; one that is not accepted is not cancelled; and what  *)
(* submit declines goes nowhere.                                           *)
ClientOf(r) ==
    /\ state[r] = "queued" /\ cancelled[r] => cancelling[r] \/ stopping
    /\ state[r] \in {"new", "stamped", "reserved", "refused"} => ~cancelled[r]
    /\ r \in Declined => state[r] \in {"new", "refused"}

ClientOK == \A r \in Requests : ClientOf(r)

(* The engine starts with no cancellation.                                 *)
LEMMA ClientInit == Init => ClientOK
  BY DEF Init, ClientOK, ClientOf

(* A step that leaves a request and its cancellation alone.                *)
LEMMA ClientKept ==
  ASSUME ClientOK, NEW r \in Requests, stopping => stopping',
         state'[r] = state[r], cancelled'[r] = cancelled[r], cancelling'[r] = cancelling[r]
  PROVE  ClientOf(r)'
  BY Zenon DEF ClientOK, ClientOf

(* submit: a request enters the queue with no cancellation.                *)
LEMMA SubmitClient ==
  ASSUME IInv, ClientOK, NEW r \in Requests,
         decline(r) \/ stamp(r) \/ reserve(r) \/ allocate_fails(r) \/ submit(r)
  PROVE  ClientOK'
  <1>1. TypeOK /\ ClientOf(r)
    BY DEF IInv, ClientOK
  <1>2. UNCHANGED <<cancelled, cancelling, stopping>>
    BY Zenon DEF decline, stamp, reserve, allocate_fails, submit, Refuse, engineVars
  <1>3. \A q \in Requests : q # r => state'[q] = state[q] \/ (state[q] = "queued" /\ state'[q] = "done")
    <2>1. \A q \in Range(queue) : q \in Requests /\ state[q] = "queued"
      BY Zenon DEF IInv, QueueOK, Queued
    <2>2. CASE \E as : state' = [state EXCEPT ![r] = as]
      BY <1>1, <2>2 DEF TypeOK
    <2>3. CASE submit(r)
      BY <1>1, <2>1, <2>2, <2>3, ZenonT(60) DEF submit, Refuse
    <2> QED
      BY <2>2, <2>3, Zenon DEF decline, stamp, reserve, allocate_fails, Refuse
  <1>4. /\ state[r] \in {"new", "stamped", "reserved"}
        /\ state'[r] \in {"stamped", "reserved", "queued", "refused"}
        /\ r \in Declined => state'[r] = "refused"
    <2>1. CASE decline(r) \/ stamp(r)
      BY <1>1, <2>1 DEF decline, stamp, Refuse, TypeOK
    <2>2. CASE reserve(r) \/ allocate_fails(r)
      BY <1>1, <2>2, ZenonT(60) DEF reserve, allocate_fails, Refuse, TypeOK, ClientOf
    <2>3. CASE submit(r)
      BY <1>1, <2>3, ZenonT(60) DEF submit, Refuse, TypeOK, ClientOf
    <2> QED
      BY <2>1, <2>2, <2>3, Zenon
  <1>5. ASSUME NEW q \in Requests PROVE ClientOf(q)'
    <2>1. CASE q = r
      BY <1>1, <1>2, <1>4, <2>1, ZenonT(60) DEF ClientOf
    <2>2. CASE q # r
      BY <1>2, <1>3, <2>2, ZenonT(60) DEF ClientOK, ClientOf
    <2> QED
      BY <2>1, <2>2
  <1> QED
    BY <1>5 DEF ClientOK

(* A cancellation is under way from its flag to its look at the queue.     *)
LEMMA CancelClient ==
  ASSUME IInv, ClientOK, NEW r \in Requests,
         cancel(r) \/ cancel_queued(r) \/ resubmit(r) \/ near(r) \/ past(r)
  PROVE  ClientOK'
  <1>1. TypeOK /\ ClientOf(r) /\ UNCHANGED stopping
    BY Zenon DEF IInv, ClientOK, cancel, cancel_queued, resubmit, near, past, engineVars
  <1>2. \A q \in Requests : q # r =>
            state'[q] = state[q] /\ cancelled'[q] = cancelled[q] /\ cancelling'[q] = cancelling[q]
    <2>1. CASE cancel(r) \/ near(r) \/ past(r)
      BY <1>1, <2>1 DEF cancel, near, past, TypeOK
    <2>2. CASE cancel_queued(r)
      BY <1>1, <2>2 DEF cancel_queued, TypeOK
    <2>3. CASE resubmit(r)
      BY <1>1, <2>3 DEF resubmit, TypeOK
    <2> QED
      BY <2>1, <2>2, <2>3
  <1>3. ClientOf(r)'
    <2>1. CASE cancel(r)
      BY <1>1, <2>1 DEF cancel, TypeOK, ClientOf
    <2>2. CASE cancel_queued(r)
      <3>1. r \in Range(queue) <=> state[r] = "queued"
        BY Zenon DEF IInv, QueueOK, Queued
      <3> QED
        BY <1>1, <2>2, <3>1 DEF cancel_queued, TypeOK, ClientOf
    <2>3. CASE resubmit(r)
      BY <1>1, <2>3 DEF resubmit, TypeOK, ClientOf
    <2>4. CASE near(r) \/ past(r)
      BY <1>1, <2>4 DEF near, past, ClientOf
    <2> QED
      BY <2>1, <2>2, <2>3, <2>4
  <1> QED
    BY <1>1, <1>2, <1>3, ClientKept, ZenonT(60) DEF ClientOK

(* What a lane takes, completes or drains waits no longer.                 *)
LEMMA LaneClient ==
  ASSUME IInv, ClientOK, NEW l \in Lanes, LaneStep(l) \/ fail(l) \/ timeout(l)
  PROVE  ClientOK'
  <1>1. TypeOK
    BY DEF IInv
  <1>2. CASE UNCHANGED <<state, cancelled, cancelling, stopping>>
    BY <1>2, ClientKept, Zenon DEF ClientOK
  <1>3. ASSUME NEW r \in Range(queue), take(l, r) PROVE ClientOK'
    <2>1. r \in Requests /\ state[r] = "queued" /\ UNCHANGED <<cancelled, cancelling, stopping>>
      BY <1>3, ZenonT(60) DEF IInv, QueueOK, Queued, take
    <2>2. state'[r] = "active" /\ \A q \in Requests : q # r => state'[q] = state[q]
      BY <1>1, <1>3, <2>1 DEF take, TypeOK
    <2>3. ClientOf(r)'
      BY <2>1, <2>2, Zenon DEF ClientOK, ClientOf
    <2> QED
      BY <2>1, <2>2, <2>3, ClientKept, ZenonT(60) DEF ClientOK
  <1>4. ASSUME complete(l) PROVE ClientOK'
    <2>1. PICK r \in Requests : r = active[l] /\ state[r] = "active"
      BY <1>4, HasRequest, ZenonT(60) DEF IInv, LanesOK, complete, Busy, Ended
    <2>2. UNCHANGED <<cancelled, cancelling, stopping>>
      BY <1>4, Zenon DEF complete, engineVars
    <2>3. state'[r] = "done" /\ \A q \in Requests : q # r => state'[q] = state[q]
      BY <1>1, <1>4, <2>1 DEF complete, TypeOK
    <2>4. ClientOf(r)'
      BY <2>1, <2>3, Zenon DEF ClientOK, ClientOf
    <2> QED
      BY <2>2, <2>3, <2>4, ClientKept, ZenonT(60) DEF ClientOK
  <1>5. ASSUME drain(l) PROVE ClientOK'
    <2>1. ASSUME NEW q \in Requests PROVE ClientOf(q)'
      <3>1. UNCHANGED <<cancelling, stopping>>
        BY <1>5, Zenon DEF drain
      <3>2. q \in Range(queue) <=> state[q] = "queued"
        BY Zenon DEF IInv, QueueOK, Queued
      <3>3. state'[q] = IF q \in Range(queue) THEN "done" ELSE state[q]
        BY <1>5, ZenonT(60) DEF drain
      <3>4. \A m \in Lanes : active[m] = q => state[q] \in {"active", "done"}
        BY ConfigAssumption, ZenonT(60) DEF IInv, LanesOK
      <3>5. cancelled'[q] = (cancelled[q] \/ q \in Range(queue) \/ \E m \in Lanes \ {l} : active[m] = q)
        BY <1>5, ZenonT(60) DEF drain
      <3>6. ClientOf(q)
        BY Zenon DEF ClientOK
      <3>7. CASE q \in Range(queue)
        BY <3>2, <3>3, <3>6, <3>7, ZenonT(60) DEF ClientOf
      <3>8. CASE q \notin Range(queue)
        BY <3>1, <3>2, <3>3, <3>4, <3>5, <3>6, <3>8, ZenonT(60) DEF ClientOf
      <3> QED
        BY <3>7, <3>8
    <2> QED
      BY <2>1 DEF ClientOK
  <1>6. ASSUME look(l) PROVE ClientOK'
    <2>1. CASE \E r \in ready_request(l) : take(l, r)
      BY <1>3, <2>1 DEF ready_request
    <2>2. CASE queue # <<>> /\ take(l, Head(queue))
      BY <1>1, <1>3, <2>2, ElementsOf, ListFactsHold DEF TypeOK
    <2>3. CASE UNCHANGED <<requestVars, engineVars>>
      BY <1>2, <2>3, Zenon DEF requestVars, engineVars
    <2> QED
      BY <1>6, <2>1, <2>2, <2>3, ZenonT(60) DEF look
  <1>7. ASSUME \/ start(l) \/ prefill(l) \/ gate(l) \/ suspend(l) \/ resume(l) \/ resumed(l)
               \/ round(l) \/ reject(l) \/ release(l) \/ caught(l) \/ fail(l) \/ timeout(l)
        PROVE  UNCHANGED <<state, cancelled, cancelling, stopping>>
    <2>1. CASE start(l) \/ prefill(l) \/ gate(l) \/ caught(l)
      BY <2>1, ZenonT(60) DEF start, prefill, gate, caught, End, Throw, requestVars, engineVars
    <2>2. CASE suspend(l) \/ resume(l) \/ resumed(l) \/ round(l)
      BY <2>2, ZenonT(60) DEF suspend, resume, resumed, round, requestVars, engineVars
    <2>3. CASE reject(l) \/ release(l) \/ fail(l) \/ timeout(l)
      BY <2>3, ZenonT(60) DEF reject, release, fail, Throw, timeout, requestVars, engineVars
    <2> QED
      BY <1>7, <2>1, <2>2, <2>3, Zenon
  <1> QED
    BY <1>2, <1>4, <1>5, <1>6, <1>7, Zenon DEF LaneStep

(* Every step keeps it.                                                    *)
LEMMA ClientStep == IInv /\ ClientOK /\ [Next]_vars => ClientOK'
  <1> SUFFICES ASSUME IInv, ClientOK, [Next]_vars PROVE ClientOK'
    OBVIOUS
  <1>1. CASE UNCHANGED <<state, cancelled, cancelling>> /\ (stopping => stopping')
    BY <1>1, ClientKept, Zenon DEF ClientOK
  <1>2. CASE join \/ rest \/ UNCHANGED vars
    <2>1. UNCHANGED <<state, cancelled, cancelling, stopping>>
      BY <1>2 DEF join, rest, vars, requestVars, engineVars
    <2> QED
      BY <1>1, <2>1, Zenon
  <1>3. CASE close
    <2>1. stopping' = TRUE /\ UNCHANGED <<state, cancelling>>
      BY <1>3, Zenon DEF close
    <2>2. ASSUME NEW q \in Requests PROVE ClientOf(q)'
      <3>1. q \in Range(queue) <=> state[q] = "queued"
        BY Zenon DEF IInv, QueueOK, Queued
      <3>2. \A m \in Lanes : active[m] = q => state[q] \in {"active", "done"}
        BY ConfigAssumption, ZenonT(60) DEF IInv, LanesOK
      <3>3. cancelled'[q] => cancelled[q] \/ q \in Range(queue) \/ \E m \in Lanes : active[m] = q
        BY <1>3, ZenonT(60) DEF close
      <3> QED
        BY <2>1, <3>1, <3>2, <3>3, ZenonT(60) DEF ClientOK, ClientOf
    <2> QED
      BY <2>2 DEF ClientOK
  <1> QED
    BY <1>2, <1>3, SubmitClient, CancelClient, LaneClient, ZenonT(60) DEF Next

-----------------------------------------------------------------------------
(* The engine implements RequestLife.                                      *)

(* What a client sees of a request, by its state.                          *)
LEMMA LifeOf ==
  ASSUME TypeOK, NEW r \in Requests
  PROVE  /\ state[r] \in {"new", "stamped", "reserved"} => life[r] = "out"
         /\ state[r] \in {"queued", "active"} => life[r] = "accepted"
         /\ state[r] = "done" => life[r] = "answered"
         /\ state[r] = "refused" => life[r] = "refused"
         /\ answer[r] = IF state[r] \in {"done", "refused"} THEN result[r] ELSE None
  BY DEF life, answer, TypeOK

(* The accepted requests of RequestLife are those that wait or run.        *)
LEMMA AcceptedOf ==
  ASSUME TypeOK
  PROVE  Life!Accepted = {r \in Requests : state[r] \in {"queued", "active"}}
  <1>1. \A r \in Requests : life[r] = "accepted" <=> state[r] \in {"queued", "active"}
    <2> SUFFICES ASSUME NEW r \in Requests
                 PROVE  life[r] = "accepted" <=> state[r] \in {"queued", "active"}
      OBVIOUS
    <2>1. state[r] \in {"new", "stamped", "reserved", "queued", "active", "done", "refused"}
      BY DEF TypeOK
    <2> QED
      BY <2>1, LifeOf
  <1> QED
    BY <1>1 DEF Life!Accepted

PlacesExact ==
  /\ places \subseteq Requests
  /\ \A r \in Requests : r \in places <=> state[r] = "queued" \/ \E l \in Lanes : active[l] = r
  /\ IsFiniteSet(places)
  /\ Cardinality(places) = outstanding

(* The places are counted by outstanding, and exactly the waiting          *)
(* requests and those a lane has hold one.                                 *)
LEMMA PlacesOf ==
  ASSUME ListFacts
  PROVE  IInv => PlacesExact
  <1> SUFFICES ASSUME IInv PROVE PlacesExact
    OBVIOUS
  <1> DEFINE Held == {active[l] : l \in Occupied}
  <1>1. places = Queued \cup Held
    BY DEF places, IInv, QueueOK, Occupied
  <1>2. Queued \subseteq Requests /\ Held \subseteq Requests
    BY DEF Queued, Occupied, IInv, TypeOK
  <1>3. \A r \in Requests : r \in Held <=> \E l \in Lanes : active[l] = r
    BY ConfigAssumption, ZenonT(60) DEF Occupied
  <1>4. Queued \cap Held = {}
    BY <1>3, ZenonT(60) DEF Queued, Occupied, IInv, LanesOK
  <1>5. IsFiniteSet(Queued) /\ IsFiniteSet(Held)
    BY <1>2, ConfigAssumption, CardSubset
  <1>6. Cardinality(Held) = Cardinality(Occupied)
    <2> DEFINE f == [l \in Occupied |-> active[l]]
    <2>1. f \in Bijection(Occupied, Held)
      <3>1. f \in [Occupied -> Held]
        OBVIOUS
      <3>2. \A a, b \in Occupied : f[a] = f[b] => a = b
        BY Zenon DEF Occupied, IInv, LanesOK
      <3>3. \A t \in Held : \E l \in Occupied : f[l] = t
        OBVIOUS
      <3>4. DOMAIN f = Occupied
        OBVIOUS
      <3> HIDE DEF f, Held
      <3> QED
        BY <3>1, <3>2, <3>3, <3>4 DEF Bijection, Injection, Surjection, IsInjective
    <2> HIDE DEF f, Held
    <2> QED
      BY <2>1, Finite, CardBijection DEF ExistsBijection
  <1> HIDE DEF Held
  <1>7. Cardinality(places) = Cardinality(Queued) + Cardinality(Held) - Cardinality(Queued \cap Held)
    BY <1>1, <1>5, CardUnion
  <1>8. Cardinality(places) = Cardinality(Queued) + Cardinality(Occupied)
    <2>1. Cardinality(Queued \cap Held) = 0
      BY <1>4, CardEmpty
    <2>2. Cardinality(Queued) \in Nat /\ Cardinality(Held) \in Nat
      BY <1>5, CardType
    <2> QED
      BY <1>6, <1>7, <2>1, <2>2
  <1>9. IsFiniteSet(places)
    BY <1>1, <1>5, CardUnion, ZenonT(60)
  <1>10. \A r \in Requests : r \in Queued <=> state[r] = "queued"
    BY DEF Queued
  <1>11. Cardinality(places) = outstanding
    BY <1>8 DEF IInv, CountOK
  <1> QED
    BY <1>1, <1>2, <1>3, <1>9, <1>10, <1>11 DEF PlacesExact

(* The same after a step.                                                  *)
LEMMA PlacesNext ==
  ASSUME ListFacts
  PROVE  IInv' => PlacesExact'
  BY PlacesOf, PTL

(* What no client sees.                                                    *)
LEMMA Unseen ==
  ASSUME ListFacts, IInv, IInv',
         \A r \in Requests : \/ state'[r] = state[r]
                             \/ {state[r], state'[r]} \subseteq {"new", "stamped", "reserved"}
                             \/ {state[r], state'[r]} \subseteq {"queued", "active"},
         \A r \in Requests : state'[r] \in {"done", "refused"} => result'[r] = result[r],
         \A r \in Requests : r \in places' <=> r \in places,
         up' <=> up
  PROVE  UNCHANGED Life!lifeVars
  <1>1. TypeOK /\ TypeOK'
    BY DEF IInv
  <1>2. life' = life
    BY <1>1 DEF life, TypeOK
  <1>3. answer' = answer
    BY <1>1, ZenonT(60) DEF answer, TypeOK
  <1>4. places' = places
    BY PlacesOf, PlacesNext, ZenonT(60) DEF PlacesExact
  <1>5. up' = up
    BY ZenonT(60) DEF up
  <1> QED
    BY <1>2, <1>3, <1>4, <1>5 DEF Life!lifeVars

(* RequestLife counts as the engine does.                                  *)
LEMMA SameCount ==
  ASSUME NEW S
  PROVE  Life!Cardinality(S) = Cardinality(S)
  BY DEF Life!Cardinality, Cardinality

(* Of the requests Q those of S are answered and no other.                 *)
LEMMA AnsweredBy ==
  ASSUME IInv, IInv', NEW S \in SUBSET Accepted, NEW Q \in SUBSET Requests,
         \A r \in S : state'[r] = "done",
         \A r \in Q \ S : /\ state'[r] \in {"done", "refused"} <=> state[r] \in {"done", "refused"}
                          /\ state[r] \in {"done", "refused"} => result'[r] = result[r]
  PROVE  S \in SUBSET Life!Accepted /\ Life!Answered(S, Q)
  <1>1. TypeOK /\ TypeOK' /\ S \subseteq Requests
    BY DEF IInv, Accepted
  <1>2. S \subseteq Life!Accepted
    BY <1>1, AcceptedOf DEF Accepted
  <1>3. answer' \in [Requests -> Endings \cup Refusals \cup {None}]
    BY <1>1 DEF answer, TypeOK
  <1>4. ASSUME NEW r \in S PROVE answer'[r] \in Endings
    <2>1. r \in Requests /\ state'[r] = "done"
      BY <1>1
    <2>2. answer'[r] = result'[r]
      BY <2>1 DEF answer
    <2> QED
      BY <2>1, <2>2 DEF IInv, AnswersOK
  <1>5. ASSUME NEW r \in Q, r \notin S PROVE answer'[r] = answer[r]
    BY <1>5 DEF answer
  <1>6. Life!None = None /\ Life!Reasons = Refusals
    BY DEF Life!None, None, Life!Reasons, Refusals
  <1> QED
    BY <1>2, <1>3, <1>4, <1>5, <1>6, ZenonT(60) DEF Life!Answered, Endings

(* Requests are answered, of which W waited and leave their places.        *)
LEMMA AnswerStep ==
  ASSUME ListFacts, IInv, IInv', NEW S \in SUBSET Accepted, NEW W \in SUBSET S,
         \A r \in S : state'[r] = "done",
         \A r \in Requests \ S : /\ state'[r] = state[r]
                                 /\ state[r] \in {"done", "refused"} => result'[r] = result[r],
         \A r \in Requests : r \in places' <=> r \in places /\ r \notin W,
         up' => up
  PROVE  Life!Answer
  <1>1. TypeOK /\ TypeOK'
    BY ZenonT(60) DEF IInv
  <1>2. S \in SUBSET Life!Accepted /\ Life!Answered(S, Requests)
    <2>1. PICK Q \in SUBSET Requests : Q = Requests
      BY Zenon
    <2> QED
      BY <2>1, AnsweredBy, ZenonT(60)
  <1>3. life' = [r \in Requests |-> IF r \in S THEN "answered" ELSE life[r]]
    <2>1. \A r \in Requests : life'[r] = IF r \in S THEN "answered" ELSE life[r]
      <3> SUFFICES ASSUME NEW r \in Requests
                   PROVE  life'[r] = IF r \in S THEN "answered" ELSE life[r]
        OBVIOUS
      <3>1. CASE r \in S
        BY <3>1 DEF life
      <3>2. CASE r \notin S
        BY <3>2 DEF life
      <3> QED
        BY <3>1, <3>2
    <2>2. life' = [r \in Requests |-> life'[r]]
      BY DEF life
    <2> QED
      BY <2>1, <2>2
  <1>4. places' = places \ W
    <2>1. places' \subseteq Requests /\ places \subseteq Requests
      BY PlacesOf, PlacesNext DEF PlacesExact
    <2> QED
      BY <2>1
  <1>5. up' \in {up, FALSE}
    <2>1. CASE up'
      <3>1. up' = up
        BY <2>1, ZenonT(60) DEF up
      <3> QED
        BY <3>1
    <2>2. CASE ~up'
      <3>1. up' = FALSE
        BY <2>2, ZenonT(60) DEF up
      <3> QED
        BY <3>1, ZenonT(60)
    <2> QED
      BY <2>1, <2>2, ZenonT(60)
  <1> QED
    BY <1>2, <1>3, <1>4, <1>5, ZenonT(60) DEF Life!Answer

(* Who has a place before and after a step.                                *)
LEMMA PlaceOfRequest ==
  ASSUME ListFacts, IInv, IInv', NEW r \in Requests
  PROVE  /\ r \in places <=> state[r] = "queued" \/ \E l \in Lanes : active[l] = r
         /\ r \in places' <=> state'[r] = "queued" \/ \E l \in Lanes : active'[l] = r
  BY PlacesOf, PlacesNext DEF PlacesExact

(* submit refuses a request and touches nothing else.                      *)
LEMMA RefuseMaps ==
  ASSUME ListFacts, IInv, IInv', NEW r \in Requests, state[r] \in {"new", "stamped", "reserved"},
         NEW why \in Refusals, Refuse(r, why),
         why = "invalid" => r \in Declined, why = "unavailable" => ~up, why # "full"
  PROVE  Life!Refuse(r)
  <1>1. TypeOK /\ UNCHANGED <<active, stopping, failed>>
    BY Zenon DEF IInv, Refuse, engineVars, laneVars
  <1>2. /\ state'[r] = "refused" /\ result'[r] = why
        /\ \A q \in Requests : q # r => state'[q] = state[q] /\ result'[q] = result[q]
    BY <1>1 DEF Refuse, TypeOK
  <1>3. PICK S, Q : S = {} /\ Q = Requests \ {r}
    BY Zenon
  <1>4. S \in SUBSET Life!Accepted /\ Life!Answered(S, Q)
    <2>1. S \in SUBSET Accepted /\ Q \in SUBSET Requests /\ \A q : q \notin S
      BY <1>3, Zenon
    <2>2. \A q \in Q \ S : state'[q] = state[q] /\ result'[q] = result[q]
      BY <1>2, <1>3, Zenon
    <2> QED
      BY <2>1, <2>2, AnsweredBy, ZenonT(60)
  <1>5. life[r] = "out" /\ life' = Life!Marked(S, r, "refused")
    <2>1. life[r] = "out"
      BY LifeOf, <1>1, Zenon
    <2>2. \A q \in Requests : life'[q] = IF q = r THEN "refused" ELSE life[q]
      BY <1>2, ZenonT(60) DEF life
    <2>3. life' = [q \in Requests |-> life'[q]]
      BY DEF life
    <2>4. \A q \in Requests : life'[q] = IF q = r THEN "refused" ELSE IF q \in S THEN "answered" ELSE life[q]
      BY <1>3, <2>2, Zenon
    <2> QED
      BY <2>1, <2>3, <2>4, ZenonT(60) DEF Life!Marked
  <1>6. places' = places \ S
    <2>1. places' \subseteq Requests /\ places \subseteq Requests
      BY PlacesOf, PlacesNext DEF PlacesExact
    <2>2. \A q \in Requests : q \in places' <=> q \in places
      BY <1>1, <1>2, PlaceOfRequest, ZenonT(60)
    <2> QED
      BY <1>3, <2>1, <2>2
  <1>7. up' = up
    BY <1>1 DEF up
  <1>8. answer'[r] \in Life!ReasonsFor(r, S)
    <2>1. answer'[r] = why
      BY <1>2 DEF answer
    <2>2. why \in Life!Reasons
      BY DEF Life!Reasons, Refusals
    <2> QED
      BY <1>3, <2>1, <2>2, ZenonT(60) DEF Life!ReasonsFor
  <1> QED
    BY <1>3, <1>4, <1>5, <1>6, <1>7, <1>8, ZenonT(60) DEF Life!Refuse

(* The refusals before the queue is locked.                                *)
LEMMA ReserveMaps ==
  ASSUME ListFacts, IInv, IInv', NEW r \in Requests, decline(r) \/ reserve(r) \/ allocate_fails(r)
  PROVE  Life!Refuse(r) \/ UNCHANGED Life!lifeVars
  <1>1. TypeOK /\ state[r] \in {"new", "stamped", "reserved"}
    BY Zenon DEF IInv, decline, reserve, allocate_fails
  <1>2. {"invalid", "unavailable", "shortage"} \subseteq Refusals
    BY DEF Refusals
  <1>3. CASE decline(r)
    BY <1>1, <1>2, <1>3, RefuseMaps, ZenonT(60) DEF decline
  <1>4. CASE Refuse(r, "shortage")
    BY <1>1, <1>2, <1>4, RefuseMaps, ZenonT(60)
  <1>5. CASE (stopping \/ failed) /\ Refuse(r, "unavailable")
    BY <1>1, <1>2, <1>5, RefuseMaps, ZenonT(60) DEF up
  <1>6. CASE /\ state[r] = "stamped" /\ state' = [state EXCEPT ![r] = "reserved"]
             /\ UNCHANGED <<result, engineVars, laneVars>>
    <2>1. \A q \in Requests : state'[q] = state[q] \/ {state[q], state'[q]} \subseteq {"new", "stamped", "reserved"}
      BY <1>1, <1>6 DEF TypeOK
    <2>2. \A q \in Requests : q \in places' <=> q \in places
      BY <1>6, <2>1, PlaceOfRequest, ZenonT(60) DEF laneVars
    <2> QED
      BY <1>6, <2>1, <2>2, Unseen, ZenonT(60) DEF engineVars, up
  <1> QED
    BY <1>3, <1>4, <1>5, <1>6, Zenon DEF reserve, allocate_fails

(* A new request r is refused, or accepted, as S are swept from the queue. *)
LEMMA SweepMaps ==
  ASSUME ListFacts, IInv, IInv', NEW r \in Requests, r \notin Declined, submit(r),
         ~stopping, ~failed
  PROVE  Life!Accept(r) \/ Life!Refuse(r)
  <1> DEFINE Sw == {q \in Range(queue) : cancelled[q]}
  <1>1. PICK swept : swept = Sw
    BY Zenon
  <1>2. TypeOK /\ TypeOK' /\ state[r] = "reserved"
    BY Zenon DEF IInv, submit
  <1>3. swept \subseteq Queued /\ swept \subseteq Requests /\ r \notin swept
    BY <1>1, <1>2, ZenonT(60) DEF IInv, QueueOK, Queued
  <1>4. UNCHANGED <<active, stopping, failed>>
    BY ZenonT(60) DEF submit, laneVars
  <1>5. \A q \in swept : q \in places
    BY <1>3, PlacesOf DEF PlacesExact, Queued
  <1>6. \A q \in Requests \ {r} : state'[q] = IF q \in swept THEN "done" ELSE state[q]
    BY <1>1, <1>2, ZenonT(60) DEF submit, TypeOK
  <1>7. \A q \in Requests : q # r /\ q \notin swept => result'[q] = result[q]
    BY <1>1, Zenon DEF submit, Complete, TypeOK
  <1>8. \A l \in Lanes : active[l] # r /\ active[l] \notin swept
    <2> SUFFICES ASSUME NEW l \in Lanes PROVE active[l] # r /\ active[l] \notin swept
      OBVIOUS
    <2>1. active[l] = None \/ state[active[l]] \in {"done", "active"}
      BY ZenonT(60) DEF IInv, LanesOK
    <2>2. \A q \in swept : q \in Requests /\ state[q] = "queued"
      BY <1>3 DEF Queued
    <2>3. None \notin Requests
      BY ConfigAssumption
    <2> HIDE DEF Sw
    <2> QED
      BY <1>2, <2>1, <2>2, <2>3
  <1>9. ASSUME NEW q \in Requests, q # r
        PROVE  q \in places' <=> q \in places /\ q \notin swept
    <2>1. q \in places <=> state[q] = "queued" \/ \E l \in Lanes : active[l] = q
      BY PlacesOf, ZenonT(60) DEF PlacesExact
    <2>2. q \in places' <=> state'[q] = "queued" \/ \E l \in Lanes : active[l] = q
      BY <1>4, PlacesNext DEF PlacesExact
    <2> QED
      BY <1>6, <1>8, <1>9, <2>1, <2>2, ZenonT(60)
  <1>10. r \notin places /\ (r \in places' <=> state'[r] = "queued")
    <2>1. r \in places <=> state[r] = "queued" \/ \E l \in Lanes : active[l] = r
      BY PlacesOf DEF PlacesExact
    <2>2. r \in places' <=> state'[r] = "queued" \/ \E l \in Lanes : active[l] = r
      BY <1>4, PlacesNext DEF PlacesExact
    <2> QED
      BY <1>2, <1>8, <2>1, <2>2
  <1>11. places \subseteq Requests /\ places' \subseteq Requests
    BY PlacesOf, PlacesNext DEF PlacesExact
  <1>12. state'[r] \in {"refused", "queued"}
    BY <1>2, ZenonT(60) DEF submit, TypeOK
  <1>13. ASSUME NEW Q \in SUBSET Requests,
                \A q \in Q : q # r \/ state'[r] = "queued"
         PROVE  swept \in SUBSET Life!Accepted /\ Life!Answered(swept, Q)
    <2>1. swept \in SUBSET Accepted
      BY <1>3 DEF Accepted, Queued
    <2>2. \A q \in swept : state'[q] = "done"
      BY <1>3, <1>6
    <2>3. ASSUME NEW q \in Q, q \notin swept
          PROVE  /\ state'[q] \in {"done", "refused"} <=> state[q] \in {"done", "refused"}
                 /\ state[q] \in {"done", "refused"} => result'[q] = result[q]
      <3>1. CASE q = r
        BY <1>2, <1>13, <3>1, Zenon
      <3>2. CASE q # r
        BY <1>6, <1>7, <2>3, <3>2, Zenon
      <3> QED
        BY <3>1, <3>2, Zenon
    <2> QED
      BY <2>1, <2>2, <2>3, AnsweredBy, ZenonT(60)
  <1>14. up' = up
    BY <1>4 DEF up
  <1>15. life[r] = "out"
    BY <1>2 DEF life
  <1>16. Cardinality(places \ swept) = outstanding - Cardinality(swept)
    <2>1. IsFiniteSet(places) /\ Cardinality(places) = outstanding
      BY PlacesOf DEF PlacesExact
    <2>2. places \cap swept = swept
      BY <1>5
    <2> QED
      BY <2>1, <2>2, CardDifference
  <1>17. ASSUME NEW as, as = IF state'[r] = "queued" THEN "accepted" ELSE "refused"
         PROVE  life' = Life!Marked(swept, r, as)
    <2>1. ASSUME NEW q \in Requests
          PROVE  life'[q] = IF q = r THEN as ELSE IF q \in swept THEN "answered" ELSE life[q]
      <3>1. CASE q = r
        BY <1>12, <1>17, <3>1 DEF life
      <3>2. CASE q # r /\ q \in swept
        BY <1>6, <3>2 DEF life
      <3>3. CASE q # r /\ q \notin swept
        BY <1>6, <3>3 DEF life
      <3> QED
        BY <3>1, <3>2, <3>3, ZenonT(60)
    <2>2. life' = [q \in Requests |-> life'[q]]
      BY DEF life
    <2> QED
      BY <2>1, <2>2, ZenonT(60) DEF Life!Marked
  <1>18. CASE state'[r] = "queued"
    <2>1. outstanding - Cardinality(Sw) < Capacity
      BY <1>2, <1>18, ZenonT(60) DEF submit, TypeOK
    <2>2. up /\ Cardinality(places \ swept) < Capacity
      BY <1>1, <1>16, <2>1 DEF up
    <2>3. places' = (places \ swept) \cup {r}
      BY <1>9, <1>10, <1>11, <1>18
    <2>4. life' = Life!Marked(swept, r, "accepted")
      BY <1>17, <1>18
    <2>5. swept \in SUBSET Life!Accepted /\ Life!Answered(swept, Requests)
      <3>1. PICK Q \in SUBSET Requests : Q = Requests
        BY Zenon
      <3> QED
        BY <1>13, <1>18, <3>1, Zenon
    <2> HIDE DEF Sw
    <2> QED
      BY <1>14, <1>15, <2>2, <2>3, <2>4, <2>5, SameCount, ZenonT(60) DEF Life!Accept
  <1>19. CASE state'[r] = "refused"
    <2>1. outstanding - Cardinality(Sw) >= Capacity /\ result'[r] = "full"
      <3>1. /\ outstanding - Cardinality(Sw) >= Capacity
            /\ result' = [q \in Requests |->
                    IF q = r THEN "full" ELSE IF q \in Sw THEN "cancelled" ELSE result[q]]
        BY <1>2, <1>19, ZenonT(60) DEF submit, TypeOK
      <3> HIDE DEF Sw
      <3>2. result'[r] = "full"
        BY <3>1, Zenon
      <3> QED
        BY <3>1, <3>2, Zenon
    <2>2. up /\ Cardinality(places \ swept) >= Capacity
      BY <1>1, <1>16, <2>1 DEF up
    <2>3. places' = places \ swept
      BY <1>9, <1>10, <1>11, <1>19
    <2>4. life' = Life!Marked(swept, r, "refused")
      BY <1>17, <1>19
    <2>5. swept \in SUBSET Life!Accepted /\ Life!Answered(swept, Requests \ {r})
      <3>1. PICK Q \in SUBSET Requests : Q = Requests \ {r}
        BY Zenon
      <3> QED
        BY <1>13, <3>1, Zenon
    <2>6. answer'[r] \in Life!ReasonsFor(r, swept)
      <3>1. answer'[r] = "full"
        BY <1>19, <2>1, Zenon DEF answer
      <3> HIDE DEF Sw
      <3> QED
        BY <2>2, <3>1, SameCount, ZenonT(60) DEF Life!ReasonsFor, Life!Reasons
    <2> HIDE DEF Sw
    <2> QED
      BY <1>14, <1>15, <2>3, <2>4, <2>5, <2>6, ZenonT(60) DEF Life!Refuse
  <1> QED
    BY <1>12, <1>18, <1>19

(* submit with the queue locked refuses or accepts.                        *)
LEMMA SubmitMaps ==
  ASSUME ListFacts, IInv, IInv', ClientOK, NEW r \in Requests, submit(r)
  PROVE  Life!Accept(r) \/ Life!Refuse(r)
  <1>1. state[r] = "reserved"
    BY Zenon DEF submit
  <1>2. r \notin Declined
    BY <1>1, Zenon DEF ClientOK, ClientOf
  <1>3. CASE stopping \/ failed
    <2>1. Refuse(r, "unavailable")
      BY <1>3, Zenon DEF submit
    <2> QED
      BY <1>1, <1>3, <2>1, RefuseMaps, ZenonT(60) DEF up, Refusals
  <1> QED
    BY <1>2, <1>3, SweepMaps, Zenon

(* The steps of clients and the clock that only the engine sees.           *)
LEMMA ClientUnseen ==
  ASSUME ListFacts, IInv, IInv', NEW r \in Requests, stamp(r) \/ cancel(r) \/ near(r) \/ past(r)
  PROVE  UNCHANGED Life!lifeVars
  <1>1. UNCHANGED <<result, engineVars, laneVars>> /\ TypeOK
    BY DEF stamp, cancel, near, past, IInv
  <1>2. \A q \in Requests : state'[q] = state[q] \/ {state[q], state'[q]} \subseteq {"new", "stamped"}
    BY <1>1, ZenonT(60) DEF stamp, cancel, near, past, TypeOK
  <1>3. \A q \in Requests : q \in places' <=> q \in places
    BY <1>1, <1>2, PlaceOfRequest, ZenonT(60) DEF laneVars
  <1> QED
    BY <1>1, <1>2, <1>3, Unseen, ZenonT(60) DEF engineVars, up

(* Steps of a lane between the selection and the publication.              *)
LEMMA RunUnseen ==
  ASSUME ListFacts, IInv, IInv', UNCHANGED <<state, active, stopping, failed>>,
         \A r \in Requests : state[r] \in {"done", "refused"} => result'[r] = result[r]
  PROVE  UNCHANGED Life!lifeVars
  <1>1. \A q \in Requests : q \in places' <=> q \in places
    BY PlaceOfRequest
  <1> QED
    BY <1>1, Unseen, ZenonT(60) DEF up

(* The end of a run is not seen before it is published.                    *)
LEMMA EndUnseen ==
  ASSUME ListFacts, IInv, IInv', NEW l \in Lanes, pc[l] \in Running, NEW how, End(l, how)
  PROVE  UNCHANGED Life!lifeVars
  <1>1. active[l] \in Requests /\ active[l] # None /\ TypeOK
    BY HasRequest, ZenonT(60) DEF IInv, Running
  <1>2. state[active[l]] = "active"
    BY <1>1, ZenonT(60) DEF IInv, LanesOK, Running, Ended
  <1>3. \A r \in Requests : r # active[l] => result'[r] = result[r]
    BY <1>1 DEF End, TypeOK
  <1> QED
    BY <1>2, <1>3, RunUnseen DEF End, engineVars

(* Selection is not seen: the place moves from the queue to the lane.      *)
LEMMA TakeUnseen ==
  ASSUME ListFacts, IInv, IInv', NEW l \in Lanes, pc[l] = "wait", NEW r \in Range(queue), take(l, r)
  PROVE  UNCHANGED Life!lifeVars
  <1>1. TypeOK /\ active[l] = None
    BY ZenonT(60) DEF IInv, LanesOK, Idle
  <1>2. r \in Requests /\ state[r] = "queued"
    BY Waiting, ZenonT(60)
  <1>3. state'[r] = "active" /\ \A q \in Requests : q # r => state'[q] = state[q]
    BY <1>1, <1>2 DEF take, TypeOK
  <1>4. active'[l] = r /\ \A m \in Lanes : m # l => active'[m] = active[m]
    BY <1>1 DEF take, TypeOK
  <1>5. ASSUME NEW q \in Requests PROVE q \in places' <=> q \in places
    <2>1. q # None
      BY ConfigAssumption, Zenon
    <2> QED
      BY <1>1, <1>2, <1>3, <1>4, <2>1, PlaceOfRequest, ZenonT(60)
  <1>6. UNCHANGED <<result, stopping, failed>>
    BY ZenonT(60) DEF take
  <1> QED
    BY <1>2, <1>3, <1>5, <1>6, Unseen, ZenonT(60) DEF up

(* A lane's look at the queue is not seen.                                 *)
LEMMA LookUnseen ==
  ASSUME ListFacts, IInv, IInv', NEW l \in Lanes, look(l)
  PROVE  UNCHANGED Life!lifeVars
  <1>1. TypeOK /\ pc[l] = "wait"
    BY DEF IInv, look
  <1>2. CASE \E r \in ready_request(l) : take(l, r)
    BY <1>1, <1>2, TakeUnseen DEF ready_request
  <1>3. CASE queue # <<>> /\ take(l, Head(queue))
    <2>1. Head(queue) \in Range(queue)
      BY <1>1, <1>3, ElementsOf DEF TypeOK
    <2> QED
      BY <1>1, <1>3, <2>1, TakeUnseen
  <1>4. CASE UNCHANGED <<requestVars, engineVars, active>>
    BY <1>4, RunUnseen DEF requestVars, engineVars
  <1> QED
    BY <1>2, <1>3, <1>4 DEF look

(* Nor is what a lane does with a request until it completes it.           *)
LEMMA LaneUnseen ==
  ASSUME ListFacts, IInv, IInv', NEW l \in Lanes,
         \/ start(l) \/ prefill(l) \/ gate(l) \/ suspend(l) \/ resume(l)
         \/ resumed(l) \/ round(l) \/ timeout(l) \/ fail(l) \/ reject(l)
  PROVE  UNCHANGED Life!lifeVars
  <1>1. CASE UNCHANGED <<requestVars, engineVars, active>>
    BY <1>1, RunUnseen, ZenonT(60) DEF requestVars, engineVars
  <1>2. CASE pc[l] \in Running /\ \E how : End(l, how)
    BY <1>2, EndUnseen
  <1>3. start(l) \/ prefill(l) \/ gate(l) => pc[l] \in Running
    BY ZenonT(60) DEF start, prefill, gate, Running, Busy, Ended
  <1>4. suspend(l) \/ resume(l) \/ resumed(l) \/ round(l) \/ timeout(l) \/ fail(l) \/ reject(l) =>
            UNCHANGED <<requestVars, engineVars, active>>
    BY ZenonT(60) DEF suspend, resume, resumed, round, timeout, fail, reject, Throw
  <1>5. start(l) \/ prefill(l) \/ gate(l) =>
            (\E how : End(l, how)) \/ UNCHANGED <<requestVars, engineVars, active>>
    BY ZenonT(60) DEF start, prefill, gate, Throw
  <1> QED
    BY <1>1, <1>2, <1>3, <1>4, <1>5

(* A cancellation that finds the request in the queue answers it there.    *)
LEMMA CancelQueuedMaps ==
  ASSUME ListFacts, IInv, IInv', NEW r \in Requests, cancel_queued(r)
  PROVE  Life!Answer \/ UNCHANGED Life!lifeVars
  <1>1. TypeOK /\ UNCHANGED <<active, stopping, failed>>
    BY DEF IInv, cancel_queued
  <1>2. CASE r \notin Range(queue)
    BY <1>1, <1>2, RunUnseen DEF cancel_queued
  <1>3. CASE r \in Range(queue)
    <2>1. state[r] = "queued" /\ \A l \in Lanes : active[l] # r
      BY <1>3, Waiting, ZenonT(60)
    <2>2. PICK S : S = {r}
      BY ZenonT(60)
    <2>3. S \in SUBSET Accepted /\ S \in SUBSET S
      BY <2>1, <2>2 DEF Accepted
    <2>4. \A q \in S : state'[q] = "done"
      BY <1>1, <1>3, <2>2 DEF cancel_queued, TypeOK
    <2>5. \A q \in Requests \ S : state'[q] = state[q] /\ result'[q] = result[q]
      BY <1>1, <1>3, <2>2 DEF cancel_queued, Complete, TypeOK
    <2>6. \A q \in Requests : q \in places' <=> q \in places /\ q \notin S
      BY <1>1, <2>1, <2>2, <2>4, <2>5, PlaceOfRequest, ZenonT(60)
    <2>7. up' => up
      BY <1>1 DEF up
    <2> QED
      BY <2>3, <2>4, <2>5, <2>6, <2>7, AnswerStep, ZenonT(60)
  <1> QED
    BY <1>2, <1>3

(* A lane publishes its result and keeps its place.                        *)
LEMMA CompleteMaps ==
  ASSUME ListFacts, IInv, IInv', NEW l \in Lanes, complete(l)
  PROVE  Life!Answer
  <1>1. TypeOK /\ pc[l] = "finishing" /\ UNCHANGED <<result, active, stopping, failed>>
    BY ZenonT(60) DEF IInv, complete, engineVars
  <1>2. active[l] \in Requests /\ active[l] # None
    BY <1>1, HasRequest DEF Busy, Ended
  <1>3. state[active[l]] = "active"
    BY <1>1, <1>2, ZenonT(60) DEF IInv, LanesOK
  <1>4. PICK S, W : S = {active[l]} /\ W = {}
    BY ZenonT(60)
  <1>5. S \in SUBSET Accepted /\ W \in SUBSET S
    BY <1>2, <1>3, <1>4 DEF Accepted
  <1>6. \A q \in S : state'[q] = "done"
    BY <1>1, <1>2, <1>4 DEF complete, TypeOK
  <1>7. \A q \in Requests \ S : state'[q] = state[q] /\ result'[q] = result[q]
    BY <1>1, <1>2, <1>4 DEF complete, TypeOK
  <1>8. \A q \in Requests : q \in places' <=> q \in places /\ q \notin W
    BY <1>1, <1>3, <1>4, <1>6, <1>7, PlaceOfRequest, ZenonT(60)
  <1>9. up' => up
    BY <1>1 DEF up
  <1> QED
    BY <1>5, <1>6, <1>7, <1>8, <1>9, AnswerStep, ZenonT(60)

(* The failing lane answers all that wait and takes the engine down.       *)
LEMMA DrainMaps ==
  ASSUME ListFacts, IInv, IInv', NEW l \in Lanes, drain(l)
  PROVE  Life!Answer
  <1>0. pc[l] = "thrown" /\ pc[l] \in Running
    BY Zenon DEF drain, Running, Busy, Ended
  <1>1. TypeOK /\ failed' = TRUE /\ UNCHANGED active
    BY ZenonT(60) DEF IInv, drain
  <1>2. active[l] \in Requests /\ active[l] # None
    BY <1>0, HasRequest DEF Running
  <1>3. state[active[l]] = "active"
    BY <1>0, <1>2, ZenonT(60) DEF IInv, LanesOK
  <1>4. PICK S : S = Range(queue)
    OBVIOUS
  <1>5. \A q \in S : q \in Requests /\ state[q] = "queued" /\ \A m \in Lanes : active[m] # q
    BY <1>4, Waiting
  <1>6. \A q \in Requests : state[q] = "queued" => q \in S
    BY <1>4, ZenonT(60) DEF IInv, QueueOK, Queued
  <1>7. S \in SUBSET Accepted /\ S \in SUBSET S
    BY <1>5 DEF Accepted
  <1>8. \A q \in S : state'[q] = "done"
    BY <1>4, <1>5, ZenonT(60) DEF drain
  <1>9. \A q \in Requests \ S : state'[q] = state[q]
    BY <1>4, ZenonT(60) DEF drain
  <1>10. \A q \in Requests \ S : state[q] \in {"done", "refused"} => result'[q] = result[q]
    BY <1>3, <1>4, ZenonT(60) DEF drain, Complete
  <1>11. ASSUME NEW q \in Requests PROVE q \in places' <=> q \in places /\ q \notin S
    <2>1. /\ q \in places <=> state[q] = "queued" \/ \E m \in Lanes : active[m] = q
          /\ q \in places' <=> state'[q] = "queued" \/ \E m \in Lanes : active'[m] = q
      BY PlaceOfRequest, ZenonT(60)
    <2> QED
      BY <1>1, <1>5, <1>6, <1>8, <1>9, <2>1
  <1>12. up' => up
    BY <1>1 DEF up
  <1> QED
    BY <1>7, <1>8, <1>9, <1>10, <1>11, <1>12, AnswerStep, ZenonT(60)

(* A run that fails takes the engine down before anybody is answered.      *)
LEMMA CaughtMaps ==
  ASSUME ListFacts, IInv, IInv', NEW l \in Lanes, caught(l)
  PROVE  Life!Answer
  <1>1. TypeOK /\ pc[l] = "caught" /\ UNCHANGED <<state, active, stopping>>
    BY Zenon DEF IInv, caught
  <1>2. active[l] \in Requests /\ active[l] # None
    BY <1>1, HasRequest DEF Busy
  <1>3. state[active[l]] = "active"
    BY <1>1, <1>2, ZenonT(60) DEF IInv, LanesOK
  <1>4. \A q \in Requests : q # active[l] => result'[q] = result[q]
    BY <1>1, <1>2 DEF caught, TypeOK
  <1>5. failed => failed'
    BY Zenon DEF caught
  <1>6. PICK S : S = {}
    BY Zenon
  <1>7. S \in SUBSET Accepted /\ S \in SUBSET S /\ \A q : q \notin S
    BY <1>6, Zenon
  <1>8. \A q \in Requests : q \in places' <=> q \in places
    BY <1>1, PlaceOfRequest
  <1>9. \A q \in Requests : state[q] \in {"done", "refused"} => result'[q] = result[q]
    BY <1>3, <1>4
  <1>10. up' => up
    BY <1>1, <1>5, Zenon DEF up
  <1> QED
    BY <1>1, <1>7, <1>8, <1>9, <1>10, AnswerStep, ZenonT(60)

(* close answers nobody: the lanes will.                                   *)
LEMMA CloseMaps ==
  ASSUME ListFacts, IInv, IInv', close
  PROVE  Life!Answer
  <1>1. UNCHANGED <<state, result, active>> /\ stopping' = TRUE
    BY Zenon DEF close
  <1>2. PICK S : S = {}
    BY ZenonT(60)
  <1>3. S \in SUBSET Accepted /\ S \in SUBSET S
    BY <1>2
  <1>4. \A q \in Requests : q \in places' <=> q \in places /\ q \notin S
    BY <1>1, <1>2, PlaceOfRequest
  <1>5. up' => up
    BY <1>1 DEF up
  <1> QED
    BY <1>1, <1>2, <1>3, <1>4, <1>5, AnswerStep

(* The lane gives back the place of the request it has answered.           *)
LEMMA ReleaseMaps ==
  ASSUME ListFacts, IInv, IInv', NEW l \in Lanes, release(l)
  PROVE  \E r \in Requests : Life!GiveBack(r)
  <1>1. TypeOK /\ pc[l] = "releasing" /\ UNCHANGED <<state, result, stopping, failed>>
    BY DEF IInv, release, requestVars
  <1>2. active[l] \in Requests /\ active[l] # None
    BY <1>1, HasRequest DEF Busy, Ended
  <1>3. PICK r \in Requests : r = active[l]
    BY <1>2
  <1>4. state[r] = "done"
    BY <1>1, <1>2, <1>3, ZenonT(60) DEF IInv, LanesOK
  <1>5. active'[l] = None /\ \A m \in Lanes : m # l => active'[m] = active[m]
    BY <1>1 DEF release, TypeOK
  <1>6. \A m \in Lanes : m # l => active[m] # r
    BY <1>2, <1>3, ZenonT(60) DEF IInv, LanesOK
  <1>7. ASSUME NEW q \in Requests PROVE q \in places' <=> q \in places /\ q # r
    <2>1. /\ q \in places <=> state[q] = "queued" \/ \E m \in Lanes : active[m] = q
          /\ q \in places' <=> state'[q] = "queued" \/ \E m \in Lanes : active'[m] = q
      BY PlaceOfRequest, ZenonT(60)
    <2>2. q # None
      BY ConfigAssumption
    <2> QED
      BY <1>1, <1>3, <1>4, <1>5, <1>6, <2>1, <2>2
  <1>8. places' = places \ {r} /\ r \in places
    <2>1. places' \subseteq Requests /\ places \subseteq Requests
      BY PlacesOf, PlacesNext, ZenonT(60) DEF PlacesExact
    <2> QED
      BY <1>3, <1>7, <2>1, PlaceOfRequest, ZenonT(60)
  <1>9. UNCHANGED <<life, answer, up>>
    BY <1>1 DEF life, answer, up
  <1>10. life[r] = "answered"
    BY <1>4 DEF life
  <1> QED
    BY <1>8, <1>9, <1>10 DEF Life!GiveBack

(* A client that submits again.                                            *)
LEMMA ResubmitMaps ==
  ASSUME ListFacts, IInv, IInv', NEW r \in Requests, resubmit(r)
  PROVE  Life!Again(r)
  <1>1. TypeOK /\ UNCHANGED <<active, stopping, failed>>
    BY DEF IInv, resubmit, engineVars, laneVars
  <1>2. state[r] \in {"done", "refused"} /\ \A l \in Lanes : active[l] # r
    BY DEF resubmit
  <1>3. state'[r] = "new" /\ \A q \in Requests : q # r => state'[q] = state[q] /\ result'[q] = result[q]
    BY <1>1 DEF resubmit, TypeOK
  <1>4. life[r] \in {"answered", "refused"} /\ r \notin places
    BY <1>2, PlaceOfRequest DEF life
  <1>5. places' = places
    <2>1. places' \subseteq Requests /\ places \subseteq Requests
      BY PlacesOf, PlacesNext DEF PlacesExact
    <2>2. \A q \in Requests : q \in places' <=> q \in places
      BY <1>1, <1>2, <1>3, PlaceOfRequest
    <2> QED
      BY <2>1, <2>2
  <1>6. life' = [life EXCEPT ![r] = "out"]
    <2>1. life'[r] = "out" /\ \A q \in Requests : q # r => life'[q] = life[q]
      BY <1>3 DEF life
    <2>2. life = [q \in Requests |-> life[q]] /\ life' = [q \in Requests |-> life'[q]]
      BY DEF life
    <2> QED
      BY <2>1, <2>2
  <1>7. answer' = [answer EXCEPT ![r] = None]
    <2>1. answer'[r] = None /\ \A q \in Requests : q # r => answer'[q] = answer[q]
      BY <1>3 DEF answer
    <2>2. answer = [q \in Requests |-> answer[q]] /\ answer' = [q \in Requests |-> answer'[q]]
      BY ZenonT(60) DEF answer
    <2> QED
      BY <2>1, <2>2
  <1>8. up' = up
    BY <1>1 DEF up
  <1>9. Life!None = None
    BY DEF Life!None, None
  <1> QED
    BY <1>4, <1>5, <1>6, <1>7, <1>8, <1>9 DEF Life!Again

(* The engine starts as RequestLife does.                                  *)
LEMMA LifeInitial ==
  ASSUME ListFacts
  PROVE  Init => Life!LifeInit
  <1> SUFFICES ASSUME Init PROVE Life!LifeInit
    OBVIOUS
  <1>1. life = [r \in Requests |-> "out"]
    BY DEF life, Init
  <1>2. answer = [r \in Requests |-> None] /\ Life!None = None
    BY DEF answer, Init, Life!None, None
  <1>3. places = {}
    BY EmptyList DEF places, Init
  <1>4. up = TRUE
    BY ZenonT(60) DEF up, Init
  <1> QED
    BY <1>1, <1>2, <1>3, <1>4 DEF Life!LifeInit

(* Every step of the engine is a step of RequestLife or is not seen.       *)
LEMMA LifeStep ==
  ASSUME ListFacts
  PROVE  IInv /\ IInv' /\ ClientOK /\ [Next]_vars => [Life!LifeNext]_Life!lifeVars
  <1> SUFFICES ASSUME IInv, IInv', ClientOK, [Next]_vars PROVE Life!LifeNext \/ UNCHANGED Life!lifeVars
    OBVIOUS
  <1>1. CASE UNCHANGED vars
    BY <1>1, RunUnseen DEF vars, requestVars, engineVars, laneVars
  <1>2. ASSUME NEW r \in Requests,
               \/ decline(r) \/ stamp(r) \/ reserve(r) \/ allocate_fails(r) \/ submit(r)
               \/ cancel(r) \/ cancel_queued(r) \/ resubmit(r)
               \/ near(r) \/ past(r)
        PROVE  Life!LifeNext \/ UNCHANGED Life!lifeVars
    BY <1>2, ClientUnseen, ReserveMaps, SubmitMaps, CancelQueuedMaps, ResubmitMaps DEF Life!LifeNext
  <1>3. ASSUME NEW l \in Lanes, LaneStep(l) \/ fail(l) \/ timeout(l)
        PROVE  Life!LifeNext \/ UNCHANGED Life!lifeVars
    BY <1>3, LookUnseen, LaneUnseen, CaughtMaps, DrainMaps, CompleteMaps, ReleaseMaps
       DEF LaneStep, Life!LifeNext
  <1>4. join => UNCHANGED Life!lifeVars
    BY RunUnseen, ZenonT(60) DEF join, requestVars, laneVars
  <1>5. CASE close \/ join \/ rest
    BY <1>1, <1>4, <1>5, CloseMaps DEF rest, Life!LifeNext
  <1> QED
    BY <1>1, <1>2, <1>3, <1>5 DEF Next

-----------------------------------------------------------------------------
(* IInv holds in every reachable state.                                    *)
LEMMA Always == Spec => []IInv
  <1>1. Init => IInv
    BY InitOK, ListFactsHold
  <1>2. IInv /\ [Next]_vars => IInv'
    BY Inductive, ListFactsHold
  <1> QED
    BY <1>1, <1>2, PTL DEF Spec

(* So does ClientOK.                                                       *)
LEMMA AlwaysClients == Spec => []ClientOK
  BY Always, ClientInit, ClientStep, PTL DEF Spec

(* `outstanding` is the number of waiting requests and of lanes that have  *)
(* one, whatever mix of completions, cancellations, sweeps and failures    *)
(* brought it there, for every number of lanes and every capacity.         *)
THEOREM OutstandingIsExact == Spec => []OutstandingExact
  <1>1. IInv => OutstandingExact
    BY CountIsExact, ListFactsHold
  <1> QED
    BY <1>1, Always, PTL

(* However failures, cancellations and close meet, a cancelled request in  *)
(* the queue has its canceller or a stopping lane to release it; when      *)
(* close returns, every accepted request is answered and every place given *)
(* back.                                                                   *)
THEOREM EngineStrandsNone == Spec => []NoneStranded
  <1>1. IInv /\ ClientOK => NoneStranded
    <2> SUFFICES ASSUME IInv, ClientOK PROVE NoneStranded
      OBVIOUS
    <2>1. closed => (Accepted = {} /\ outstanding = 0)
      BY NoneAtTheEnd, ListFactsHold
    <2>2. \A r \in Range(queue) : r \in Requests /\ state[r] = "queued"
      BY Zenon DEF IInv, QueueOK, Queued
    <2>3. \A r \in Range(queue) : cancelled[r] => cancelling[r] \/ stopping
      BY <2>2, Zenon DEF ClientOK, ClientOf
    <2> QED
      BY <2>1, <2>3, Zenon DEF NoneStranded
  <1> QED
    BY <1>1, Always, AlwaysClients, PTL

(* A lane that suspends leaves a running decoder behind that was admitted  *)
(* before it: the oldest decoding lane never suspends.                     *)
THEOREM OldestStays == Spec => OldestNeverSuspends
  <1> DEFINE Step == \A l \in Lanes : (~lane_suspended(l) /\ lane_suspended(l)') =>
        \E m \in Lanes : lane_decoding(m)' /\ ~lane_suspended(m)' /\ Before(admitted, m, l)
  <1>1. IInv /\ [Next]_vars => [Step]_vars
    BY OlderRuns, ListFactsHold
  <1> QED
    BY <1>1, Always, PTL DEF Spec, OldestNeverSuspends

(* Every behaviour of the queue, the lanes, cancellations, failures and    *)
(* close is one RequestLife allows: an accepted request has one of         *)
(* Capacity places and one answer that stays, and a refused one is told a  *)
(* reason that is true: it asks for what is not done, the engine is down,  *)
(* all places are taken, or something else of the host ran out.            *)
THEOREM EngineKeepsItsPromise == Spec => ImplementsLife
  <1>1. Init => Life!LifeInit
    BY LifeInitial, ListFactsHold
  <1>2. IInv /\ IInv' /\ ClientOK /\ [Next]_vars => [Life!LifeNext]_Life!lifeVars
    BY LifeStep, ListFactsHold
  <1> QED
    BY <1>1, <1>2, Always, AlwaysClients, PTL DEF Spec, ImplementsLife, Life!LifeSpec
============================================================================
