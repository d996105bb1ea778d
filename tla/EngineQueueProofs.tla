------------------------- MODULE EngineQueueProofs -------------------------
(***************************************************************************)
(* The inductive invariant of the engine's queue, for any number of        *)
(* requests and lanes, with one lemma for each step.  The facts about sets *)
(* and lists are a hypothesis, ListFacts; EngineQueueTheorems discharges   *)
(* it and draws the conclusions.                                           *)
(***************************************************************************)
EXTENDS EngineQueue, ListFacts, TLAPS

Endings == {"ok", "cancelled", "failure"}
Refusals == {"invalid", "unavailable", "full", "shortage"}
Idle == {"wait", "exited"}
Ended == {"finishing", "releasing"}
Busy == {"taken", "prefill", "gate", "round", "suspending", "suspended", "resuming",
         "caught", "thrown"} \cup Ended

TypeOK ==
    /\ state \in [Requests -> {"new", "stamped", "reserved", "queued", "active", "done", "refused"}]
    /\ result \in [Requests -> Endings \cup Refusals \cup {None}]
    /\ cancelled \in [Requests -> BOOLEAN] /\ cancelling \in [Requests -> BOOLEAN]
    /\ due \in [Requests -> {"no", "near", "past"}]
    /\ home \in [Requests -> Lanes \cup {None}]
    /\ stamps \in Seq(Requests) /\ queue \in Seq(Requests) /\ outstanding \in Int
    /\ stopping \in BOOLEAN /\ failed \in BOOLEAN /\ closed \in BOOLEAN
    /\ pc \in [Lanes -> Idle \cup Busy]
    /\ active \in [Lanes -> Requests \cup {None}]
    /\ admitted \in Seq(Lanes) /\ left \in [Lanes -> Int] /\ awake \in [Lanes -> BOOLEAN]

Queued == {r \in Requests : state[r] = "queued"}
Occupied == {l \in Lanes : active[l] # None}

(* The queue has every waiting request once.                               *)
QueueOK == IsInjective(queue) /\ Range(queue) = Queued

(* A lane has a request from its selection to its release, which no other  *)
(* lane has; the request is active until its result is published.          *)
LanesOK ==
    /\ \A l \in Lanes : active[l] = None <=> pc[l] \in Idle
    /\ \A l \in Lanes : active[l] # None =>
        state[active[l]] = IF pc[l] = "releasing" THEN "done" ELSE "active"
    /\ \A l, m \in Lanes : active[l] # None /\ active[l] = active[m] => l = m
    /\ \A r \in Requests : state[r] = "active" => \E l \in Lanes : active[l] = r
    /\ IsInjective(admitted) /\ Range(admitted) = Occupied

(* A run that is over has its result.                                      *)
AnswersOK ==
    /\ \A r \in Requests : state[r] = "done" => result[r] \in Endings
    /\ \A l \in Lanes : pc[l] \in Ended => result[active[l]] \in Endings

CountOK == outstanding = Cardinality(Queued) + Cardinality(Occupied)

(* No request enters the queue of a stopping engine, and a lane leaves     *)
(* only when nothing waits.                                                *)
EndOK ==
    /\ \A l \in Lanes : pc[l] = "exited" => stopping /\ queue = <<>>
    /\ closed => \A l \in Lanes : pc[l] = "exited"

IInv == TypeOK /\ QueueOK /\ LanesOK /\ AnswersOK /\ CountOK /\ EndOK

-----------------------------------------------------------------------------
(* ListFacts, one fact at a time.                                          *)

(* A finite set has a natural number of elements.                          *)
LEMMA CardType ==
  ASSUME ListFacts, NEW S, IsFiniteSet(S)
  PROVE  Cardinality(S) \in Nat
  BY DEF ListFacts, CountType

(* The empty set has no elements.                                          *)
LEMMA CardEmpty ==
  ASSUME ListFacts
  PROVE  IsFiniteSet({}) /\ Cardinality({}) = 0
  BY DEF ListFacts, CountEmpty

(* A set of one element.                                                   *)
LEMMA CardOne ==
  ASSUME ListFacts, NEW x
  PROVE  IsFiniteSet({x}) /\ Cardinality({x}) = 1
  BY Zenon DEF ListFacts, CountOne

(* One element more.                                                       *)
LEMMA CardAdd ==
  ASSUME ListFacts, NEW S, NEW x, IsFiniteSet(S)
  PROVE  /\ IsFiniteSet(S \cup {x})
         /\ Cardinality(S \cup {x}) = IF x \in S THEN Cardinality(S) ELSE Cardinality(S) + 1
  BY DEF ListFacts, CountAdd

(* One element less.                                                       *)
LEMMA CardRemove ==
  ASSUME ListFacts, NEW S, NEW x, IsFiniteSet(S)
  PROVE  /\ IsFiniteSet(S \ {x})
         /\ Cardinality(S \ {x}) = IF x \in S THEN Cardinality(S) - 1 ELSE Cardinality(S)
  BY DEF ListFacts, CountRemove

(* A part of a finite set is no larger.                                    *)
LEMMA CardSubset ==
  ASSUME ListFacts, NEW S, IsFiniteSet(S), NEW T \in SUBSET S
  PROVE  IsFiniteSet(T) /\ Cardinality(T) <= Cardinality(S)
  BY DEF ListFacts, CountSubset

(* A set without another.                                                  *)
LEMMA CardDifference ==
  ASSUME ListFacts, NEW S, NEW T, IsFiniteSet(S)
  PROVE  /\ IsFiniteSet(S \ T)
         /\ Cardinality(S \ T) = Cardinality(S) - Cardinality(S \cap T)
  BY DEF ListFacts, CountDifference

(* Two sets together.                                                      *)
LEMMA CardUnion ==
  ASSUME ListFacts, NEW S, NEW T, IsFiniteSet(S), IsFiniteSet(T)
  PROVE  /\ IsFiniteSet(S \cup T)
         /\ Cardinality(S \cup T) = Cardinality(S) + Cardinality(T) - Cardinality(S \cap T)
  BY DEF ListFacts, CountUnion

(* Sets that correspond one to one are equally large.                      *)
LEMMA CardBijection ==
  ASSUME ListFacts, NEW S, NEW T, IsFiniteSet(S), ExistsBijection(S, T)
  PROVE  IsFiniteSet(T) /\ Cardinality(T) = Cardinality(S)
  BY DEF ListFacts, CountBijection

(* A list is a function on its positions.                                  *)
LEMMA Typed ==
  ASSUME ListFacts, NEW A, NEW s \in Seq(A)
  PROVE  Len(s) \in Nat /\ s \in [1..Len(s) -> A] /\ DOMAIN s = 1..Len(s)
  BY DEF ListFacts, ListTyped

(* The empty list is a list over any set.                                  *)
LEMMA NoList ==
  ASSUME ListFacts, NEW A
  PROVE  <<>> \in Seq(A)
  BY DEF ListFacts, ListEmpty

(* The empty list has no elements.                                         *)
LEMMA EmptyList ==
  ASSUME ListFacts
  PROVE  Range(<<>>) = {} /\ IsInjective(<<>>) /\ Len(<<>>) = 0
  BY DEF ListFacts, ListEmpty

(* A list with one more at its end.                                        *)
LEMMA AddLast ==
  ASSUME ListFacts, NEW A, NEW s \in Seq(A), NEW x \in A
  PROVE  /\ Append(s, x) \in Seq(A)
         /\ Len(Append(s, x)) = Len(s) + 1
         /\ Range(Append(s, x)) = Range(s) \cup {x}
         /\ IsInjective(s) /\ x \notin Range(s) => IsInjective(Append(s, x))
  BY DEF ListFacts, ListAppend

(* A list that a set was erased from.                                      *)
LEMMA Erase ==
  ASSUME ListFacts, NEW A, NEW s \in Seq(A), NEW S
  PROVE  /\ Without(s, S) \in Seq(A)
         /\ Range(s) \subseteq A
         /\ Range(Without(s, S)) = Range(s) \ S
         /\ IsInjective(s) => IsInjective(Without(s, S))
  BY DEF ListFacts, ListWithout

(* A list that one element was erased from.                                *)
LEMMA EraseOne ==
  ASSUME ListFacts, NEW A, NEW s \in Seq(A), NEW x
  PROVE  /\ Without(s, {x}) \in Seq(A)
         /\ Range(Without(s, {x})) = Range(s) \ {x}
         /\ IsInjective(s) => IsInjective(Without(s, {x}))
  <1>1. PICK S : S = {x}
    BY Zenon
  <1>2. /\ Without(s, S) \in Seq(A)
        /\ Range(Without(s, S)) = Range(s) \ S
        /\ IsInjective(s) => IsInjective(Without(s, S))
    BY Erase
  <1> QED
    BY <1>1, <1>2, Zenon

(* Only the empty list has no elements.                                    *)
LEMMA ElementsOf ==
  ASSUME ListFacts, NEW A, NEW s \in Seq(A)
  PROVE  /\ Range(s) = {} <=> s = <<>>
         /\ s # <<>> => Head(s) \in Range(s)
  BY DEF ListFacts, ListElements

(* A list without duplicates is as long as its set is large.               *)
LEMMA LengthOf ==
  ASSUME ListFacts, NEW A, NEW s \in Seq(A), IsInjective(s)
  PROVE  IsFiniteSet(Range(s)) /\ Len(s) = Cardinality(Range(s))
  BY DEF ListFacts, ListLength

-----------------------------------------------------------------------------
(* The engine starts in the invariant.                                     *)
LEMMA InitOK ==
  ASSUME ListFacts
  PROVE  Init => IInv
  <1> SUFFICES ASSUME Init PROVE IInv
    OBVIOUS
  <1>1. TypeOK
    <2>1. stamps \in Seq(Requests) /\ queue \in Seq(Requests) /\ admitted \in Seq(Lanes)
      BY NoList DEF Init
    <2>2. /\ cancelled \in [Requests -> BOOLEAN] /\ cancelling \in [Requests -> BOOLEAN]
          /\ awake \in [Lanes -> BOOLEAN]
      BY DEF Init
    <2>3. /\ state \in [Requests -> {"new", "stamped", "reserved", "queued", "active", "done", "refused"}]
          /\ result \in [Requests -> Endings \cup Refusals \cup {None}]
          /\ due \in [Requests -> {"no", "near", "past"}]
          /\ home \in [Requests -> Lanes \cup {None}]
      BY DEF Init
    <2>4. /\ pc \in [Lanes -> Idle \cup Busy] /\ active \in [Lanes -> Requests \cup {None}]
          /\ left \in [Lanes -> Int]
      BY DEF Init, Idle
    <2>5. outstanding \in Int
      BY DEF Init
    <2>6. stopping \in BOOLEAN /\ failed \in BOOLEAN /\ closed \in BOOLEAN
      BY Zenon DEF Init
    <2> QED
      BY <2>1, <2>2, <2>3, <2>4, <2>5, <2>6 DEF TypeOK
  <1>2. Queued = {} /\ Occupied = {}
    BY DEF Init, Queued, Occupied, None
  <1>3. QueueOK
    BY <1>2, EmptyList DEF QueueOK, Init
  <1>4. LanesOK
    BY <1>2, EmptyList DEF LanesOK, Init, Idle, None
  <1>5. AnswersOK
    BY DEF AnswersOK, Init, Ended
  <1>6. CountOK
    BY <1>2, CardEmpty DEF CountOK, Init
  <1>7. EndOK
    BY DEF EndOK, Init
  <1> QED
    BY <1>1, <1>3, <1>4, <1>5, <1>6, <1>7 DEF IInv

(* Whichever notification a step makes, each lane is awake or not.         *)
LEMMA Woken ==
  ASSUME TypeOK
  PROVE  /\ notify_all => awake' \in [Lanes -> BOOLEAN]
         /\ notify_one => awake' \in [Lanes -> BOOLEAN]
         /\ UNCHANGED awake => awake' \in [Lanes -> BOOLEAN]
  <1>1. awake \in [Lanes -> BOOLEAN]
    BY DEF TypeOK
  <1>2. notify_all => awake' \in [Lanes -> BOOLEAN]
    BY DEF notify_all
  <1>3. notify_one => awake' \in [Lanes -> BOOLEAN]
    BY <1>1, Zenon DEF notify_one
  <1> QED
    BY <1>1, <1>2, <1>3

(* A step that leaves queue and lanes as they are, but for how far a       *)
(* running request is, and accepts or answers nobody.                      *)
LEMMA Quiet ==
  ASSUME IInv, TypeOK',
         UNCHANGED <<queue, outstanding, closed, active, admitted>>,
         stopping => stopping',
         \A l \in Lanes : pc'[l] = pc[l] \/
            (pc[l] \in Busy \ {"releasing"} /\ pc'[l] \in Busy \ {"releasing"}),
         \A r \in Requests : state'[r] = state[r] \/
            (/\ state[r] \notin {"queued", "active"}
             /\ state'[r] \notin {"queued", "active", "done"}
             /\ \A l \in Lanes : active[l] # r),
         \A r \in Requests : state'[r] = state[r] => result'[r] = result[r] \/ result'[r] \in Endings,
         \A l \in Lanes : pc'[l] \in Ended /\ pc'[l] # pc[l] => result'[active[l]] \in Endings
  PROVE  IInv'
  <1> USE DEF IInv
  <1>1. Queued' = Queued
    BY DEF Queued
  <1>2. Occupied' = Occupied
    BY DEF Occupied
  <1>3. QueueOK'
    BY <1>1 DEF QueueOK
  <1>4. LanesOK'
    <2>1. \A l \in Lanes : active'[l] = None <=> pc'[l] \in Idle
      BY DEF LanesOK, Busy, Idle, Ended
    <2>2. ASSUME NEW l \in Lanes, active'[l] # None
          PROVE  state'[active'[l]] = IF pc'[l] = "releasing" THEN "done" ELSE "active"
      <3>1. active[l] \in Requests
        BY <2>2 DEF TypeOK
      <3>2. state'[active[l]] = state[active[l]]
        BY <3>1
      <3>3. pc'[l] = "releasing" <=> pc[l] = "releasing"
        OBVIOUS
      <3> QED
        BY <2>2, <3>2, <3>3 DEF LanesOK
    <2>3. \A l, m \in Lanes : active'[l] # None /\ active'[l] = active'[m] => l = m
      BY DEF LanesOK
    <2>4. \A r \in Requests : state'[r] = "active" => \E l \in Lanes : active'[l] = r
      BY DEF LanesOK
    <2>5. IsInjective(admitted') /\ Range(admitted') = Occupied'
      BY <1>2 DEF LanesOK
    <2> QED
      BY <2>1, <2>2, <2>3, <2>4, <2>5 DEF LanesOK
  <1>5. AnswersOK'
    <2>1. \A r \in Requests : state'[r] = "done" => result'[r] \in Endings
      BY DEF AnswersOK
    <2>2. ASSUME NEW l \in Lanes, pc'[l] \in Ended
          PROVE  result'[active'[l]] \in Endings
      <3>1. active[l] # None
        BY <2>2, <1>4 DEF LanesOK, Ended, Idle
      <3>2. active[l] \in Requests /\ state'[active[l]] = state[active[l]]
        BY <3>1 DEF TypeOK
      <3>3. CASE pc'[l] = pc[l]
        BY <2>2, <3>2, <3>3 DEF AnswersOK
      <3> QED
        BY <2>2, <3>3
    <2> QED
      BY <2>1, <2>2 DEF AnswersOK
  <1>6. CountOK'
    BY <1>1, <1>2 DEF CountOK
  <1>7. EndOK'
    BY DEF EndOK, Busy, Ended
  <1> QED
    BY <1>3, <1>4, <1>5, <1>6, <1>7

(* submit takes its time stamp before it takes the mutex: nothing else is  *)
(* touched.                                                                *)
LEMMA StampStep ==
  ASSUME ListFacts, IInv, NEW r \in Requests, stamp(r)
  PROVE  IInv'
  <1> USE DEF stamp, engineVars, laneVars
  <1>1. TypeOK
    BY DEF IInv
  <1>2. stamps' \in Seq(Requests)
    BY <1>1, AddLast DEF TypeOK
  <1>3. home' \in [Requests -> Lanes \cup {None}]
    BY <1>1 DEF TypeOK
  <1>4. TypeOK'
    BY <1>1, <1>2, <1>3 DEF TypeOK
  <1>5. \A l \in Lanes : active[l] # r
    <2> SUFFICES ASSUME NEW l \in Lanes, active[l] = r PROVE FALSE
      BY Zenon
    <2>1. active[l] # None /\ state[active[l]] = "new"
      BY ConfigAssumption, ZenonT(60)
    <2> HIDE DEF stamp
    <2> QED
      BY <2>1, Zenon DEF IInv, LanesOK
  <1> QED
    BY <1>1, <1>4, <1>5, Quiet DEF TypeOK

(* Nobody has a request that is not accepted.                              *)
LEMMA NotHeld ==
  ASSUME IInv, NEW r \in Requests, state[r] \notin {"active", "done"}
  PROVE  \A l \in Lanes : active[l] # r
  <1> SUFFICES ASSUME NEW l \in Lanes, active[l] = r PROVE FALSE
    BY Zenon
  <1>1. active[l] # None
    BY ConfigAssumption, Zenon
  <1>2. state[r] = IF pc[l] = "releasing" THEN "done" ELSE "active"
    BY <1>1, Zenon DEF IInv, LanesOK
  <1> QED
    BY <1>2, Zenon

(* submit refuses a request, for whatever reason.                          *)
LEMMA RefuseStep ==
  ASSUME ListFacts, IInv, NEW r \in Requests, state[r] \in {"new", "stamped", "reserved"},
         NEW why \in Refusals, Refuse(r, why)
  PROVE  IInv'
  <1> USE DEF Refuse, engineVars, laneVars
  <1>1. TypeOK
    BY DEF IInv
  <1>2. stamps' \in Seq(Requests)
    BY <1>1, Erase, ZenonT(60) DEF TypeOK
  <1>3. result' \in [Requests -> Endings \cup Refusals \cup {None}]
    BY <1>1 DEF TypeOK
  <1>4. TypeOK'
    BY <1>1, <1>2, <1>3 DEF TypeOK
  <1>5. \A l \in Lanes : active[l] # r
    BY NotHeld, Zenon
  <1>6. state'[r] = "refused" /\ \A q \in Requests : q # r => state'[q] = state[q] /\ result'[q] = result[q]
    BY <1>1 DEF TypeOK
  <1>7. UNCHANGED <<queue, outstanding, stopping, closed, pc, active, admitted>>
    BY Zenon
  <1> HIDE DEF Refuse, engineVars, laneVars
  <1> QED
    BY <1>4, <1>5, <1>6, <1>7, Quiet, ZenonT(60)

(* submit before it takes the mutex for the queue: it declines the         *)
(* request, gives it a generation number or has nothing to give it.        *)
LEMMA ReserveSteps ==
  ASSUME ListFacts, IInv, NEW r \in Requests, decline(r) \/ reserve(r) \/ allocate_fails(r)
  PROVE  IInv'
  <1>1. TypeOK /\ state[r] \in {"new", "stamped", "reserved"}
    BY Zenon DEF IInv, decline, reserve, allocate_fails
  <1>2. CASE \E why \in Refusals : Refuse(r, why)
    BY <1>1, <1>2, RefuseStep
  <1>3. CASE /\ state' = [state EXCEPT ![r] = "reserved"]
             /\ UNCHANGED <<result, cancelled, cancelling, due, home, stamps, engineVars, laneVars>>
    <2> USE <1>3 DEF engineVars, laneVars
    <2>1. TypeOK'
      BY <1>1 DEF TypeOK
    <2>2. \A l \in Lanes : active[l] # r
      BY <1>1, NotHeld, Zenon
    <2>3. state'[r] = "reserved" /\ \A q \in Requests : q # r => state'[q] = state[q]
      BY <1>1 DEF TypeOK
    <2>4. UNCHANGED <<result, queue, outstanding, stopping, closed, pc, active, admitted>>
      BY Zenon
    <2> QED
      BY <1>1, <2>1, <2>2, <2>3, <2>4, Quiet
  <1> QED
    BY <1>2, <1>3, Zenon DEF decline, reserve, allocate_fails, Refusals

(* Request::cancel sets flags only.                                        *)
LEMMA CancelStep ==
  ASSUME IInv, NEW r \in Requests, cancel(r)
  PROVE  IInv'
  <1> USE DEF cancel, engineVars, laneVars
  <1>1. TypeOK
    BY DEF IInv
  <1>2. TypeOK'
    BY <1>1 DEF TypeOK
  <1> QED
    BY <1>1, <1>2, Quiet DEF TypeOK

(* A request is used again once no lane has it.                            *)
LEMMA ResubmitStep ==
  ASSUME IInv, NEW r \in Requests, resubmit(r)
  PROVE  IInv'
  <1> USE DEF resubmit, engineVars, laneVars
  <1>1. TypeOK
    BY DEF IInv
  <1>2. TypeOK'
    BY <1>1 DEF TypeOK
  <1> QED
    BY <1>1, <1>2, Quiet DEF TypeOK

(* Time passes for a waiting request.                                      *)
LEMMA DueStep ==
  ASSUME IInv, NEW r \in Requests, near(r) \/ past(r)
  PROVE  IInv'
  <1> USE DEF near, past, engineVars, laneVars
  <1>1. TypeOK
    BY DEF IInv
  <1>2. TypeOK'
    BY <1>1, ZenonT(60) DEF TypeOK
  <1> QED
    BY <1>1, <1>2, Quiet DEF TypeOK

(* A timed wait ends.                                                      *)
LEMMA TimeoutStep ==
  ASSUME IInv, NEW l \in Lanes, timeout(l)
  PROVE  IInv'
  <1> USE DEF timeout, requestVars, engineVars
  <1>1. TypeOK
    BY DEF IInv
  <1>2. TypeOK'
    BY <1>1 DEF TypeOK
  <1> QED
    BY <1>1, <1>2, Quiet DEF TypeOK

-----------------------------------------------------------------------------
(* The lanes.                                                              *)
Running == Busy \ Ended

(* A lane that is neither waiting nor gone has a request.                  *)
LEMMA HasRequest ==
  ASSUME IInv, NEW l \in Lanes, pc[l] \in Busy
  PROVE  active[l] \in Requests /\ active[l] # None
  <1>1. pc[l] \notin Idle
    BY DEF Busy, Ended, Idle
  <1>2. active[l] # None
    BY <1>1, Zenon DEF IInv, LanesOK
  <1> QED
    BY <1>2 DEF IInv, TypeOK

(* The run of a lane's request is over and has a result.                   *)
LEMMA EndStep ==
  ASSUME IInv, NEW l \in Lanes, pc[l] \in Running, NEW how \in Endings, End(l, how)
  PROVE  IInv'
  <1> USE DEF End, engineVars
  <1>1. TypeOK /\ active[l] \in Requests /\ active[l] # None
    BY HasRequest DEF IInv, Running
  <1>2. awake' \in [Lanes -> BOOLEAN]
    BY <1>1, Woken
  <1>3. how \in Endings
    OBVIOUS
  <1>4. pc' = [pc EXCEPT ![l] = "finishing"] /\ pc' \in [Lanes -> Idle \cup Busy]
    BY <1>1 DEF TypeOK, Busy, Ended
  <1>5. TypeOK'
    BY <1>1, <1>2, <1>4 DEF TypeOK
  <1>6. \A m \in Lanes : pc'[m] = pc[m] \/ m = l
    BY <1>1 DEF TypeOK
  <1>7. pc'[l] = "finishing" /\ pc[l] \in Busy \ {"releasing"}
    BY <1>1, <1>4 DEF TypeOK, Running, Ended
  <1>8. \A r \in Requests : result'[r] = result[r] \/ result'[r] \in Endings
    BY <1>1, <1>3 DEF TypeOK
  <1>9. result'[active[l]] \in Endings
    BY <1>1, <1>3 DEF TypeOK
  <1> QED
    BY <1>1, <1>5, <1>6, <1>7, <1>8, <1>9, Quiet, ZenonT(60) DEF Busy, Ended

(* A running lane moves on.                                                *)
LEMMA MoveStep ==
  ASSUME IInv, NEW l \in Lanes, NEW to \in Running, pc[l] \in Running,
         pc' = [pc EXCEPT ![l] = to],
         left' \in [Lanes -> Int], awake' \in [Lanes -> BOOLEAN],
         UNCHANGED <<requestVars, engineVars, active, admitted>>
  PROVE  IInv'
  <1> USE DEF requestVars, engineVars
  <1>1. TypeOK
    BY DEF IInv
  <1>2. pc' \in [Lanes -> Idle \cup Busy]
    BY <1>1 DEF TypeOK, Running
  <1>3. TypeOK'
    BY <1>1, <1>2 DEF TypeOK
  <1>4. \A m \in Lanes : pc'[m] = pc[m] \/ (m = l /\ pc'[m] = to)
    BY <1>1 DEF TypeOK
  <1>5. Running \subseteq Busy \ {"releasing"} /\ to \notin Ended
    BY DEF Running, Ended
  <1> QED
    BY <1>1, <1>3, <1>4, <1>5, Quiet

(* An exception unwinds the run.                                           *)
LEMMA ThrowStep ==
  ASSUME IInv, NEW l \in Lanes, pc[l] \in Running, Throw(l)
  PROVE  IInv'
  <1>1. TypeOK
    BY DEF IInv
  <1>2. left' \in [Lanes -> Int] /\ awake' \in [Lanes -> BOOLEAN]
    BY <1>1, Woken DEF Throw, TypeOK
  <1>3. "caught" \in Running
    BY DEF Running, Busy, Ended
  <1> QED
    BY <1>2, <1>3, MoveStep, Zenon DEF Throw

(* start: a cancelled or late request ends, another goes to its prompt.    *)
LEMMA StartStep ==
  ASSUME IInv, NEW l \in Lanes, start(l)
  PROVE  IInv'
  <1>1. TypeOK /\ pc[l] \in Running
    BY DEF IInv, start, Running, Busy, Ended
  <1>2. CASE End(l, "cancelled") \/ End(l, "failure")
    BY <1>1, <1>2, EndStep DEF Endings
  <1>3. CASE pc' = [pc EXCEPT ![l] = "prefill"] /\ UNCHANGED <<requestVars, engineVars, active, admitted, left, awake>>
    BY <1>1, <1>3, MoveStep, ZenonT(60) DEF TypeOK, Running, Busy, Ended
  <1> QED
    BY <1>2, <1>3 DEF start

(* prefill: the prompt is in, or the request ends there.                   *)
LEMMA PrefillStep ==
  ASSUME IInv, NEW l \in Lanes, prefill(l)
  PROVE  IInv'
  <1>1. TypeOK /\ pc[l] \in Running
    BY DEF IInv, prefill, Running, Busy, Ended
  <1>2. CASE End(l, "cancelled")
    BY <1>1, <1>2, EndStep DEF Endings
  <1>4. CASE Throw(l)
    BY <1>1, <1>4, ThrowStep
  <1>3. CASE /\ pc' = [pc EXCEPT ![l] = "gate"]
             /\ left' = [left EXCEPT ![l] = Rounds]
             /\ UNCHANGED <<requestVars, engineVars, active, admitted, awake>>
    <2>1. left' \in [Lanes -> Int] /\ awake' \in [Lanes -> BOOLEAN]
      BY <1>1, <1>3, ConfigAssumption DEF TypeOK
    <2> QED
      BY <1>1, <1>3, <2>1, MoveStep, ZenonT(60) DEF Running, Busy, Ended
  <1> QED
    BY <1>2, <1>3, <1>4 DEF prefill

(* l0_memory_gate: the request ends, decodes or suspends.                  *)
LEMMA GateStep ==
  ASSUME IInv, NEW l \in Lanes, gate(l)
  PROVE  IInv'
  <1>1. TypeOK /\ pc[l] \in Running
    BY DEF IInv, gate, Running, Busy, Ended
  <1>2. CASE End(l, "cancelled") \/ End(l, "ok")
    BY <1>1, <1>2, EndStep DEF Endings
  <1>3. CASE /\ \E to \in {"round", "suspending"} : pc' = [pc EXCEPT ![l] = to]
             /\ UNCHANGED <<requestVars, engineVars, active, admitted, left, awake>>
    BY <1>1, <1>3, MoveStep, Zenon DEF TypeOK, Running, Busy, Ended
  <1> QED
    BY <1>2, <1>3 DEF gate

(* The codes have moved to the host, or back.                              *)
LEMMA SuspendSteps ==
  ASSUME IInv, NEW l \in Lanes, suspend(l) \/ resumed(l)
  PROVE  IInv'
  <1>1. TypeOK /\ pc[l] \in Running
    BY DEF IInv, suspend, resumed, Running, Busy, Ended
  <1>2. awake' \in [Lanes -> BOOLEAN] /\ left' \in [Lanes -> Int]
    BY <1>1, Woken DEF suspend, resumed, TypeOK
  <1> QED
    BY <1>1, <1>2, MoveStep DEF suspend, resumed, Running, Busy, Ended

(* A woken suspended lane resumes or waits on.                             *)
LEMMA ResumeStep ==
  ASSUME IInv, NEW l \in Lanes, resume(l)
  PROVE  IInv'
  <1>1. TypeOK /\ pc[l] \in Running /\ pc[l] = "suspended"
    BY DEF IInv, resume, Running, Busy, Ended
  <1>2. awake' \in [Lanes -> BOOLEAN] /\ left' \in [Lanes -> Int]
    BY <1>1, Zenon DEF resume, TypeOK
  <1>3. \E to \in Running : pc' = [pc EXCEPT ![l] = to]
    <2>1. CASE pc' = [pc EXCEPT ![l] = "resuming"]
      BY <2>1, Zenon DEF Running, Busy, Ended
    <2>2. CASE UNCHANGED pc
      <3>1. pc' = [pc EXCEPT ![l] = "suspended"]
        BY <1>1, <2>2 DEF TypeOK
      <3> QED
        BY <3>1, Zenon DEF Running, Busy, Ended
    <2> QED
      BY <2>1, <2>2 DEF resume
  <1> QED
    BY <1>1, <1>2, <1>3, MoveStep, Zenon DEF resume

(* A decode round.                                                         *)
LEMMA RoundStep ==
  ASSUME IInv, NEW l \in Lanes, round(l)
  PROVE  IInv'
  <1>1. TypeOK /\ pc[l] \in Running
    BY DEF IInv, round, Running, Busy, Ended
  <1>2. left' \in [Lanes -> Int] /\ awake' \in [Lanes -> BOOLEAN]
    BY <1>1 DEF round, TypeOK
  <1> QED
    BY <1>1, <1>2, MoveStep, Zenon DEF round, Running, Busy, Ended

(* The waiting requests and the busy lanes can be counted.                 *)
LEMMA Finite ==
  ASSUME ListFacts
  PROVE  /\ IsFiniteSet(Queued) /\ Cardinality(Queued) \in Nat
  /\ IsFiniteSet(Occupied) /\ Cardinality(Occupied) \in Nat
  <1>1. IsFiniteSet(Requests) /\ IsFiniteSet(Lanes)
    BY ConfigAssumption
  <1>2. Queued \subseteq Requests /\ Occupied \subseteq Lanes
    BY DEF Queued, Occupied
  <1> QED
    BY <1>1, <1>2, CardSubset, CardType

(* Nobody has a waiting request, and while one waits no lane has left.     *)
LEMMA Waiting ==
  ASSUME ListFacts, IInv, NEW r \in Range(queue)
  PROVE  /\ r \in Requests /\ state[r] = "queued"
         /\ \A l \in Lanes : active[l] # r
         /\ \A l \in Lanes : pc[l] # "exited"
  <1>1. r \in Requests /\ state[r] = "queued"
    BY DEF IInv, QueueOK, Queued
  <1>2. \A l \in Lanes : active[l] # r
    BY <1>1, ConfigAssumption DEF IInv, LanesOK
  <1>3. queue # <<>>
    BY EmptyList
  <1> QED
    BY <1>1, <1>2, <1>3 DEF IInv, EndOK

(* No request is in two lanes.                                            *)
LEMMA OneLaneEach ==
  ASSUME IInv, NEW l \in Lanes, NEW m \in Lanes, active[l] # None, active[l] = active[m]
  PROVE  l = m
  BY DEF IInv, LanesOK

(* Selection moves the request from the queue to the lane; its place goes  *)
(* with it, so outstanding stays.                                          *)
LEMMA TakeStep ==
  ASSUME ListFacts, IInv, NEW l \in Lanes, pc[l] = "wait", NEW r \in Range(queue), take(l, r)
  PROVE  IInv'
  <1> USE DEF take
  <1>1. TypeOK /\ active[l] = None
    BY DEF IInv, LanesOK, Idle
  <1>2. /\ r \in Requests /\ state[r] = "queued" /\ r # None
        /\ \A m \in Lanes : active[m] # r
        /\ \A m \in Lanes : pc[m] # "exited"
    BY Waiting, ConfigAssumption
  <1>3. /\ queue' \in Seq(Requests) /\ stamps' \in Seq(Requests)
        /\ Range(queue') = Range(queue) \ {r} /\ IsInjective(queue')
    <2>1. queue \in Seq(Requests) /\ stamps \in Seq(Requests) /\ IsInjective(queue)
      BY <1>1, Zenon DEF TypeOK, IInv, QueueOK
    <2>2. queue' = Without(queue, {r}) /\ stamps' = Without(stamps, {r})
      BY Zenon
    <2> HIDE DEF take
    <2> QED
      BY <2>1, <2>2, EraseOne, Zenon
  <1>4. l \notin Occupied
    BY <1>1, Zenon DEF Occupied
  <1>5. /\ admitted' \in Seq(Lanes) /\ IsInjective(admitted')
        /\ Range(admitted') = Occupied \cup {l}
    <2>1. PICK s \in Seq(Lanes) : s = admitted
      BY <1>1, Zenon DEF TypeOK
    <2>2. admitted' = Append(s, l) /\ IsInjective(s) /\ Range(s) = Occupied
      BY <2>1, Zenon DEF IInv, LanesOK
    <2> HIDE DEF take
    <2>3. /\ Append(s, l) \in Seq(Lanes) /\ Range(Append(s, l)) = Range(s) \cup {l}
          /\ IsInjective(s) /\ l \notin Range(s) => IsInjective(Append(s, l))
      BY AddLast
    <2> QED
      BY <2>2, <2>3, <1>4, Zenon
  <1>6. home' \in [Requests -> Lanes \cup {None}]
    BY <1>1 DEF TypeOK
  <1>7. awake' \in [Lanes -> BOOLEAN]
    BY <1>1, Woken, ZenonT(60)
  <1>8. pc' \in [Lanes -> Idle \cup Busy] /\ active' \in [Lanes -> Requests \cup {None}]
    BY <1>1, <1>2 DEF TypeOK, Busy
  <1>9. TypeOK'
    BY <1>1, <1>3, <1>5, <1>6, <1>7, <1>8, ZenonT(60) DEF TypeOK
  <1>10. Queued' = Queued \ {r} /\ r \in Queued
    BY <1>1, <1>2 DEF Queued, TypeOK
  <1>11. Occupied' = Occupied \cup {l}
    BY <1>1, <1>2 DEF Occupied, TypeOK
  <1>12. QueueOK'
    BY <1>3, <1>10, ZenonT(60) DEF QueueOK, IInv
  <1>13. LanesOK'
    <2>1. \A m \in Lanes : m # l => active'[m] = active[m] /\ pc'[m] = pc[m]
      BY <1>1 DEF TypeOK
    <2>2. active'[l] = r /\ pc'[l] = "taken" /\ state'[r] = "active"
      BY <1>1, <1>2 DEF TypeOK
    <2>3. \A q \in Requests : q # r => state'[q] = state[q]
      BY <1>1 DEF TypeOK
    <2>4. \A m \in Lanes : active'[m] = None <=> pc'[m] \in Idle
      <3> HIDE DEF take
      <3>1. \A m \in Lanes : active[m] = None <=> pc[m] \in Idle
        BY Zenon DEF IInv, LanesOK
      <3>2. active'[l] # None /\ pc'[l] \notin Idle
        BY <2>2, <1>2, ZenonT(60) DEF Idle
      <3> QED
        BY <3>1, <3>2, <2>1, Zenon
    <2>5. \A m \in Lanes : active'[m] # None =>
            state'[active'[m]] = IF pc'[m] = "releasing" THEN "done" ELSE "active"
      <3> SUFFICES ASSUME NEW m \in Lanes, active'[m] # None
                   PROVE  state'[active'[m]] = IF pc'[m] = "releasing" THEN "done" ELSE "active"
        OBVIOUS
      <3>1. CASE m = l
        BY <3>1, <2>2
      <3>2. CASE m # l
        <4>1. active'[m] = active[m] /\ pc'[m] = pc[m]
          BY <3>2, <2>1, Zenon
        <4>2. active[m] \in Requests /\ active[m] # r
          BY <4>1, <1>1, <1>2, Zenon DEF TypeOK
        <4>3. state'[active[m]] = state[active[m]]
          BY <4>2, <2>3, Zenon
        <4> QED
          BY <4>1, <4>2, <4>3, ZenonT(60) DEF IInv, LanesOK
      <3> QED
        BY <3>1, <3>2
    <2>6. \A m, n \in Lanes : active'[m] # None /\ active'[m] = active'[n] => m = n
      <3> SUFFICES ASSUME NEW m \in Lanes, NEW n \in Lanes, active'[m] # None, active'[m] = active'[n]
                   PROVE  m = n
        BY Zenon
      <3>1. \A k \in Lanes : active'[k] = r => k = l
        BY <2>1, <1>2, Zenon
      <3>2. CASE active'[m] = r
        BY <3>1, <3>2, Zenon
      <3>3. CASE active'[m] # r
        <4>1. m # l /\ n # l
          BY <3>3, <2>2, Zenon
        <4>2. active[m] # None /\ active[m] = active[n]
          BY <4>1, <2>1, Zenon
        <4> QED
          BY <4>2, OneLaneEach, Zenon
      <3> QED
        BY <3>2, <3>3, Zenon
    <2>7. \A q \in Requests : state'[q] = "active" => \E m \in Lanes : active'[m] = q
      <3> SUFFICES ASSUME NEW q \in Requests, state'[q] = "active"
                   PROVE  \E m \in Lanes : active'[m] = q
        OBVIOUS
      <3>1. CASE q = r
        BY <3>1, <2>2
      <3>2. CASE q # r
        <4>1. PICK m \in Lanes : active[m] = q
          BY <3>2, <2>3 DEF IInv, LanesOK
        <4>2. m # l
          BY <4>1, <1>1, ConfigAssumption
        <4> QED
          BY <4>1, <4>2, <2>1
      <3> QED
        BY <3>1, <3>2, ZenonT(60)
    <2> QED
      BY <2>4, <2>5, <2>6, <2>7, <1>5, <1>11 DEF LanesOK
  <1>14. AnswersOK'
    <2>1. \A q \in Requests : state'[q] = "done" => result'[q] \in Endings
      BY <1>1, <1>2 DEF IInv, AnswersOK, TypeOK
    <2>2. ASSUME NEW m \in Lanes, pc'[m] \in Ended
          PROVE  result'[active'[m]] \in Endings
      <3>1. m # l
        BY <2>2, <1>1 DEF TypeOK, Ended
      <3> QED
        BY <2>2, <3>1, <1>1 DEF IInv, AnswersOK, TypeOK
    <2> QED
      BY <2>1, <2>2, ZenonT(60) DEF AnswersOK
  <1>15. CountOK'
    <2>1. Cardinality(Queued') = Cardinality(Queued) - 1
      BY <1>10, Finite, CardRemove, Zenon
    <2>2. Cardinality(Occupied') = Cardinality(Occupied) + 1
      BY <1>4, <1>11, Finite, CardAdd, Zenon
    <2>3. outstanding' = outstanding
      BY ZenonT(60)
    <2> HIDE DEF take
    <2> QED
      BY <2>1, <2>2, <2>3, Finite DEF IInv, CountOK
  <1>16. EndOK'
    BY <1>1, <1>2 DEF IInv, EndOK, TypeOK
  <1> QED
    BY <1>9, <1>12, <1>13, <1>14, <1>15, <1>16 DEF IInv

(* A woken lane takes a request, leaves or waits again.                    *)
LEMMA LookStep ==
  ASSUME ListFacts, IInv, NEW l \in Lanes, look(l)
  PROVE  IInv'
  <1>1. TypeOK /\ pc[l] = "wait"
    BY DEF IInv, look
  <1>2. CASE \E r \in ready_request(l) : take(l, r)
    BY <1>1, <1>2, TakeStep DEF ready_request
  <1>3. CASE queue # <<>> /\ take(l, Head(queue))
    <2>1. Head(queue) \in Range(queue)
      BY <1>1, <1>3, ElementsOf DEF TypeOK
    <2> QED
      BY <1>1, <1>3, <2>1, TakeStep
  <1>4. CASE /\ stopping /\ queue = <<>>
             /\ pc' = [pc EXCEPT ![l] = "exited"]
             /\ UNCHANGED <<requestVars, engineVars, active, admitted, left, awake>>
    <2> USE <1>4 DEF requestVars, engineVars
    <2>1. pc' \in [Lanes -> Idle \cup Busy]
      BY <1>1 DEF TypeOK, Idle
    <2>2. TypeOK'
      BY <1>1, <2>1 DEF TypeOK
    <2>3. \A m \in Lanes : pc'[m] = pc[m] \/ (m = l /\ pc'[m] = "exited")
      BY <1>1 DEF TypeOK
    <2>4. QueueOK' /\ CountOK'
      BY Zenon DEF IInv, QueueOK, CountOK, Queued, Occupied
    <2>5. LanesOK'
      <3>1. \A m \in Lanes : active'[m] = None <=> pc'[m] \in Idle
        BY <1>1, <2>3, Zenon DEF IInv, LanesOK, Idle
      <3>2. \A m \in Lanes : pc'[m] = "releasing" <=> pc[m] = "releasing"
        BY <1>1, <2>3
      <3> QED
        BY <3>1, <3>2, ZenonT(60) DEF IInv, LanesOK, Occupied
    <2>6. AnswersOK'
      BY <2>3 DEF IInv, AnswersOK, Ended
    <2>7. EndOK'
      BY <2>3, ZenonT(60) DEF IInv, EndOK
    <2> QED
      BY <2>2, <2>4, <2>5, <2>6, <2>7 DEF IInv
  <1>5. CASE /\ awake' = [awake EXCEPT ![l] = FALSE]
             /\ UNCHANGED <<requestVars, engineVars, pc, active, admitted, left>>
    <2>1. TypeOK'
      BY <1>1, <1>5 DEF TypeOK, requestVars, engineVars
    <2> QED
      BY <1>1, <1>5, <2>1, Quiet DEF TypeOK, requestVars, engineVars
  <1> QED
    BY <1>2, <1>3, <1>4, <1>5 DEF look

(* The result is published and the lane still has the request.             *)
LEMMA CompleteStep ==
  ASSUME IInv, NEW l \in Lanes, complete(l)
  PROVE  IInv'
  <1> USE DEF complete, engineVars
  <1> DEFINE r == active[l]
  <1>1. TypeOK /\ pc[l] = "finishing" /\ r \in Requests /\ r # None
    BY HasRequest DEF IInv, Busy, Ended
  <1>2. state[r] = "active" /\ result[r] \in Endings
    BY <1>1 DEF IInv, LanesOK, AnswersOK, Ended
  <1>3. pc' \in [Lanes -> Idle \cup Busy]
    BY <1>1 DEF TypeOK, Busy, Ended
  <1>4. TypeOK'
    BY <1>1, <1>3 DEF TypeOK
  <1>5. /\ \A m \in Lanes : m # l => pc'[m] = pc[m]
        /\ pc'[l] = "releasing" /\ state'[r] = "done"
        /\ \A q \in Requests : q # r => state'[q] = state[q]
    BY <1>1 DEF TypeOK
  <1>6. Queued' = Queued /\ Occupied' = Occupied
    BY <1>2, <1>5 DEF Queued, Occupied
  <1>7. QueueOK' /\ CountOK'
    BY <1>6 DEF IInv, QueueOK, CountOK
  <1>8. LanesOK'
    <2>1. \A m \in Lanes : active'[m] = None <=> pc'[m] \in Idle
      BY <1>1, <1>5 DEF IInv, LanesOK, Idle
    <2>2. \A m \in Lanes : m # l => active[m] # r
      BY <1>1 DEF IInv, LanesOK
    <2>3. \A m \in Lanes : active'[m] # None =>
            state'[active'[m]] = IF pc'[m] = "releasing" THEN "done" ELSE "active"
      <3> SUFFICES ASSUME NEW m \in Lanes, active[m] # None
                   PROVE  state'[active[m]] = IF pc'[m] = "releasing" THEN "done" ELSE "active"
        OBVIOUS
      <3>1. CASE m = l
        BY <3>1, <1>5
      <3>2. CASE m # l
        <4> HIDE DEF complete, r
        <4>1. active[m] \in Requests /\ active[m] # r
          BY <3>2, <2>2, <1>1, Zenon DEF TypeOK
        <4>2. state'[active[m]] = state[active[m]] /\ pc'[m] = pc[m]
          BY <3>2, <4>1, <1>5, ZenonT(60)
        <4> QED
          BY <4>2, Zenon DEF IInv, LanesOK
      <3> QED
        BY <3>1, <3>2
    <2>4. \A q \in Requests : state'[q] = "active" => \E m \in Lanes : active'[m] = q
      BY <1>5 DEF IInv, LanesOK
    <2> QED
      BY <2>1, <2>3, <2>4, <1>6 DEF IInv, LanesOK
  <1>9. AnswersOK'
    BY <1>1, <1>2, <1>5 DEF IInv, AnswersOK
  <1>10. EndOK'
    BY <1>1, <1>5 DEF IInv, EndOK
  <1> QED
    BY <1>4, <1>7, <1>8, <1>9, <1>10, ZenonT(60) DEF IInv

(* The lane gives the place back, and outstanding goes down by one.        *)
LEMMA ReleaseStep ==
  ASSUME ListFacts, IInv, NEW l \in Lanes, release(l)
  PROVE  IInv'
  <1> USE DEF release, requestVars
  <1> DEFINE r == active[l]
  <1>1. TypeOK /\ pc[l] = "releasing" /\ r \in Requests /\ r # None
    BY HasRequest DEF IInv, Busy, Ended
  <1>2. state[r] = "done"
    BY <1>1 DEF IInv, LanesOK
  <1>3. pc' \in [Lanes -> Idle \cup Busy] /\ active' \in [Lanes -> Requests \cup {None}]
    BY <1>1 DEF TypeOK, Idle
  <1>4. /\ admitted' \in Seq(Lanes) /\ IsInjective(admitted')
        /\ Range(admitted') = Occupied \ {l}
    <2>1. admitted \in Seq(Lanes) /\ IsInjective(admitted) /\ Range(admitted) = Occupied
      BY <1>1, Zenon DEF TypeOK, IInv, LanesOK
    <2>2. admitted' = Without(admitted, {l})
      BY Zenon
    <2> HIDE DEF release
    <2>3. /\ Without(admitted, {l}) \in Seq(Lanes) /\ IsInjective(Without(admitted, {l}))
          /\ Range(Without(admitted, {l})) = Range(admitted) \ {l}
      <3>1. PICK s \in Seq(Lanes) : s = admitted
        BY <2>1, Zenon
      <3>2. IsInjective(s)
        BY <2>1, <3>1, Zenon
      <3>3. /\ Without(s, {l}) \in Seq(Lanes) /\ IsInjective(Without(s, {l}))
            /\ Range(Without(s, {l})) = Range(s) \ {l}
        BY <3>2, EraseOne, ZenonT(60)
      <3> QED
        BY <3>1, <3>3, Zenon
    <2> QED
      BY <2>1, <2>2, <2>3, Zenon
  <1>5. awake' \in [Lanes -> BOOLEAN]
    BY <1>1, Woken
  <1>6. TypeOK'
    <2>1. outstanding' \in Int
      BY <1>1 DEF TypeOK
    <2>2. UNCHANGED requestVars /\ UNCHANGED <<queue, stopping, failed, closed, left>>
      BY ZenonT(60)
    <2> HIDE DEF release
    <2> QED
      BY <1>1, <1>3, <1>4, <1>5, <2>1, <2>2 DEF TypeOK
  <1>7. /\ \A m \in Lanes : m # l => pc'[m] = pc[m] /\ active'[m] = active[m]
        /\ pc'[l] = "wait" /\ active'[l] = None
    BY <1>1 DEF TypeOK
  <1>8. Queued' = Queued
    BY DEF Queued
  <1>9. Occupied' = Occupied \ {l} /\ l \in Occupied
    BY <1>1, <1>7 DEF Occupied
  <1>10. QueueOK'
    BY <1>8 DEF IInv, QueueOK
  <1>11. LanesOK'
    <2>1. \A m \in Lanes : active'[m] = None <=> pc'[m] \in Idle
      <3> HIDE DEF release, r
      <3>1. \A m \in Lanes : active[m] = None <=> pc[m] \in Idle
        BY Zenon DEF IInv, LanesOK
      <3>2. pc'[l] \in Idle
        BY <1>7, Zenon DEF Idle
      <3> QED
        BY <3>1, <3>2, <1>7, Zenon
    <2>2. \A m \in Lanes : active'[m] # None =>
            state'[active'[m]] = IF pc'[m] = "releasing" THEN "done" ELSE "active"
      <3> SUFFICES ASSUME NEW m \in Lanes, active'[m] # None
                   PROVE  state'[active'[m]] = IF pc'[m] = "releasing" THEN "done" ELSE "active"
        BY Zenon
      <3>1. state' = state
        BY Zenon
      <3> HIDE DEF release, r
      <3>2. active'[m] = active[m] /\ pc'[m] = pc[m] /\ active[m] # None
        BY <1>7, Zenon
      <3>3. state[active[m]] = IF pc[m] = "releasing" THEN "done" ELSE "active"
        BY <3>2, Zenon DEF IInv, LanesOK
      <3> QED
        BY <3>1, <3>2, <3>3, Zenon
    <2>3. \A m, n \in Lanes : active'[m] # None /\ active'[m] = active'[n] => m = n
      <3> HIDE DEF release, r
      <3> SUFFICES ASSUME NEW m \in Lanes, NEW n \in Lanes, active'[m] # None, active'[m] = active'[n]
                   PROVE  m = n
        BY Zenon
      <3>1. active[m] # None /\ active[m] = active[n]
        BY <1>7, Zenon
      <3> QED
        BY <3>1, OneLaneEach, Zenon
    <2>4. \A q \in Requests : state'[q] = "active" => \E m \in Lanes : active'[m] = q
      <3> SUFFICES ASSUME NEW q \in Requests, state'[q] = "active"
                   PROVE  \E m \in Lanes : active'[m] = q
        BY Zenon
      <3>1. state[q] = "active"
        BY Zenon
      <3> HIDE DEF release
      <3>2. PICK m \in Lanes : active[m] = q
        BY <3>1, Zenon DEF IInv, LanesOK
      <3>3. m # l
        BY <3>1, <3>2, <1>2, ZenonT(60)
      <3> QED
        BY <3>2, <3>3, <1>7, Zenon
    <2> QED
      BY <2>1, <2>2, <2>3, <2>4, <1>4, <1>9, Zenon DEF LanesOK
  <1>12. AnswersOK'
    BY <1>7 DEF IInv, AnswersOK, Ended
  <1>13. CountOK'
    <2>1. Cardinality(Occupied') = Cardinality(Occupied) - 1
      BY <1>9, Finite, CardRemove, Zenon
    <2> QED
      BY <2>1, <1>8, Finite DEF IInv, CountOK
  <1>14. EndOK'
    BY <1>1, <1>7, ZenonT(60) DEF IInv, EndOK
  <1> QED
    BY <1>6, <1>10, <1>11, <1>12, <1>13, <1>14 DEF IInv

(* close cancels everything; the lanes do the rest.                        *)
LEMMA CloseStep ==
  ASSUME IInv, close
  PROVE  IInv'
  <1> USE DEF close
  <1>1. TypeOK
    BY Zenon DEF IInv
  <1>2. awake' \in [Lanes -> BOOLEAN]
    BY <1>1, Woken, Zenon
  <1>3. cancelled' \in [Requests -> BOOLEAN]
    BY ZenonT(60)
  <1>4. TypeOK'
    BY <1>1, <1>2, <1>3 DEF TypeOK
  <1> QED
    BY <1>1, <1>4, Quiet DEF TypeOK

(* close has joined the workers.                                           *)
LEMMA JoinStep ==
  ASSUME IInv, join
  PROVE  IInv'
  <1> USE DEF join, requestVars, laneVars
  <1>1. TypeOK'
    BY Zenon DEF IInv, TypeOK
  <1>2. QueueOK' /\ LanesOK' /\ AnswersOK' /\ CountOK' /\ EndOK'
    BY ZenonT(60) DEF IInv, QueueOK, LanesOK, AnswersOK, CountOK, EndOK, Queued, Occupied
  <1> QED
    BY <1>1, <1>2 DEF IInv

-----------------------------------------------------------------------------
(* What a lane has is a request.                                           *)
LEMMA HeldType ==
  ASSUME TypeOK, NEW l \in Lanes, active[l] # None
  PROVE  active[l] \in Requests
  BY DEF TypeOK

(* How many are left when those of G went and those of C came.             *)
LEMMA Recounted ==
  ASSUME ListFacts, NEW S, NEW G \in SUBSET S, NEW C, NEW k \in Nat,
         IsFiniteSet(S), IsFiniteSet(C), S \cap C = {}
  PROVE  ((Cardinality(S) + k) - Cardinality(G)) + Cardinality(C) = Cardinality((S \ G) \cup C) + k
  <1>1. S \cap G = G /\ (S \ G) \cap C = {}
    BY Zenon
  <1>2. IsFiniteSet(G) /\ IsFiniteSet(S \ G) /\ Cardinality(S \ G) = Cardinality(S) - Cardinality(G)
    BY <1>1, CardSubset, CardDifference, ZenonT(60)
  <1>3. Cardinality((S \ G) \cup C) = Cardinality(S \ G) + Cardinality(C) - 0
    <2>1. PICK D : D = S \ G
      BY Zenon
    <2>2. IsFiniteSet(D) /\ D \cap C = {}
      BY <2>1, <1>1, <1>2, Zenon
    <2>3. Cardinality(D \cup C) = Cardinality(D) + Cardinality(C) - Cardinality(D \cap C)
      BY <2>2, CardUnion, Zenon
    <2>4. Cardinality(D \cap C) = 0
      BY <2>2, CardEmpty, Zenon
    <2> QED
      BY <2>1, <2>3, <2>4, Zenon
  <1>4. Cardinality(S) \in Nat /\ Cardinality(G) \in Nat /\ Cardinality(C) \in Nat
    BY <1>2, CardType, Zenon
  <1> QED
    BY <1>2, <1>3, <1>4

(* outstanding follows the queue while the lanes keep their requests.      *)
LEMMA CountKept ==
  ASSUME ListFacts, CountOK, NEW gone \in SUBSET Queued, NEW come, IsFiniteSet(come),
         come \cap Queued = {}, Queued' = (Queued \ gone) \cup come, Occupied' = Occupied,
         outstanding' = outstanding - Cardinality(gone) + Cardinality(come)
  PROVE  CountOK'
  <1>1. PICK S, k : S = Queued /\ k = Cardinality(Occupied)
    BY Zenon
  <1>2. gone \in SUBSET S /\ k \in Nat /\ IsFiniteSet(S) /\ S \cap come = {}
    BY <1>1, Finite, Zenon
  <1>3. ((Cardinality(S) + k) - Cardinality(gone)) + Cardinality(come)
        = Cardinality((S \ gone) \cup come) + k
    BY <1>2, Recounted
  <1>4. outstanding = Cardinality(S) + k
    BY <1>1, Zenon DEF CountOK
  <1> QED
    BY <1>1, <1>3, <1>4, Zenon DEF CountOK

(* The queue.  The waiting requests of `gone` are answered and the ones of *)
(* `come` enter, if the engine is up; another one may be refused.          *)
LEMMA Exchange ==
  ASSUME ListFacts, IInv, TypeOK', NEW gone \in SUBSET Range(queue), NEW come \in SUBSET Requests,
         \A r \in gone : state'[r] = "done" /\ result'[r] \in Endings,
         \A r \in come : state[r] = "reserved" /\ state'[r] = "queued",
         \A r \in Requests \ (gone \cup come) :
            state'[r] = state[r] \/ (state[r] = "reserved" /\ state'[r] = "refused"),
         \A r \in Requests : state'[r] = state[r] => result'[r] = result[r] \/ result'[r] \in Endings,
         IsInjective(queue'), Range(queue') = (Range(queue) \ gone) \cup come,
         outstanding' = outstanding - Cardinality(gone) + Cardinality(come),
         come # {} => ~stopping,
         \A l \in Lanes : pc'[l] = pc[l] \/
            (pc[l] \in Running /\ pc'[l] = "finishing" /\ result'[active[l]] \in Endings),
         UNCHANGED <<stopping, closed, active, admitted>>
  PROVE  IInv'
  <1> USE DEF IInv
  <1>1. gone \subseteq Queued /\ gone \subseteq Requests
    BY DEF QueueOK, Queued
  <1>2. come \cap Queued = {}
    BY DEF Queued
  <1>3. Queued' = (Queued \ gone) \cup come
    BY <1>1 DEF Queued
  <1>4. Occupied' = Occupied
    BY DEF Occupied
  <1>5. QueueOK'
    BY <1>3 DEF QueueOK
  <1>6. \A l \in Lanes : active[l] # None => active[l] \in Requests /\ state'[active[l]] = state[active[l]]
    <2> SUFFICES ASSUME NEW l \in Lanes, active[l] # None
                 PROVE  active[l] \in Requests /\ state'[active[l]] = state[active[l]]
      BY Zenon
    <2>1. active[l] \in Requests /\ state[active[l]] \in {"active", "done"}
      <3>1. active[l] \in Requests
        BY HeldType, Zenon
      <3>2. state[active[l]] = IF pc[l] = "releasing" THEN "done" ELSE "active"
        BY Zenon DEF LanesOK
      <3> QED
        BY <3>1, <3>2, Zenon
    <2>2. active[l] \notin gone /\ active[l] \notin come
      BY <2>1, <1>1, Zenon DEF Queued
    <2> QED
      BY <2>1, <2>2, Zenon
  <1>7. LanesOK'
    <2>1. \A l \in Lanes : active'[l] = None <=> pc'[l] \in Idle
      BY Zenon DEF LanesOK, Running, Busy, Ended, Idle
    <2>2. \A l \in Lanes : pc'[l] = "releasing" <=> pc[l] = "releasing"
      BY Zenon DEF Running, Busy, Ended
    <2>3. \A l \in Lanes : active'[l] # None =>
            state'[active'[l]] = IF pc'[l] = "releasing" THEN "done" ELSE "active"
      <3> SUFFICES ASSUME NEW l \in Lanes, active'[l] # None
                   PROVE  state'[active'[l]] = IF pc'[l] = "releasing" THEN "done" ELSE "active"
        BY Zenon
      <3>1. active'[l] = active[l] /\ active[l] # None
        BY Zenon
      <3>2. state'[active[l]] = state[active[l]]
        BY <3>1, <1>6, Zenon
      <3>3. state[active[l]] = IF pc[l] = "releasing" THEN "done" ELSE "active"
        BY <3>1, Zenon DEF LanesOK
      <3> QED
        BY <3>1, <3>2, <3>3, <2>2, Zenon
    <2>4. \A l, m \in Lanes : active'[l] # None /\ active'[l] = active'[m] => l = m
      <3>1. active' = active /\ LanesOK
        BY Zenon
      <3>2. \A l, m \in Lanes : active[l] # None /\ active[l] = active[m] => l = m
        BY <3>1, Zenon DEF LanesOK
      <3>3. ASSUME NEW l \in Lanes, NEW m \in Lanes, active'[l] # None, active'[l] = active'[m]
            PROVE  l = m
        <4>1. active[l] # None /\ active[l] = active[m]
          BY <3>1, <3>3, Zenon
        <4> QED
          BY <3>2, <4>1, Zenon
      <3> QED
        BY <3>3, Zenon
    <2>5. \A r \in Requests : state'[r] = "active" => state[r] = "active"
      BY Zenon
    <2>6. \A r \in Requests : state'[r] = "active" => \E l \in Lanes : active'[l] = r
      <3> SUFFICES ASSUME NEW r \in Requests, state'[r] = "active"
                   PROVE  \E l \in Lanes : active'[l] = r
        BY Zenon
      <3>1. PICK l \in Lanes : active[l] = r
        BY <2>5, Zenon DEF LanesOK
      <3>2. active'[l] = active[l]
        BY Zenon
      <3> QED
        BY <3>1, <3>2, Zenon
    <2> QED
      BY <2>1, <2>3, <2>4, <2>6, <1>4, ZenonT(60) DEF LanesOK
  <1>8. AnswersOK'
    <2>1. \A r \in Requests : state'[r] = "done" => result'[r] \in Endings
      BY Zenon DEF AnswersOK
    <2>2. ASSUME NEW l \in Lanes, pc'[l] \in Ended
          PROVE  result'[active'[l]] \in Endings
      <3>1. CASE pc'[l] = pc[l]
        <4>1. active[l] # None
          BY <2>2, <3>1, Zenon DEF LanesOK, Ended, Idle
        <4> QED
          <5>1. active'[l] = active[l] /\ active[l] \in Requests
            BY <4>1, <1>6, Zenon
          <5>2. result[active[l]] \in Endings
            BY <2>2, <3>1, Zenon DEF AnswersOK
          <5>3. state'[active[l]] = state[active[l]]
            BY <4>1, <1>6, Zenon
          <5>4. result'[active[l]] = result[active[l]] \/ result'[active[l]] \in Endings
            BY <5>1, <5>3, Zenon
          <5> QED
            BY <5>1, <5>2, <5>4, Zenon
      <3> QED
        BY <3>1, Zenon
    <2> QED
      BY <2>1, <2>2, Zenon DEF AnswersOK
  <1>9. CountOK'
    <2>1. IsFiniteSet(come)
      BY ConfigAssumption, CardSubset, Zenon
    <2>2. CountOK /\ gone \in SUBSET Queued
      BY <1>1, Zenon
    <2> HIDE DEF IInv
    <2> QED
      BY <2>1, <2>2, <1>2, <1>3, <1>4, CountKept, ZenonT(60)
  <1>10. EndOK'
    <2>1. come = {} /\ queue = <<>> => queue' = <<>>
      BY ElementsOf, EmptyList, ZenonT(60) DEF TypeOK
    <2>3. \A l \in Lanes : pc'[l] = "exited" => stopping' /\ queue' = <<>>
      BY <2>1 DEF EndOK
    <2>4. closed' => \A l \in Lanes : pc'[l] = "exited"
      <3>1. "exited" \notin Running
        BY Zenon DEF Running, Busy, Ended
      <3>2. closed => \A l \in Lanes : pc[l] = "exited"
        BY ZenonT(60) DEF EndOK
      <3> QED
        BY <3>1, <3>2, Zenon
    <2> QED
      BY <2>3, <2>4, Zenon DEF EndOK
  <1> QED
    BY <1>5, <1>7, <1>8, <1>9, <1>10, ZenonT(60)

(* cancel_queued takes the request out of the queue if it is still there,  *)
(* with its place, and does nothing otherwise.                             *)
LEMMA CancelQueuedStep ==
  ASSUME ListFacts, IInv, NEW r \in Requests, cancel_queued(r)
  PROVE  IInv'
  <1> USE DEF cancel_queued
  <1>1. TypeOK
    BY DEF IInv
  <1>2. CASE r \in Range(queue)
    <2> USE <1>2 DEF Complete
    <2>1. /\ queue' \in Seq(Requests) /\ stamps' \in Seq(Requests)
          /\ Range(queue') = Range(queue) \ {r} /\ IsInjective(queue')
      <3>1. queue \in Seq(Requests) /\ stamps \in Seq(Requests) /\ IsInjective(queue)
        BY <1>1, Zenon DEF TypeOK, IInv, QueueOK
      <3>2. queue' = Without(queue, {r}) /\ stamps' = Without(stamps, {r})
        BY Zenon
      <3> QED
        BY <3>1, <3>2, EraseOne, Zenon
    <2>2. awake' \in [Lanes -> BOOLEAN]
      BY <1>1, Woken
    <2>3. result' \in [Requests -> Endings \cup Refusals \cup {None}]
      BY <1>1 DEF TypeOK, Endings
    <2>4. TypeOK'
      <3>1. /\ state' \in [Requests -> {"new", "stamped", "reserved", "queued", "active", "done", "refused"}]
            /\ outstanding' \in Int
        <4>1. state' = [state EXCEPT ![r] = "done"] /\ outstanding' = outstanding - 1
          OBVIOUS
        <4> HIDE DEF cancel_queued
        <4> QED
          BY <1>1, <4>1 DEF TypeOK
      <3>2. cancelling' \in [Requests -> BOOLEAN]
        BY <1>1 DEF TypeOK
      <3> QED
        BY <1>1, <2>1, <2>2, <2>3, <3>1, <3>2 DEF TypeOK
    <2>5. state'[r] = "done" /\ result'[r] \in Endings
      <3>1. /\ state' = [state EXCEPT ![r] = "done"]
            /\ result' = [q \in Requests |-> IF q \in {r} THEN "cancelled" ELSE result[q]]
        BY Zenon
      <3> HIDE DEF cancel_queued, Complete
      <3> QED
        BY <1>1, <3>1, Zenon DEF TypeOK, Endings
    <2>6. \A q \in Requests : q # r => state'[q] = state[q] /\ result'[q] = result[q]
      <3>1. /\ state' = [state EXCEPT ![r] = "done"]
            /\ result' = [q \in Requests |-> IF q \in {r} THEN "cancelled" ELSE result[q]]
        BY Zenon
      <3> HIDE DEF cancel_queued, Complete
      <3> QED
        BY <1>1, <3>1, Zenon DEF TypeOK
    <2>7. Cardinality({r}) = 1 /\ Cardinality({}) = 0
      BY CardOne, CardEmpty, Zenon
    <2>8. outstanding' = outstanding - Cardinality({r}) + Cardinality({})
      <3>1. outstanding' = outstanding - 1 /\ outstanding \in Int
        BY <1>1, Zenon DEF TypeOK
      <3> HIDE DEF cancel_queued, Complete
      <3> QED
        BY <3>1, <2>7
    <2>9. PICK gone, come : gone = {r} /\ come = {}
      BY ZenonT(60)
    <2>10. /\ gone \in SUBSET Range(queue) /\ come \in SUBSET Requests
           /\ \A q \in gone : state'[q] = "done" /\ result'[q] \in Endings
           /\ \A q \in Requests \ (gone \cup come) : state'[q] = state[q]
           /\ \A q \in Requests : result'[q] = result[q] \/ result'[q] \in Endings
           /\ Range(queue') = (Range(queue) \ gone) \cup come
           /\ outstanding' = outstanding - Cardinality(gone) + Cardinality(come)
           /\ \A q : q \notin come
      BY <2>1, <2>5, <2>6, <2>8, <2>9
    <2> QED
      BY <2>1, <2>4, <2>10, Exchange, ZenonT(60)
  <1>3. CASE r \notin Range(queue)
    <2>1. TypeOK'
      BY <1>1, <1>3 DEF TypeOK
    <2> QED
      BY <1>1, <1>3, <2>1, Quiet, ZenonT(60) DEF TypeOK
  <1> QED
    BY <1>2, <1>3

(* The failing lane completes everything that waits; outstanding goes      *)
(* down by the length of the queue.                                        *)
LEMMA DrainStep ==
  ASSUME ListFacts, IInv, NEW l \in Lanes, drain(l)
  PROVE  IInv'
  <1> USE DEF drain, Complete
  <1>1. TypeOK /\ active[l] \in Requests /\ active[l] # None
    BY HasRequest, ZenonT(60) DEF IInv, Busy
  <1>2. stamps' \in Seq(Requests) /\ queue' \in Seq(Requests) /\ Range(queue) \subseteq Requests
    BY <1>1, Erase, NoList, Zenon DEF TypeOK
  <1>3. queue' = <<>> /\ Range(queue') = {} /\ IsInjective(queue')
    BY EmptyList, Zenon
  <1>4. Len(queue) = Cardinality(Range(queue)) /\ Len(queue) \in Nat
    BY <1>1, LengthOf, Typed, Zenon DEF IInv, QueueOK, TypeOK
  <1>0. pc[l] = "thrown" /\ pc[l] \in Running
    BY Zenon DEF Running, Busy, Ended
  <1>5. awake' \in [Lanes -> BOOLEAN]
    BY <1>1, Woken, Zenon
  <1>6. result' \in [Requests -> Endings \cup Refusals \cup {None}]
    BY <1>1, Zenon DEF TypeOK, Endings
  <1>7. cancelled' \in [Requests -> BOOLEAN]
    BY Zenon
  <1>8. failed' \in BOOLEAN
    BY Zenon
  <1>9. pc' \in [Lanes -> Idle \cup Busy]
    BY <1>1, Zenon DEF TypeOK, Busy, Ended
  <1>10. /\ state' \in [Requests -> {"new", "stamped", "reserved", "queued", "active", "done", "refused"}]
         /\ outstanding' \in Int
    <2>1. outstanding' = outstanding - Len(queue) /\ outstanding \in Int
      BY <1>1, Zenon DEF TypeOK
    <2>2. state' \in [Requests -> {"new", "stamped", "reserved", "queued", "active", "done", "refused"}]
      BY <1>1, Zenon DEF TypeOK
    <2> HIDE DEF drain, Complete
    <2>3. outstanding' \in Int
      BY <1>4, <2>1
    <2> QED
      BY <2>2, <2>3
  <1>11. TypeOK'
    BY <1>1, <1>2, <1>5, <1>6, <1>7, <1>8, <1>9, <1>10, ZenonT(60) DEF TypeOK
  <1>12. PICK gone, come : gone = Range(queue) /\ come = {}
    BY Zenon
  <1>13. Cardinality(come) = 0
    BY <1>12, CardEmpty, Zenon
  <1>14. "failure" \in Endings
    BY Zenon DEF Endings
  <1>15. /\ gone \in SUBSET Range(queue) /\ come \in SUBSET Requests
         /\ \A q \in gone : state'[q] = "done" /\ result'[q] \in Endings
         /\ \A q \in Requests \ (gone \cup come) : state'[q] = state[q]
         /\ \A q \in Requests : result'[q] = result[q] \/ result'[q] \in Endings
         /\ Range(queue') = (Range(queue) \ gone) \cup come
         /\ \A q : q \notin come
    BY <1>2, <1>3, <1>12, <1>14, Zenon
  <1>16. outstanding' = outstanding - Cardinality(gone) + Cardinality(come)
    <2>1. outstanding' = outstanding - Len(queue) /\ outstanding \in Int
      BY <1>1, Zenon DEF TypeOK
    <2> HIDE DEF drain, Complete
    <2> QED
      BY <1>4, <1>12, <1>13, <2>1
  <1>17. \A m \in Lanes : pc'[m] = pc[m] \/
            (pc[m] \in Running /\ pc'[m] = "finishing" /\ result'[active[m]] \in Endings)
    BY <1>0, <1>1, <1>14, Zenon DEF TypeOK
  <1>18. UNCHANGED <<stopping, closed, active, admitted>> /\ come = {}
    BY <1>12, Zenon
  <1> HIDE DEF drain
  <1> QED
    BY <1>3, <1>11, <1>15, <1>16, <1>17, <1>18, Exchange, ZenonT(60)

(* The handler of a run may fail the engine; the request has its result or *)
(* the exception goes on.                                                  *)
LEMMA CaughtStep ==
  ASSUME IInv, NEW l \in Lanes, caught(l)
  PROVE  IInv'
  <1> DEFINE r == active[l]
  <1>1. TypeOK /\ pc[l] = "caught" /\ r \in Requests
    BY HasRequest, ZenonT(60) DEF IInv, Busy, caught
  <1>2. failed' \in BOOLEAN
    BY <1>1, ConfigAssumption, Zenon DEF TypeOK, caught
  <1>3. PICK to \in {"thrown", "finishing"} : pc' = [pc EXCEPT ![l] = to]
    BY Zenon DEF caught
  <1>4. to \in Busy \ {"releasing"}
    BY <1>3 DEF Busy, Ended
  <1>5. pc' \in [Lanes -> Idle \cup Busy]
    BY <1>1, <1>3, <1>4 DEF TypeOK
  <1>6. \A m \in Lanes : IF m = l THEN pc'[m] = to ELSE pc'[m] = pc[m]
    BY <1>1, <1>3 DEF TypeOK
  <1>7. \/ to = "thrown" /\ result' = result
        \/ \E how \in Endings : result' = [result EXCEPT ![r] = how]
    <2>1. CASE UNCHANGED result /\ pc' = [pc EXCEPT ![l] = "thrown"]
      <3>1. to = "thrown"
        BY <1>1, <1>3, <2>1 DEF TypeOK
      <3> QED
        BY <2>1, <3>1
    <2> QED
      BY <2>1, Zenon DEF caught, Endings
  <1>8. /\ result' \in [Requests -> Endings \cup Refusals \cup {None}]
        /\ \A q \in Requests : result'[q] = result[q] \/ result'[q] \in Endings
        /\ to = "thrown" \/ result'[r] \in Endings
    BY <1>1, <1>7 DEF TypeOK
  <1>9. UNCHANGED <<state, cancelled, cancelling, due, home, stamps, queue, outstanding,
                    stopping, closed, active, admitted, left, awake>>
    BY Zenon DEF caught
  <1>10. TypeOK'
    BY <1>1, <1>2, <1>5, <1>8, <1>9 DEF TypeOK
  <1>11. pc[l] \in Busy \ {"releasing"} /\ "thrown" \notin Ended
    BY <1>1 DEF Busy, Ended
  <1>12. \A m \in Lanes : pc'[m] = pc[m] \/
            (pc[m] \in Busy \ {"releasing"} /\ pc'[m] \in Busy \ {"releasing"})
    BY <1>4, <1>6, <1>11, Zenon
  <1>13. \A m \in Lanes : pc'[m] \in Ended /\ pc'[m] # pc[m] => result'[active[m]] \in Endings
    BY <1>6, <1>8, <1>11, Zenon
  <1> QED
    BY <1>8, <1>9, <1>10, <1>12, <1>13, Quiet, ZenonT(60)

(* An exception of a run, and one before the run begins.                   *)
LEMMA FaultSteps ==
  ASSUME IInv, NEW l \in Lanes, fail(l) \/ reject(l)
  PROVE  IInv'
  <1>1. TypeOK /\ pc[l] \in Running
    BY DEF IInv, fail, reject, Running, Busy, Ended
  <1>2. CASE fail(l)
    BY <1>1, <1>2, ThrowStep DEF fail
  <1>3. CASE reject(l)
    <2>1. "thrown" \in Running
      BY DEF Running, Busy, Ended
    <2> QED
      BY <1>1, <1>3, <2>1, MoveStep, ZenonT(60) DEF reject, TypeOK
  <1> QED
    BY <1>2, <1>3

(* The cancelled waiting requests, which submit sweeps out of the queue.   *)
Swept == {q \in Range(queue) : cancelled[q]}

(* The cancelled requests in the queue that submit sweeps.                 *)
LEMMA SweptFacts ==
  ASSUME ListFacts, IInv
  PROVE  /\ Swept \in SUBSET Range(queue) /\ Swept \in SUBSET Requests
         /\ IsFiniteSet(Swept) /\ Cardinality(Swept) \in Nat
         /\ Without(queue, Swept) \in Seq(Requests)
         /\ IsInjective(Without(queue, Swept))
         /\ Range(Without(queue, Swept)) = Range(queue) \ Swept
  <1>1. Swept \in SUBSET Range(queue) /\ Swept \in SUBSET Requests
    BY ZenonT(60) DEF Swept, IInv, QueueOK, Queued
  <1>2. IsFiniteSet(Swept) /\ Cardinality(Swept) \in Nat
    BY <1>1, ConfigAssumption, CardSubset, CardType
  <1>3. queue \in Seq(Requests) /\ IsInjective(queue)
    BY DEF IInv, TypeOK, QueueOK
  <1> QED
    BY <1>1, <1>2, <1>3, Erase

(* submit refuses, or sweeps the queue and then refuses or accepts.        *)
LEMMA SubmitStep ==
  ASSUME ListFacts, IInv, NEW r \in Requests, submit(r)
  PROVE  IInv'
  <1> DEFINE after == outstanding - Cardinality(Swept)
             Done(q) == IF q \in Swept THEN "done" ELSE state[q]
  <1>1. /\ state[r] = "reserved"
        /\ UNCHANGED <<cancelled, cancelling, due, home, stopping, failed, closed,
                       pc, active, admitted, left>>
    BY Zenon DEF submit, Refuse, engineVars, laneVars
  <1>2. TypeOK /\ r \notin Range(queue) /\ r \notin Swept
    BY <1>1, SweptFacts, ZenonT(60) DEF IInv, QueueOK, Queued
  <1>3. \A l \in Lanes : active[l] # r
    BY <1>1, ConfigAssumption DEF IInv, LanesOK
  <1>4. CASE Refuse(r, "unavailable")
    BY <1>1, <1>4, RefuseStep DEF Refusals
  <1>5. CASE /\ ~stopping /\ ~failed /\ after >= Capacity
             /\ state' = [q \in Requests |-> IF q = r THEN "refused" ELSE Done(q)]
             /\ result' = [q \in Requests |->
                    IF q = r THEN "full" ELSE IF q \in Swept THEN "cancelled" ELSE result[q]]
             /\ stamps' = Without(stamps, Swept \cup {r})
             /\ queue' = Without(queue, Swept) /\ outstanding' = after
             /\ UNCHANGED awake
    <2>1. stamps' \in Seq(Requests)
      BY <1>2, <1>5, Erase, Zenon DEF TypeOK
    <2>2. /\ queue' \in Seq(Requests) /\ IsInjective(queue') /\ outstanding' \in Int
          /\ Range(queue') = Range(queue) \ Swept
      <3>1. outstanding \in Int /\ Cardinality(Swept) \in Nat /\ outstanding' = after
        BY <1>2, <1>5, SweptFacts, Zenon DEF TypeOK
      <3>2. outstanding' \in Int
        BY <3>1
      <3> QED
        BY <1>5, <3>2, SweptFacts, Zenon
    <2>3. /\ result' \in [Requests -> Endings \cup Refusals \cup {None}]
          /\ state' \in [Requests -> {"new", "stamped", "reserved", "queued", "active", "done", "refused"}]
      BY <1>2, <1>5, ZenonT(60) DEF TypeOK, Endings, Refusals
    <2>4. TypeOK'
      BY <1>1, <1>2, <1>5, <2>1, <2>2, <2>3 DEF TypeOK
    <2>5. PICK come : come = {}
      BY Zenon
    <2>6. Cardinality(come) = 0
      BY <2>5, CardEmpty
    <2>7. outstanding' = outstanding - Cardinality(Swept) + Cardinality(come)
      <3>1. outstanding \in Int /\ Cardinality(Swept) \in Nat /\ outstanding' = after
        BY <1>2, <1>5, SweptFacts, Zenon DEF TypeOK
      <3> QED
        BY <3>1, <2>6
    <2>8. "cancelled" \in Endings
      BY DEF Endings
    <2>9. /\ come \in SUBSET Requests /\ come = {} /\ \A q : q \notin come
          /\ \A q \in Swept : state'[q] = "done" /\ result'[q] \in Endings
          /\ \A q \in Requests \ (Swept \cup come) :
                state'[q] = state[q] \/ (state[q] = "reserved" /\ state'[q] = "refused")
          /\ \A q \in Requests : state'[q] = state[q] => result'[q] = result[q] \/ result'[q] \in Endings
          /\ Range(queue') = (Range(queue) \ Swept) \cup come
      BY <1>1, <1>2, <1>5, <2>2, <2>5, <2>8, SweptFacts, ZenonT(60)
    <2> HIDE DEF after, Done
    <2> QED
      BY <1>1, <2>2, <2>4, <2>7, <2>9, SweptFacts, Exchange, ZenonT(60)
  <1>6. CASE /\ ~stopping /\ ~failed /\ after < Capacity
             /\ state' = [q \in Requests |-> IF q = r THEN "queued" ELSE Done(q)]
             /\ Complete(Swept, "cancelled")
             /\ queue' = Append(Without(queue, Swept), r) /\ outstanding' = after + 1
             /\ notify_one
    <2>1. stamps' \in Seq(Requests)
      BY <1>2, <1>6, Erase DEF TypeOK, Complete
    <2>2. /\ queue' \in Seq(Requests) /\ IsInjective(queue')
          /\ Range(queue') = (Range(queue) \ Swept) \cup {r}
      <3>1. r \notin Range(Without(queue, Swept))
        BY <1>2, SweptFacts
      <3> QED
        <4>1. PICK w \in Seq(Requests) : w = Without(queue, Swept)
          BY SweptFacts, ZenonT(60)
        <4>2. queue' = Append(w, r) /\ r \notin Range(w) /\ IsInjective(w)
          BY <1>6, <3>1, <4>1, SweptFacts
        <4>3. Range(w) = Range(queue) \ Swept
          BY <4>1, SweptFacts
        <4>4. /\ Append(w, r) \in Seq(Requests) /\ IsInjective(Append(w, r))
              /\ Range(Append(w, r)) = Range(w) \cup {r}
          BY <4>2, AddLast
        <4> QED
          BY <4>2, <4>3, <4>4, Zenon
    <2>3. /\ result' \in [Requests -> Endings \cup Refusals \cup {None}]
          /\ state' \in [Requests -> {"new", "stamped", "reserved", "queued", "active", "done", "refused"}]
          /\ outstanding' \in Int
      <3>1. result' \in [Requests -> Endings \cup Refusals \cup {None}]
        BY <1>2, <1>6, Zenon DEF TypeOK, Endings, Complete
      <3>2. state' \in [Requests -> {"new", "stamped", "reserved", "queued", "active", "done", "refused"}]
        BY <1>2, <1>6, Zenon DEF TypeOK
      <3>3. outstanding' \in Int
        <4>1. outstanding \in Int /\ Cardinality(Swept) \in Nat /\ outstanding' = after + 1
          BY <1>2, <1>6, SweptFacts, Zenon DEF TypeOK
        <4> QED
          BY <4>1
      <3> QED
        BY <3>1, <3>2, <3>3
    <2>4. awake' \in [Lanes -> BOOLEAN]
      BY <1>2, <1>6, Woken, ZenonT(60)
    <2>5. TypeOK'
      BY <1>1, <1>2, <2>1, <2>2, <2>3, <2>4 DEF TypeOK
    <2>6. PICK come : come = {r}
      BY Zenon
    <2>7. Cardinality(come) = 1
      BY <2>6, CardOne, ZenonT(60)
    <2>8. outstanding' = outstanding - Cardinality(Swept) + Cardinality(come)
      BY <1>2, <1>6, <2>7, SweptFacts DEF TypeOK
    <2>9. "cancelled" \in Endings
      BY DEF Endings
    <2>10. /\ come \in SUBSET Requests
           /\ \A q \in Swept : state'[q] = "done" /\ result'[q] \in Endings
           /\ \A q \in come : state[q] = "reserved" /\ state'[q] = "queued"
           /\ \A q \in Requests \ (Swept \cup come) : state'[q] = state[q]
           /\ \A q \in Requests : state'[q] = state[q] => result'[q] = result[q] \/ result'[q] \in Endings
           /\ Range(queue') = (Range(queue) \ Swept) \cup come
      BY <1>1, <1>2, <1>6, <2>2, <2>6, <2>9, SweptFacts, ZenonT(60) DEF Complete
    <2>11. ~stopping
      BY <1>1, <1>6
    <2> HIDE DEF after, Done
    <2> QED
      BY <1>1, <2>2, <2>5, <2>8, <2>10, <2>11, SweptFacts, Exchange, ZenonT(60)
  <1> QED
    BY <1>4, <1>5, <1>6, ZenonT(60) DEF submit, Swept, laneVars

-----------------------------------------------------------------------------
(* Every step keeps the invariant.                                         *)
LEMMA Inductive ==
  ASSUME ListFacts
  PROVE  IInv /\ [Next]_vars => IInv'
  <1> SUFFICES ASSUME IInv, [Next]_vars PROVE IInv'
    OBVIOUS
  <1>1. CASE UNCHANGED vars
    <2> USE <1>1 DEF vars, requestVars, engineVars, laneVars
    <2>1. TypeOK'
      BY DEF IInv, TypeOK
    <2> QED
      BY <2>1, Quiet, ZenonT(60) DEF IInv, TypeOK
  <1>2. ASSUME NEW r \in Requests,
               \/ decline(r) \/ stamp(r) \/ reserve(r) \/ allocate_fails(r) \/ submit(r)
               \/ cancel(r) \/ cancel_queued(r) \/ resubmit(r)
               \/ near(r) \/ past(r)
        PROVE  IInv'
    BY <1>2, ReserveSteps, StampStep, SubmitStep, CancelStep, CancelQueuedStep, ResubmitStep, DueStep
  <1>3. ASSUME NEW l \in Lanes, LaneStep(l) \/ fail(l) \/ timeout(l)
        PROVE  IInv'
    BY <1>3, LookStep, StartStep, PrefillStep, GateStep, SuspendSteps, ResumeStep, RoundStep,
       FaultSteps, CaughtStep, DrainStep, CompleteStep, ReleaseStep, TimeoutStep DEF LaneStep
  <1>4. CASE close \/ join \/ rest
    BY <1>1, <1>4, CloseStep, JoinStep DEF rest
  <1> QED
    BY <1>1, <1>2, <1>3, <1>4 DEF Next

(* The invariant says what outstanding counts.                             *)
LEMMA CountIsExact ==
  ASSUME ListFacts, IInv
  PROVE  OutstandingExact
  <1>1. Len(queue) = Cardinality(Queued)
    BY LengthOf DEF IInv, TypeOK, QueueOK
  <1> QED
    BY <1>1 DEF OutstandingExact, IInv, CountOK, Occupied

(* No lane left and nothing waiting: every accepted request is answered.   *)
LEMMA NoneAtTheEnd ==
  ASSUME ListFacts, IInv
  PROVE  closed => (Accepted = {} /\ outstanding = 0)
  <1>2. ASSUME closed PROVE Accepted = {} /\ outstanding = 0
    <2>1. \A l \in Lanes : pc[l] = "exited" /\ active[l] = None
      BY <1>2 DEF IInv, EndOK, LanesOK, Idle
    <2>2. \E l \in Lanes : TRUE
      <3>1. ASSUME Lanes = {} PROVE FALSE
        <4>1. Cardinality(Lanes) = 0
          BY <3>1, CardEmpty, Zenon
        <4>2. Cardinality(Lanes) >= 2
          BY ConfigAssumption, Zenon
        <4> QED
          BY <4>1, <4>2
      <3> QED
        BY <3>1
    <2>3. queue = <<>>
      BY <2>1, <2>2 DEF IInv, EndOK
    <2>4. Queued = {} /\ Occupied = {}
      BY <2>1, <2>3, EmptyList DEF IInv, QueueOK, Occupied
    <2>5. Accepted = {}
      <3>1. \A r \in Requests : state[r] # "active"
        <4> SUFFICES ASSUME NEW r \in Requests, state[r] = "active" PROVE FALSE
          BY Zenon
        <4>1. PICK l \in Lanes : active[l] = r
          BY Zenon DEF IInv, LanesOK
        <4> QED
          BY <2>1, <4>1, ConfigAssumption, Zenon
      <3>2. \A r \in Requests : state[r] # "queued"
        BY <2>4, ZenonT(60) DEF Queued
      <3> QED
        BY <3>1, <3>2, Zenon DEF Accepted
    <2> QED
      BY <2>4, <2>5, CardEmpty DEF IInv, CountOK
  <1> QED
    BY <1>2

-----------------------------------------------------------------------------
(* The memory gate.                                                        *)

(* The memory gate is the only step that suspends a lane, and it does so   *)
(* only to the youngest running decoder.                                   *)
LEMMA OnlyGateSuspends ==
  ASSUME IInv, [Next]_vars, NEW l \in Lanes, ~lane_suspended(l), lane_suspended(l)'
  PROVE  pc[l] = "gate" /\ Victim(l) /\ pc' = [pc EXCEPT ![l] = "suspending"]
  <1> USE DEF lane_suspended
  <1>1. TypeOK
    BY DEF IInv
  <1>2. ~UNCHANGED pc
    OBVIOUS
  <1>3. ASSUME NEW r \in Requests,
               \/ decline(r) \/ stamp(r) \/ reserve(r) \/ allocate_fails(r) \/ submit(r)
               \/ cancel(r) \/ cancel_queued(r) \/ resubmit(r)
               \/ near(r) \/ past(r)
        PROVE  FALSE
    BY <1>2, <1>3, Zenon 
       DEF Refuse, decline, stamp, reserve, allocate_fails, submit, cancel, cancel_queued, resubmit,
           near, past, laneVars
  <1>4. ~(close \/ join \/ rest \/ UNCHANGED vars)
    BY <1>2, Zenon DEF close, join, rest, vars, laneVars
  <1>5. PICK m \in Lanes : LaneStep(m) \/ fail(m) \/ timeout(m)
    BY <1>3, <1>4, ZenonT(60) DEF Next
  <1>6. ASSUME NEW to, pc' = [pc EXCEPT ![m] = to],
               to \in {"suspended", "suspending", "resuming"} => lane_suspended(m) \/ pc[m] = "gate"
        PROVE  m = l /\ pc[l] = "gate" /\ to \in {"suspended", "suspending", "resuming"}
    BY <1>1, <1>6 DEF TypeOK
  <1>7. ~(\E r : take(m, r)) /\ ~(\E how : End(m, how)) /\ ~Throw(m)
        /\ ~caught(m) /\ ~drain(m)
    <2>1. /\ pc' # [pc EXCEPT ![m] = "taken"] /\ pc' # [pc EXCEPT ![m] = "finishing"]
          /\ pc' # [pc EXCEPT ![m] = "caught"] /\ pc' # [pc EXCEPT ![m] = "thrown"]
      BY <1>6
    <2>2. ASSUME NEW r, take(m, r) PROVE FALSE
      BY <2>1, <2>2 DEF take
    <2>3. ASSUME NEW how, End(m, how) PROVE FALSE
      BY <2>1, <2>3, Zenon DEF End
    <2>4. ~Throw(m) /\ ~caught(m) /\ ~drain(m)
      BY <2>1, Zenon DEF Throw, caught, drain
    <2> QED
      BY <2>2, <2>3, <2>4, ZenonT(60)
  <1>8. gate(m)
    <2>1. ~timeout(m) /\ ~fail(m) /\ ~reject(m) /\ ~look(m)
      BY <1>2, <1>6, <1>7, ZenonT(60) DEF timeout, fail, reject, look
    <2>2. ~start(m) /\ ~prefill(m) /\ ~complete(m) /\ ~release(m) /\ ~round(m)
      BY <1>6, <1>7 DEF start, prefill, complete, release, round
    <2>3. ~suspend(m) /\ ~resumed(m) /\ ~resume(m)
      BY <1>2, <1>6, Zenon DEF suspend, resumed, resume
    <2> QED
      BY <1>5, <1>7, <2>1, <2>2, <2>3, Zenon DEF LaneStep
  <1>9. pc' = [pc EXCEPT ![m] = "round"] \/ (Victim(m) /\ pc' = [pc EXCEPT ![m] = "suspending"])
    BY <1>7, <1>8, Zenon DEF gate
  <1>10. m = l /\ pc[l] = "gate"
    BY <1>6, <1>8, <1>9, Zenon DEF gate
  <1> QED
    BY <1>1, <1>9, <1>10 DEF TypeOK

(* Of two different elements of a list, one is before the other.           *)
LEMMA EitherBefore ==
  ASSUME NEW s, NEW a \in Range(s), NEW b \in Range(s), a # b, DOMAIN s \in SUBSET Int
  PROVE  Before(s, a, b) \/ Before(s, b, a)
  <1>1. PICK i \in DOMAIN s, j \in DOMAIN s : s[i] = a /\ s[j] = b
    BY DEF Range
  <1>2. i < j \/ j < i
    BY <1>1
  <1> QED
    BY <1>1, <1>2 DEF Before

(* A lane that suspends leaves a running decoder that was admitted before. *)
LEMMA OlderRuns ==
  ASSUME ListFacts, IInv, [Next]_vars, NEW l \in Lanes, ~lane_suspended(l), lane_suspended(l)'
  PROVE  \E m \in Lanes : lane_decoding(m)' /\ ~lane_suspended(m)' /\ Before(admitted, m, l)
  <1>1. pc[l] = "gate" /\ Victim(l) /\ pc' = [pc EXCEPT ![l] = "suspending"] /\ TypeOK
    BY OnlyGateSuspends DEF IInv
  <1>2. l \in running_decoders(Lanes)
    BY <1>1 DEF running_decoders, lane_decoding, lane_suspended
  <1>3. PICK m \in running_decoders(Lanes) : m # l
    BY <1>1, <1>2 DEF Victim
  <1>4. m \in Lanes /\ lane_decoding(m) /\ ~lane_suspended(m)
    BY <1>3 DEF running_decoders
  <1>5. pc'[m] = pc[m]
    BY <1>1, <1>3, <1>4, ZenonT(60) DEF TypeOK
  <1>6. lane_decoding(m)' /\ ~lane_suspended(m)'
    BY <1>4, <1>5 DEF lane_decoding, lane_suspended
  <1>7. pc[m] \in Busy /\ pc[l] \in Busy
    BY <1>1, <1>4 DEF lane_decoding, lane_suspended, Busy
  <1>8. m \in Range(admitted) /\ l \in Range(admitted)
    BY <1>4, <1>7, HasRequest, ZenonT(60) DEF IInv, LanesOK, Occupied
  <1>9. DOMAIN admitted \in SUBSET Int
    <2>1. admitted \in Seq(Lanes)
      BY <1>1, Zenon DEF TypeOK
    <2>2. Len(admitted) \in Nat /\ DOMAIN admitted = 1..Len(admitted)
      BY <2>1, Typed, Zenon
    <2> QED
      BY <2>2
  <1>10. Before(admitted, m, l)
    BY <1>1, <1>3, <1>8, <1>9, EitherBefore DEF Victim
  <1> QED
    BY <1>4, <1>6, <1>10

============================================================================
