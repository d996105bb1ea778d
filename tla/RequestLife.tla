---------------------------- MODULE RequestLife ----------------------------
(***************************************************************************)
(* What the engine promises to whoever submits requests, however it queues *)
(* and runs them: an accepted request has one of Capacity places and is    *)
(* answered once, and one that is refused is told a reason that is true.   *)
(* EngineQueue implements this specification, Service relies on it.        *)
(***************************************************************************)
EXTENDS Naturals, FiniteSets

CONSTANTS
    Requests,
    Capacity,   \* queue.capacity(): running and waiting requests
    Declined,   \* the requests that ask for what the engine does not do
    Answers     \* how a request may end

VARIABLES
    life,       \* of a request: out, accepted, answered, refused
    answer,     \* of an answered request: how it ended; of a refused one: why
    places,     \* the requests that have a place
    up          \* the engine has neither failed nor begun to stop

lifeVars == <<life, answer, places, up>>

None == "none"

LifeInit ==
    /\ life = [r \in Requests |-> "out"]
    /\ answer = [r \in Requests |-> None]
    /\ places = {}
    /\ up = TRUE

Accepted == {r \in Requests : life[r] = "accepted"}

(* Why a request is refused: what it asks for, no engine, no place left,   *)
(* or want of something else (host memory, generation numbers).            *)
Reasons == {"invalid", "unavailable", "full", "shortage"}

(* Of the requests Q those of S are answered and no other.                 *)
Answered(S, Q) ==
    /\ S \subseteq Accepted
    /\ answer' \in [Requests -> Answers \cup Reasons \cup {None}]
    /\ \A q \in Q : IF q \in S THEN answer'[q] \in Answers ELSE answer'[q] = answer[q]

Marked(S, r, as) == [q \in Requests |->
    IF q = r THEN as ELSE IF q \in S THEN "answered" ELSE life[q]]

(* Waiting requests that were cancelled leave with the arrival of another. *)
Accept(r) ==
    /\ life[r] = "out" /\ up /\ r \notin Declined
    /\ \E swept \in SUBSET Accepted :
        /\ life' = Marked(swept, r, "accepted")
        /\ Cardinality(places \ swept) < Capacity
        /\ Answered(swept, Requests)
        /\ places' = (places \ swept) \cup {r}
    /\ UNCHANGED up

(* The reasons there are to refuse r once those of swept have left.        *)
ReasonsFor(r, swept) == {why \in Reasons :
    /\ why = "invalid" => r \in Declined
    /\ why = "unavailable" => ~up
    /\ why = "full" => up /\ Cardinality(places \ swept) >= Capacity
    /\ why # "full" => swept = {}}

Refuse(r) ==
    /\ life[r] = "out"
    /\ \E swept \in SUBSET Accepted :
        /\ life' = Marked(swept, r, "refused")
        /\ Answered(swept, Requests \ {r})
        /\ answer'[r] \in ReasonsFor(r, swept)
        /\ places' = places \ swept
    /\ UNCHANGED up

(* Those of S that waited leave their places, those that ran keep them.    *)
Answer == \E S \in SUBSET Accepted :
    /\ life' = [r \in Requests |-> IF r \in S THEN "answered" ELSE life[r]]
    /\ Answered(S, Requests)
    /\ \E waiting \in SUBSET S : places' = places \ waiting
    /\ up' \in {up, FALSE}

(* The lane of an answered request gives the place back.                   *)
GiveBack(r) ==
    /\ life[r] = "answered" /\ r \in places
    /\ places' = places \ {r}
    /\ UNCHANGED <<life, answer, up>>

(* The client submits again. *)
Again(r) ==
    /\ life[r] \in {"answered", "refused"} /\ r \notin places
    /\ life' = [life EXCEPT ![r] = "out"]
    /\ answer' = [answer EXCEPT ![r] = None]
    /\ UNCHANGED <<places, up>>

LifeNext ==
    \/ \E r \in Requests : Accept(r) \/ Refuse(r) \/ GiveBack(r) \/ Again(r)
    \/ Answer

LifeSpec == LifeInit /\ [][LifeNext]_lifeVars
============================================================================
