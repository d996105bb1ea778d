------------------------------ MODULE Service ------------------------------
(***************************************************************************)
(* The Responses endpoint over the engine: the handler of each request     *)
(* looks up the response it continues, takes one of the server's places,   *)
(* submits to the engine, waits for the result or streams it, stores the   *)
(* response and answers.  The engine is what RequestLife promises (and     *)
(* EngineQueue implements), the stream is OutputDelivery, the store is     *)
(* ResponseStore; other clients read and delete stored responses at will.  *)
(***************************************************************************)
EXTENDS RequestLife, ResponseStore, OutputDelivery

CONSTANTS
    Stream,     \* the request with stream = true; the others are aggregate
    Stores,     \* the requests with store = true
    MaxInputs   \* bound: texts emitted and stored responses accessed, together

ASSUME ServiceAssumption ==
    /\ Requests \subseteq Ids /\ Stream \in Requests /\ Stores \subseteq Requests
    /\ MaxInputs \in Nat

VARIABLES
    at,         \* where the handler of a request is
    active,     \* RequestCapacity::active
    holders,    \* the requests whose RequestLifetime exists
    reply,      \* what the client was told: ok, error, nothing (it went away)
    kept,       \* history: the requests whose response was put
    inputs      \* counts towards MaxInputs

handlerVars == <<at, active, holders, reply, kept>>
vars == <<lifeVars, storeVars, deliveryVars, handlerVars, inputs>>

Init ==
    /\ LifeInit /\ DeliveryInit
    /\ StoreInit(Ids \ Requests)
    /\ at = [r \in Requests |-> "new"]
    /\ active = 0 /\ holders = {}
    /\ reply = [r \in Requests |-> None]
    /\ kept = {} /\ inputs = 0

Moves(r, from, to) == at[r] = from /\ at' = [at EXCEPT ![r] = to]
Tells(r, what) == reply' = [reply EXCEPT ![r] = what]
Releases(r) == active' = active - 1 /\ holders' = holders \ {r}
KeepsLifetime == UNCHANGED <<active, holders>>
Counted == inputs < MaxInputs /\ inputs' = inputs + 1
Untouched == UNCHANGED <<kept, inputs, lifeVars, storeVars, deliveryVars>>

-----------------------------------------------------------------------------
(* handle_responses: the previous response, if one is named, must be there; *)
(* its context is the continuation's from then on, whatever happens to it. *)
Lookup(r) ==
    /\ \/ /\ Moves(r, "new", "found")
          /\ context' = [context EXCEPT ![r] = Extended(r, Nothing)]
          /\ UNCHANGED <<store, reply>>
       \/ \E id \in Ids \ {r} :
          /\ get(id)
          /\ IF id \in store.records
             THEN /\ Moves(r, "new", "found") /\ UNCHANGED reply
                  /\ context' = [context EXCEPT ![r] = Extended(r, context[id])]
             ELSE Moves(r, "new", "end") /\ Tells(r, "error") /\ UNCHANGED context
    /\ KeepsLifetime /\ UNCHANGED <<kept, inputs, lifeVars, deliveryVars>>

(* Mutant: one request more than there are places. *)
AcquireOneMore(r) ==
    /\ IF active > Capacity
       THEN Moves(r, "found", "end") /\ Tells(r, "error") /\ KeepsLifetime
       ELSE /\ Moves(r, "found", "admitted") /\ UNCHANGED reply
            /\ active' = active + 1 /\ holders' = holders \cup {r}
    /\ Untouched

(* acquire_request_lifetime *)
Acquire(r) ==
    /\ IF active >= Capacity
       THEN Moves(r, "found", "end") /\ Tells(r, "error") /\ KeepsLifetime
       ELSE /\ Moves(r, "found", "admitted") /\ UNCHANGED reply
            /\ active' = active + 1 /\ holders' = holders \cup {r}
    /\ Untouched

(* Media, tokens or memory are missing, the client is gone or too late.    *)
PrepareFails(r) ==
    /\ Moves(r, "admitted", "end") /\ Tells(r, "error") /\ Releases(r)
    /\ Untouched

(* The end of the stream's request is the end of its text; a throw of emit *)
(* has failed it.                                                          *)
StreamEnds ==
    IF life'[Stream] = "answered" /\ ~done
    THEN Finish /\ (out.over \/ out.thrown => answer'[Stream] = "failure")
    ELSE UNCHANGED deliveryVars

Submit(r) ==
    /\ \/ Accept(r) /\ Moves(r, "admitted", "submitted") /\ KeepsLifetime /\ UNCHANGED reply
       \/ Refuse(r) /\ Moves(r, "admitted", "end") /\ Releases(r) /\ Tells(r, "error")
    /\ StreamEnds /\ UNCHANGED <<kept, inputs, storeVars>>

-----------------------------------------------------------------------------
EngineAnswers ==
    /\ Answer /\ StreamEnds
    /\ UNCHANGED <<storeVars, handlerVars, inputs>>

EngineGivesBack(r) == GiveBack(r) /\ UNCHANGED <<storeVars, deliveryVars, handlerVars, inputs>>

EngineEmits ==
    /\ life[Stream] = "accepted" /\ emit
    /\ Counted /\ UNCHANGED <<lifeVars, storeVars, handlerVars>>

(* The first events of a stream go out before the client's thread waits.   *)
Start(r) ==
    /\ IF r = Stream
       THEN \/ Moves(r, "submitted", "running") /\ UNCHANGED reply
            \/ Moves(r, "submitted", "replied") /\ Tells(r, "nothing")
       ELSE Moves(r, "submitted", "running") /\ UNCHANGED reply
    /\ KeepsLifetime /\ Untouched

(* wait and poll of the stream, and what its sink does with the pieces.    *)
Delivers ==
    /\ at[Stream] = "running" /\ (poll \/ publish \/ SinkThrows \/ PollReturns)
    /\ UNCHANGED <<lifeVars, storeVars, handlerVars, inputs>>
SinkLetsGo == LetGo /\ UNCHANGED <<lifeVars, storeVars, handlerVars, inputs>>

(* wait returns the result or throws what failed. *)
Waited(r) ==
    /\ at[r] = "running"
    /\ IF r = Stream THEN client \in {"complete", "gone"} ELSE life[r] = "answered"
    /\ IF r = Stream /\ client = "gone" THEN Moves(r, "running", "replied") /\ Tells(r, "nothing")
       ELSE IF answer[r] = "failure" THEN Moves(r, "running", "replied") /\ Tells(r, "error")
       ELSE Moves(r, "running", "finished") /\ UNCHANGED reply
    /\ KeepsLifetime /\ Untouched

(* Mutant: a response that is too large is not stored, and nobody told.    *)
StoreOrNot(r) ==
    /\ Moves(r, "finished", "stored") /\ UNCHANGED reply
    /\ IF r \in Stores /\ Fits(r) THEN put(r) /\ kept' = kept \cup {r}
       ELSE UNCHANGED <<store, kept>>
    /\ KeepsLifetime /\ UNCHANGED <<context, inputs, lifeVars, deliveryVars>>

(* The response is stored, then the client is told. *)
Store(r) ==
    /\ IF r \notin Stores THEN Moves(r, "finished", "stored") /\ UNCHANGED <<store, kept, reply>>
       ELSE IF Fits(r) THEN Moves(r, "finished", "stored") /\ put(r)
            /\ kept' = kept \cup {r} /\ UNCHANGED reply
       ELSE Moves(r, "finished", "replied") /\ Tells(r, "error") /\ UNCHANGED <<store, kept>>
    /\ KeepsLifetime /\ UNCHANGED <<context, inputs, lifeVars, deliveryVars>>

Reply(r) ==
    /\ Moves(r, "stored", "replied")
    /\ Tells(r, "ok") \/ (r = Stream /\ Tells(r, "nothing"))
    /\ KeepsLifetime /\ Untouched

(* The body has been sent, the handler's objects are destroyed. *)
Leave(r) ==
    /\ Moves(r, "replied", "end") /\ Releases(r)
    /\ Untouched /\ UNCHANGED reply

(* handle_response_get, _input_items and _cancel; handle_response_delete.  *)
ClientGet(id) ==
    /\ id \in store.records /\ get(id)
    /\ Counted /\ UNCHANGED <<context, lifeVars, deliveryVars, handlerVars>>
ClientDelete(id) ==
    /\ erase(id)
    /\ Counted /\ UNCHANGED <<context, lifeVars, deliveryVars, handlerVars>>

Handler(r) ==
    \/ Lookup(r) \/ Acquire(r) \/ PrepareFails(r) \/ Submit(r) \/ Start(r)
    \/ Waited(r) \/ Reply(r) \/ Leave(r) \/ Store(r)

Progress ==
    \/ EngineAnswers \/ Delivers \/ SinkLetsGo
    \/ \E r \in Requests : EngineGivesBack(r) \/ Handler(r)

Next ==
    \/ Progress \/ EngineEmits
    \/ \E id \in Ids : ClientGet(id) \/ ClientDelete(id)

(* Somebody who can make progress does: a handler, the engine, which       *)
(* answers what it accepted, or a sink, which keeps nothing forever.       *)
Spec == Init /\ [][Next]_vars /\ WF_vars(Progress)

-----------------------------------------------------------------------------
(* The server and the engine count to the same limit, but an engine place  *)
(* outlives the lifetime of its request (the lane gives it back after done *)
(* was set, and a client that goes away leaves a request running).  A      *)
(* request that the server admitted and the engine refuses as full is      *)
(* refused for such a left-over place.                                     *)
RefusedForLeftovers ==
    /\ active = Cardinality(holders)
    /\ \A r \in Requests : (at[r] = "admitted" /\ Cardinality(places) >= Capacity) =>
        \E q \in places : q \notin holders

(* A client that asked for its response to be stored and is told that it   *)
(* succeeded can continue it (until it is evicted or deleted); a response  *)
(* that its client is told has failed is never found in the store.         *)
TruthfulReplies == \A r \in Requests :
    /\ reply[r] = "ok" /\ r \in Stores => r \in kept
    /\ reply[r] = "error" => r \notin kept

(* Every request that arrives is answered or its client is gone, and the   *)
(* server and the engine both have its place back.                         *)
EveryRequestLeaves ==
    <>(active = 0 /\ places = {} /\ \A r \in Requests : at[r] = "end")
============================================================================
