--------------------------- MODULE ResponseStore ---------------------------
(***************************************************************************)
(* The bounded store of finished responses (src/serve/response_store.cpp). *)
(* A record keeps the context that a continuation of the response starts   *)
(* from: a chain of nodes, the older ones shared with the responses that   *)
(* it continued.  A node's bytes are charged to the store once, as long as *)
(* some record reaches it.                                                 *)
(***************************************************************************)
EXTENDS Integers, Sequences, SequencesExt, FiniteSets, FiniteSetsExt, Functions

CONSTANTS
    Ids,        \* of responses
    MaxRecords, \* response_store_max_records
    MaxBytes,   \* response_store_max_bytes
    Envelope,   \* [Ids -> Nat]: record_envelope_bytes
    Owned       \* [Ids -> Nat]: owned_bytes of each of a response's two nodes

ASSUME StoreAssumption ==
    /\ MaxRecords \in Nat \ {0} /\ MaxBytes \in Nat \ {0}
    /\ Envelope \in [Ids -> Nat] /\ Owned \in [Ids -> Nat]

VARIABLES
    context,    \* of a response: its node, that node's parent and so on
    store       \* records_, lru_, live_context_references_, current_bytes_

storeVars == <<context, store>>

Nothing == <<>>     \* the null context

(* terminal_context: the response's output follows its input, and that the *)
(* context of the response it continues.                                   *)
Extended(id, parent) == <<<<id, "output">>, <<id, "input">>>> \o parent

(* The first n nodes of a chain, and their bytes. *)
Nearest(chain, n) == {chain[i] : i \in 1..n}
BytesOf(chain, n) ==
    LET sum[i \in 0..n] == IF i = 0 THEN 0 ELSE sum[i - 1] + Owned[chain[i][1]] IN sum[n]

Empty == [records |-> {}, lru |-> <<>>, refs |-> <<>>, bytes |-> 0, lost |-> FALSE]

-----------------------------------------------------------------------------
get(id) == store' =
    [store EXCEPT !.lru = IF id \in store.records THEN <<id>> \o Remove(@, id) ELSE @]

(* Mutant: the record does not count itself at the node it shares. *)
InsertedUncounted(s, id) ==
    LET chain == context[id]
        live == Min({Len(chain) + 1} \cup {i \in DOMAIN chain : chain[i] \in DOMAIN s.refs})
        new == Nearest(chain, live - 1)
    IN  [s EXCEPT
            !.records = @ \cup {id}, !.lru = <<id>> \o @,
            !.bytes = @ + Envelope[id] + BytesOf(chain, live - 1),
            !.refs = [n \in DOMAIN s.refs \cup new |-> IF n \in new THEN 1 ELSE s.refs[n]]]

(* retain_context_locked: the nodes that no record reached are charged and *)
(* counted once, the nearest one that a record did reach once more.        *)
Inserted(s, id) ==
    LET chain == context[id]
        live == Min({Len(chain) + 1} \cup {i \in DOMAIN chain : chain[i] \in DOMAIN s.refs})
        new == Nearest(chain, live - 1)
    IN  [s EXCEPT
            !.records = @ \cup {id}, !.lru = <<id>> \o @,
            !.bytes = @ + Envelope[id] + BytesOf(chain, live - 1),
            !.refs = [n \in DOMAIN s.refs \cup new |->
                IF n \in new THEN 1
                ELSE IF live <= Len(chain) /\ n = chain[live] THEN s.refs[n] + 1
                ELSE s.refs[n]]]

(* release_context_locked: the nodes that only this record reached are     *)
(* freed, the next one is counted down; a node that is missing is an error.*)
Erased(s, id) ==
    LET chain == context[id]
        held == Min({Len(chain) + 1} \cup {i \in DOMAIN chain :
                    chain[i] \in DOMAIN s.refs => s.refs[chain[i]] # 1})
        freed == Nearest(chain, held - 1)
        bytes == Envelope[id] + BytesOf(chain, held - 1)
    IN  [s EXCEPT
            !.records = @ \ {id}, !.lru = Remove(@, id),
            !.bytes = @ - bytes,
            !.refs = [n \in DOMAIN s.refs \ freed |->
                IF held <= Len(chain) /\ n = chain[held] THEN s.refs[n] - 1 ELSE s.refs[n]],
            !.lost = @ \/ s.bytes < bytes \/ (held <= Len(chain) /\ chain[held] \notin DOMAIN s.refs)]

(* The oldest records make way until the limits hold; never the new one.   *)
Within(s) == Cardinality(s.records) <= MaxRecords /\ s.bytes <= MaxBytes
RECURSIVE evict(_, _)
evict(s, id) ==
    LET others == Remove(s.lru, id) IN
    IF Within(s) THEN store' = s
    ELSE IF others = <<>> THEN store' = [s EXCEPT !.lost = TRUE]
    ELSE \E fewer \in {Erased(s, Last(others))} : evict(fewer, id)

(* The check before the lock: the record and its whole context would fit.  *)
Fits(id) == Envelope[id] + BytesOf(context[id], Len(context[id])) <= MaxBytes

put(id) ==
    /\ Fits(id)
    /\ \E more \in {Inserted(store, id)} : evict(more, id)

erase(id) ==
    /\ id \in store.records
    /\ store' = Erased(store, id)

(* The responses in earlier were put before, none of them a continuation.  *)
StoreInit(earlier) ==
    /\ context = [id \in Ids |-> IF id \in earlier THEN Extended(id, Nothing) ELSE Nothing]
    /\ store = FoldSet(LAMBDA id, s : Inserted(s, id), Empty, earlier)

-----------------------------------------------------------------------------
Reached == UNION {Range(context[id]) : id \in store.records}
Children(n) == {m \in Reached : \E id \in store.records : \E i \in 2..Len(context[id]) :
    context[id][i] = n /\ context[id][i - 1] = m}

(* In whatever order responses that share history are put, evicted and     *)
(* deleted, a node is charged exactly as long as a record reaches it and   *)
(* counts those who hold on to it, so that nothing is freed early, kept    *)
(* forever, charged twice or missing when it is released; the limits hold  *)
(* whenever the lock is free, and eviction always finds a victim.          *)
StoreExact ==
    /\ ~store.lost
    /\ Range(store.lru) = store.records /\ Len(store.lru) = Cardinality(store.records)
    /\ DOMAIN store.refs = Reached
    /\ \A n \in Reached : store.refs[n] =
        Cardinality({id \in store.records : context[id][1] = n}) + Cardinality(Children(n))
    /\ store.bytes = FoldSet(LAMBDA n, sum : Owned[n[1]] + sum, 0, Reached)
        + FoldSet(LAMBDA id, sum : Envelope[id] + sum, 0, store.records)
    /\ Within(store)
============================================================================
