--------------------------- MODULE OutputDelivery ---------------------------
(***************************************************************************)
(* How the text of a streaming request gets from its lane to the client.   *)
(* The lane appends text to the result and notes the range that is still   *)
(* to be delivered (emit); the client's thread copies a bounded piece of   *)
(* it under the request's lock (poll) and hands it to the sink once the    *)
(* lock is released.  Every piece holds one of Slots leases until the sink *)
(* lets go of it, which may be after publish returned.                     *)
(*                                                                         *)
(* Text is kept as a length in bytes and the set of offsets at which its   *)
(* characters end.                                                         *)
(***************************************************************************)
EXTENDS Integers, Sequences

CONSTANTS
    Limit,      \* output_delivery_byte_limit
    Slots,      \* output_delivery_outstanding_limit
    MaxWidth,   \* bytes of the widest character
    TextLimit,  \* result_text_limit, which each channel has reserved
    Deltas      \* what the frontend may add to a channel at once

(* n bytes of whole characters that end at the offsets e. *)
WholeText(n, e) ==
    /\ n \in e /\ e \subseteq 1..n
    /\ \A k \in e \cup {0} : k < n => \E m \in e : k < m /\ m <= k + MaxWidth

NoDelta == [bytes |-> 0, ends |-> {}]

ASSUME DeliveryAssumption ==
    /\ Limit \in Nat /\ Slots \in Nat /\ TextLimit \in Nat
    /\ MaxWidth \in 1..Limit
    /\ \A d \in Deltas : d = NoDelta \/ (d.bytes \in Nat \ {0} /\ WholeText(d.bytes, d.ends))

VARIABLES
    out,        \* the request's text and pending ranges; only the lane adds to it
    done,       \* the lane is finished with the request
    batch,      \* the pieces poll took and has yet to publish
    leases,     \* outstanding_delivery_batches
    final,      \* poll saw done with nothing pending
    heard,      \* bytes of each channel that the sink was given
    client      \* the thread in wait: idle, publish, complete, gone

deliveryVars == <<out, done, batch, leases, final, heard, client>>

Channels == {"reasoning", "content"}
Piece(c, from, n) == [channel |-> c, offset |-> from, bytes |-> n]

DeliveryInit ==
    /\ out = [size |-> [c \in Channels |-> 0],      \* result.reasoning, result.content
              ends |-> [c \in Channels |-> {}],
              pending |-> <<>>,                     \* deltas, pending_deltas
              content |-> FALSE,                    \* emitted_content
              over |-> FALSE,                       \* emit threw: too much text
              thrown |-> FALSE]                     \* emit threw: a channel or range too many
    /\ done = FALSE /\ batch = <<>> /\ leases = 0 /\ final = FALSE
    /\ heard = [c \in Channels |-> 0]
    /\ client = "idle"

-----------------------------------------------------------------------------
(* Mutant: a range is added for every delta. *)
AddedApart(o, c, d) ==
    IF d.bytes = 0 \/ o.over \/ o.thrown THEN o
    ELSE IF Len(o.pending) = 2 THEN [o EXCEPT !.thrown = TRUE]
    ELSE [size |-> [o.size EXCEPT ![c] = @ + d.bytes],
          ends |-> [o.ends EXCEPT ![c] = @ \cup {o.size[c] + e : e \in d.ends}],
          pending |-> Append(o.pending, Piece(c, o.size[c], d.bytes)),
          content |-> o.content \/ c = "content",
          over |-> FALSE, thrown |-> FALSE]

(* The loop body of emit. *)
Added(o, c, d) ==
    LET last == Len(o.pending)
        coalesce == last > 0 /\ o.pending[last].channel = c
        range == Piece(c, o.size[c], d.bytes)
        queue == IF coalesce
                 THEN [o.pending EXCEPT ![last] = Piece(c, @.offset, @.bytes + d.bytes)]
                 ELSE Append(o.pending, range)
    IN  IF d.bytes = 0 \/ o.over \/ o.thrown THEN o
        ELSE IF o.size["reasoning"] + o.size["content"] + d.bytes > TextLimit
        THEN [o EXCEPT !.over = TRUE]
        ELSE IF (c = "reasoning" /\ o.content) \/ (~coalesce /\ last = 2)
        THEN [o EXCEPT !.thrown = TRUE]
        ELSE [size |-> [o.size EXCEPT ![c] = @ + d.bytes],
              ends |-> [o.ends EXCEPT ![c] = @ \cup {o.size[c] + e : e \in d.ends}],
              pending |-> queue,
              content |-> o.content \/ c = "content",
              over |-> FALSE, thrown |-> FALSE]

(* The frontend publishes reasoning, then content, and turns once from the *)
(* one to the other.                                                       *)
emit == \E r \in Deltas : \E c \in Deltas :
    /\ ~done /\ ~out.over /\ ~out.thrown
    /\ r.bytes + c.bytes > 0
    /\ out.content => r.bytes = 0
    /\ out' = Added(Added(out, "reasoning", r), "content", c)
    /\ UNCHANGED <<done, batch, leases, final, heard, client>>

Finish ==
    /\ ~done /\ done' = TRUE
    /\ UNCHANGED <<out, batch, leases, final, heard, client>>

-----------------------------------------------------------------------------
(* n is what output_delivery_prefix answers: the longest prefix of p that  *)
(* fits the credit and splits no character.                                *)
DeliveryPrefix(p, credit, n) ==
    IF p.bytes <= credit THEN n = p.bytes
    ELSE /\ n \in 0..credit
         /\ n = 0 \/ p.offset + n \in out.ends[p.channel]
         /\ \A m \in (n + 1)..credit : p.offset + m \notin out.ends[p.channel]

(* What is left of the byte limit when the loop comes to pending range i.  *)
Credit(i) == IF i = 1 THEN Limit ELSE Limit - out.pending[1].bytes

(* Mutant: the leases that the sink still has are forgotten. *)
TakesRegardless(k, n) ==
    /\ k <= Slots
    /\ IF k = 0 THEN n = 0
       ELSE n > 0 /\ DeliveryPrefix(out.pending[k], Credit(k), n)
    /\ k = 2 => out.pending[1].bytes <= Limit

(* The loop of poll takes k ranges, of the last one n bytes. *)
Takes(k, n) ==
    /\ k <= Slots - leases
    /\ IF k = 0 THEN n = 0
       ELSE n > 0 /\ DeliveryPrefix(out.pending[k], Credit(k), n)
    /\ k = 2 => out.pending[1].bytes <= Limit
    /\ (k < Slots - leases /\ k < Len(out.pending) /\ (k > 0 => n = out.pending[k].bytes)) =>
            DeliveryPrefix(out.pending[k + 1], Credit(k + 1), 0)

Taken(k, n) == [i \in 1..k |-> LET p == out.pending[i] IN
    Piece(p.channel, p.offset, IF i = k THEN n ELSE p.bytes)]

(* Mutant: a range taken in part begins where it began. *)
RemainingFromStart(k, n) ==
    IF k > 0 /\ n < out.pending[k].bytes
    THEN LET p == out.pending[k] IN
         <<Piece(p.channel, p.offset, p.bytes - n)>> \o SubSeq(out.pending, k + 1, Len(out.pending))
    ELSE SubSeq(out.pending, k + 1, Len(out.pending))

(* What stays pending: a range taken in part stays with what is left of it. *)
Remaining(k, n) ==
    IF k > 0 /\ n < out.pending[k].bytes
    THEN LET p == out.pending[k] IN
         <<Piece(p.channel, p.offset + n, p.bytes - n)>> \o SubSeq(out.pending, k + 1, Len(out.pending))
    ELSE SubSeq(out.pending, k + 1, Len(out.pending))

(* A poll that finds nothing to do leaves no trace; wait polls again.      *)
poll ==
    /\ client = "idle"
    /\ \E k \in 0..Len(out.pending) : \E n \in 0..Limit :
        /\ Takes(k, n)
        /\ batch' = Taken(k, n)
        /\ leases' = leases + k
        /\ out' = [out EXCEPT !.pending = Remaining(k, n)]
        /\ final' = (done /\ Remaining(k, n) = <<>>)
        /\ client' = IF k > 0 \/ final' THEN "publish" ELSE "idle"
    /\ UNCHANGED <<done, heard>>

(* The sink returns from publish, and may keep the piece. *)
publish == \E kept \in {0, 1} :
    /\ client = "publish" /\ batch # <<>>
    /\ heard' = [heard EXCEPT ![Head(batch).channel] = @ + Head(batch).bytes]
    /\ batch' = Tail(batch)
    /\ leases' = leases - 1 + kept
    /\ UNCHANGED <<out, done, final, client>>

(* The sink throws: the pieces go, and so does the client. *)
SinkThrows ==
    /\ client = "publish" /\ batch # <<>>
    /\ batch' = <<>> /\ leases' = leases - Len(batch)
    /\ client' = "gone"
    /\ UNCHANGED <<out, done, final, heard>>

(* The sink lets go of a piece it kept. *)
LetGo ==
    /\ leases > Len(batch) /\ leases' = leases - 1
    /\ UNCHANGED <<out, done, batch, final, heard, client>>

(* Mutant: the end is not noticed. *)
PollReturnsIdle ==
    /\ client = "publish" /\ batch = <<>> /\ client' = "idle"
    /\ UNCHANGED <<out, done, batch, leases, final, heard>>

PollReturns ==
    /\ client = "publish" /\ batch = <<>>
    /\ client' = IF final THEN "complete" ELSE "idle"
    /\ UNCHANGED <<out, done, batch, leases, final, heard>>

DeliveryNext ==
    emit \/ Finish \/ poll \/ publish \/ SinkThrows \/ LetGo \/ PollReturns

DeliverySpec == DeliveryInit /\ [][DeliveryNext]_deliveryVars

-----------------------------------------------------------------------------
(* The two inline ranges suffice however late the client polls: emit never *)
(* meets a third one ("Pending output therefore needs at most two inline   *)
(* ranges, even for an absent consumer").                                  *)
TwoRangesSuffice == ~out.thrown

(* The sink is given every byte once and in its place: the next piece      *)
(* begins where the last one of its channel ended and ends with a whole    *)
(* character, content comes after all the reasoning, and a client that is  *)
(* told that the request is complete has been given the whole result.      *)
DeliveredExactly ==
    /\ batch # <<>> =>
        LET d == Head(batch) IN
        /\ d.offset = heard[d.channel]
        /\ d.offset + d.bytes \in out.ends[d.channel]
        /\ d.channel = "content" => heard["reasoning"] = out.size["reasoning"]
    /\ client = "complete" => heard = out.size

(* However long the sink keeps what it was given, no more than Slots       *)
(* pieces of the text exist outside of the result.                         *)
LeasesBounded == leases \in Len(batch)..Slots
=============================================================================
