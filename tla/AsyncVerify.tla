---------------------------- MODULE AsyncVerify ----------------------------
(***************************************************************************)
(* Asynchronous exact VeriCache: lanes draft tokens on compressed (L0)     *)
(* history and one exact line, shared by all lanes, checks them before     *)
(* they are published.  Three pieces of code meet here:                    *)
(*   - the VeriCache loop of execute_coherent_device (one thread a lane),  *)
(*   - Exl3FastDeviceRound's asynchronous verification and its worker,     *)
(*   - Exl3ExactLinePool, which lends the line and parks an unsaved pass.  *)
(*                                                                         *)
(* A token is what the exact model makes of it at its place: its own       *)
(* choice ("exact"), within the tolerance ("near"), beyond it ("off"), or  *)
(* a terminal token it would ("stop") or would not ("offstop") choose.     *)
(* The state of the line, or of a slot of it, is the sequence of tokens it *)
(* has run past the prompt.                                                *)
(***************************************************************************)
EXTENDS Integers, Sequences, FiniteSets

CONSTANTS
    Lanes,       \* the concurrent lanes
    Requests,    \* requests a lane serves in the model
    Budget,      \* output allowance of a request
    Width,       \* round_width_limit
    Block,       \* vericache_async_block
    FirstBlock,  \* first_block: size of a request's first block, 0 for none
    Lead,        \* async_lead_limit
    RingRows,    \* kAsyncRingRows
    Drafts,      \* the tokens an L0 round may draft
    StopStrings, \* whether the output session may end inside a block: the
                 \* session and commit_async handle it, though requests with
                 \* stop strings are refused on this route today
    Cancels,     \* whether clients cancel
    Faults       \* whether a line pass may fail

Nobody == "nobody"

Last(s) == s[Len(s)]
IsPrefix(s, t) == Len(s) <= Len(t) /\ SubSeq(t, 1, Len(s)) = s

Exact == {"exact", "stop"}
Beyond == {"off", "offstop"}
Terminal == {"stop", "offstop"}
Tokens == Exact \cup Beyond \cup {"near"}

ASSUME ConfigAssumption ==
    /\ IsFiniteSet(Lanes) /\ Nobody \notin Lanes
    /\ Requests \in Nat \ {0} /\ Budget \in Nat \ {0}
    /\ Width \in Nat \ {0} /\ Block \in Nat \ {0} /\ FirstBlock \in Nat
    /\ Lead \in Nat \ {0} /\ RingRows \in Nat
    /\ Drafts \subseteq Tokens /\ "exact" \in Drafts
    /\ {StopStrings, Cancels, Faults} \subseteq BOOLEAN

VARIABLES
    pc,          \* where the lane's thread is: idle, loop, settled, ending, failed
    served,      \* requests the lane has begun
    cancelled,   \* request.cancelled
    verified,    \* the committed tokens of the request
    early,       \* early_published.size(): 1 while the first token awaits its block
    unverified,  \* drafted tokens past the committed ones
    closed,      \* phase_ == Phase::closed
    rows,        \* async_rows(): drafted tokens of the block in flight, 0 for none
    job,         \* the worker's job: none, posted, done, error
    head,        \* line_head_: committed tokens the line has not run
    commit,      \* fold_commit_: the settled block
    owner,       \* owner_ of the pool
    holds,       \* what the live line holds for its owner
    live,        \* the line's live state
    root,        \* the lane's root slot
    pending,     \* the lane's pending slot
    parked       \* pending_parked

loopVars == <<served, cancelled, verified, early>>
roundVars == <<unverified, closed, rows, job, head, commit>>
poolVars == <<owner, holds, live, root, pending, parked>>
vars == <<pc, loopVars, roundVars, poolVars>>

NoCommit == [tokens |-> <<>>, corrected |-> FALSE]

Init ==
    /\ pc = [l \in Lanes |-> "idle"]
    /\ served = [l \in Lanes |-> 0]
    /\ cancelled = [l \in Lanes |-> FALSE]
    /\ verified = [l \in Lanes |-> <<>>]
    /\ early = [l \in Lanes |-> 0]
    /\ unverified = [l \in Lanes |-> <<>>]
    /\ closed = [l \in Lanes |-> FALSE]
    /\ rows = [l \in Lanes |-> 0]
    /\ job = [l \in Lanes |-> "none"]
    /\ head = [l \in Lanes |-> <<>>]
    /\ commit = [l \in Lanes |-> NoCommit]
    /\ owner = Nobody
    /\ holds = "other"
    /\ live = <<>>
    /\ root = [l \in Lanes |-> <<>>]
    /\ pending = [l \in Lanes |-> <<>>]
    /\ parked = [l \in Lanes |-> FALSE]

----------------------------------------------------------------------------
(* The pool: exclusive leases, so each use of the line is one step.        *)

(* Mutant: a lane takes the line without parking its owner's pass.         *)
ParksNothing(l) == FALSE

(* take: the line moves to lane l; an unsaved pass of its owner is parked. *)
Parks(l) == owner \notin {l, Nobody} /\ holds = "pass"

take(l) ==
    /\ owner' = l
    /\ pending' = IF Parks(l) THEN [pending EXCEPT ![owner] = live] ELSE pending

Unparked(l) ==
    [m \in Lanes |-> IF m = l THEN FALSE ELSE parked[m] \/ (Parks(l) /\ m = owner)]

holds_pass_of(l) == owner = l /\ holds = "pass"

(* Mutant: a pass runs on whatever its owner left on the line.             *)
AtRootUnrestored(l) == IF owner = l THEN live ELSE root[l]

(* at_root: the line at l's root, restored unless it is there already.     *)
AtRoot(l) == IF owner = l /\ holds = "root" THEN live ELSE root[l]

(* accept_pass: l's pass becomes its root, from the line or from its slot. *)
PassOf(l) == IF holds_pass_of(l) THEN live ELSE pending[l]

(* Mutant: a parked pass is accepted without exchanging the slots.         *)
AcceptForgetsParked(l) ==
    /\ root' = IF holds_pass_of(l) THEN [root EXCEPT ![l] = live] ELSE root
    /\ holds' = IF holds_pass_of(l) THEN "root" ELSE holds
    /\ parked' = [parked EXCEPT ![l] = FALSE]
    /\ UNCHANGED <<owner, live, pending>>

accept_pass(l) ==
    /\ root' = [root EXCEPT ![l] = PassOf(l)]
    /\ pending' = IF holds_pass_of(l) THEN pending ELSE [pending EXCEPT ![l] = root[l]]
    /\ holds' = IF holds_pass_of(l) THEN "root" ELSE holds
    /\ parked' = [parked EXCEPT ![l] = FALSE]
    /\ UNCHANGED <<owner, live>>

----------------------------------------------------------------------------
(* What the loop decides on.                                               *)

Active(l) == pc[l] \in {"loop", "settled", "ending"}
terminal_seen(l) == unverified[l] # <<>> /\ Last(unverified[l]) \in Terminal
room(l) == Budget - Len(verified[l]) - Len(unverified[l])
async_lead(l) == Len(head[l]) + Len(unverified[l])

async_can_draft(l) ==
    /\ ~terminal_seen(l)
    /\ room(l) > 0
    /\ async_lead(l) < Lead \/ unverified[l] = <<>>

(* The loop's condition: not cancelled, and output allowance left.         *)
Goes(l) == pc[l] = "loop" /\ ~cancelled[l] /\ Len(verified[l]) < Budget

(* A block in flight is settled when a later token checks its last row, or *)
(* drafting cannot go on (then the lane waits for it).                     *)
Settles(l) ==
    rows[l] > 0 /\ (~async_can_draft(l) \/ (Len(unverified[l]) > rows[l] /\ job[l] # "posted"))

LaunchRows(l) ==
    IF verified[l] = <<>> /\ FirstBlock > 0 /\ FirstBlock < Block THEN FirstBlock ELSE Block

Launches(l) ==
    /\ rows[l] = 0 /\ unverified[l] # <<>>
    /\ Len(unverified[l]) >= LaunchRows(l) \/ ~async_can_draft(l)

Least(S) == CHOOSE n \in S : \A m \in S : n <= m

RoundWidth(l) ==
    LET past == Lead - async_lead(l) IN
    Least({Width, room(l),
           IF unverified[l] = <<>> /\ past < Width THEN Width ELSE past})

(* The tokens of one round: only the last may be terminal.  The first one  *)
(* of a request comes from the exactly ingested prompt's last row.         *)
RoundTokens(l) ==
    {t \in UNION {[1..n -> Drafts] : n \in 1..RoundWidth(l)} :
        /\ \A i \in 1..(Len(t) - 1) : t[i] \notin Terminal
        /\ (verified[l] = <<>> /\ unverified[l] = <<>>) => t[1] \in Exact}

(* An exception on a lane fails the engine: its peers are cancelled.       *)
Fail(l) ==
    /\ pc' = [pc EXCEPT ![l] = "failed"]
    /\ cancelled' = [m \in Lanes |-> cancelled[m] \/ (m # l /\ Active(m))]
    /\ UNCHANGED <<served, verified, early, roundVars, poolVars>>

(* restore_ring_checkpoint: the frontier within RingRows of the root.      *)
RingHolds(l) == async_lead(l) <= RingRows

----------------------------------------------------------------------------
(* The steps.                                                              *)

(* begin_async_verification: the line is bound to the lane, synced from    *)
(* the drafting context at the prompt's end and saved as the lane's root.  *)
begin(l) ==
    /\ pc[l] = "idle" /\ served[l] < Requests
    /\ \A m \in Lanes : pc[m] # "failed"
    /\ pc' = [pc EXCEPT ![l] = "loop"]
    /\ served' = [served EXCEPT ![l] = @ + 1]
    /\ cancelled' = [cancelled EXCEPT ![l] = FALSE]
    /\ verified' = [verified EXCEPT ![l] = <<>>]
    /\ early' = [early EXCEPT ![l] = 0]
    /\ unverified' = [unverified EXCEPT ![l] = <<>>]
    /\ closed' = [closed EXCEPT ![l] = FALSE]
    /\ head' = [head EXCEPT ![l] = <<>>]
    /\ take(l)
    /\ parked' = [m \in Lanes |-> parked[m] \/ (Parks(l) /\ m = owner)]
    /\ live' = <<>>
    /\ root' = [root EXCEPT ![l] = <<>>]
    /\ holds' = "root"
    /\ UNCHANGED <<rows, job, commit>>

(* A drafting round; after the first one its first token is published      *)
(* early, unless it is terminal or the only one allowed.                   *)
draft(l) ==
    /\ Goes(l) /\ ~Settles(l) /\ ~Launches(l) /\ async_can_draft(l)
    /\ \E t \in RoundTokens(l) :
        /\ unverified' = [unverified EXCEPT ![l] = @ \o t]
        /\ closed' = [closed EXCEPT ![l] = Last(t) \in Terminal]
        /\ IF verified[l] = <<>> /\ unverified[l] = <<>> /\ Budget > 1 /\ t[1] \notin Terminal
           THEN \E n \in {0, 1} : early' = [early EXCEPT ![l] = n]
           ELSE UNCHANGED early
    /\ UNCHANGED <<pc, served, cancelled, verified, rows, job, head, commit, poolVars>>

(* launch_async: everything drafted becomes the worker's block.            *)
launch_async(l) ==
    /\ Goes(l) /\ Launches(l)
    /\ rows' = [rows EXCEPT ![l] = Len(unverified[l])]
    /\ job' = [job EXCEPT ![l] = "posted"]
    /\ UNCHANGED <<pc, loopVars, unverified, closed, head, commit, poolVars>>

InFlight(l) == head[l] \o SubSeq(unverified[l], 1, rows[l])

(* Mutant: the worker never marks its job done.                            *)
RunNeverDone(l) ==
    /\ job[l] = "posted"
    /\ take(l)
    /\ parked' = [m \in Lanes |-> parked[m] \/ (Parks(l) /\ m = owner)]
    /\ live' = AtRoot(l)
    /\ holds' = "root"
    /\ UNCHANGED <<pc, loopVars, roundVars, root>>

(* AsyncLine::run: the worker's pass over the head and the block, or its   *)
(* failure before the pass is recorded.                                    *)
run(l) ==
    /\ job[l] = "posted"
    /\ take(l)
    /\ parked' = [m \in Lanes |-> parked[m] \/ (Parks(l) /\ m = owner)]
    /\ \/ /\ live' = AtRoot(l) \o InFlight(l)
          /\ holds' = "pass"
          /\ job' = [job EXCEPT ![l] = "done"]
       \/ /\ Faults
          /\ live' \in {AtRoot(l), AtRoot(l) \o InFlight(l)}
          /\ holds' = "root"
          /\ job' = [job EXCEPT ![l] = "error"]
    /\ UNCHANGED <<pc, loopVars, unverified, closed, rows, head, commit, root>>

(* Mutant: the head's last row is not used to check the first token.       *)
RejectedPastFirst(l) ==
    {i \in 2..Len(unverified[l]) :
        LET token == unverified[l][i] IN
        /\ i <= rows[l] + 1
        /\ \/ token \in Beyond
           \/ i = rows[l] + 1 /\ token \notin Exact /\ ~holds_pass_of(l)}

(* The drafted tokens the exact scores reject: a row checks the token *)
(* after it, the head's last row the first drafted one.  The token after   *)
(* the block is rescored on the line while it holds the pass; once another *)
(* lane has taken the line only the exact choice passes.                   *)
Rejected(l) ==
    {i \in 1..Len(unverified[l]) :
        LET token == unverified[l][i] IN
        /\ i <= rows[l] + 1
        /\ i > 1 \/ head[l] # <<>>
        /\ \/ token \in Beyond
           \/ i = rows[l] + 1 /\ token \notin Exact /\ ~holds_pass_of(l)}

(* settle_async, accepted: the later drafted tokens stay.                  *)
settle_accept(l) ==
    /\ Goes(l) /\ Settles(l) /\ job[l] = "done" /\ Rejected(l) = {}
    /\ pc' = [pc EXCEPT ![l] = "settled"]
    /\ job' = [job EXCEPT ![l] = "none"]
    /\ commit' = [commit EXCEPT ![l] =
                    [tokens |-> SubSeq(unverified[l], 1, rows[l]), corrected |-> FALSE]]
    /\ unverified' = [unverified EXCEPT ![l] = SubSeq(@, rows[l] + 1, Len(@))]
    /\ rows' = [rows EXCEPT ![l] = 0]
    /\ UNCHANGED <<loopVars, closed, head, poolVars>>

(* settle_async, corrected: the exact choice replaces the first token that *)
(* is rejected, the pass is discarded and the line returns to the root     *)
(* (rewind_async).                                                         *)
settle_correct(l) ==
    /\ Goes(l) /\ Settles(l) /\ job[l] = "done" /\ Rejected(l) # {} /\ RingHolds(l)
    /\ pc' = [pc EXCEPT ![l] = "settled"]
    /\ job' = [job EXCEPT ![l] = "none"]
    /\ \E i \in Rejected(l), choice \in Exact \cap Drafts :
        /\ \A j \in Rejected(l) : i <= j
        /\ commit' = [commit EXCEPT ![l] =
            [tokens |-> Append(SubSeq(unverified[l], 1, i - 1), choice), corrected |-> TRUE]]
    /\ unverified' = [unverified EXCEPT ![l] = <<>>]
    /\ rows' = [rows EXCEPT ![l] = 0]
    /\ take(l)
    /\ parked' = Unparked(l)
    /\ live' = AtRoot(l)
    /\ holds' = "root"
    /\ UNCHANGED <<loopVars, closed, head, root>>

(* settle_async throws: the pass failed, or the ring checkpoint is passed. *)
settle_fail(l) ==
    /\ Goes(l) /\ Settles(l)
    /\ job[l] = "error" \/ (job[l] = "done" /\ Rejected(l) # {} /\ ~RingHolds(l))
    /\ Fail(l)

(* The output ends at a terminal token and at the allowance.               *)
Finishes(l, kept) ==
    \/ Len(verified[l]) + Len(kept) = Budget
    \/ kept # <<>> /\ Last(kept) \in Terminal

Publishes(l, kept) ==
    /\ verified' = [verified EXCEPT ![l] = @ \o kept]
    /\ early' = [early EXCEPT ![l] = 0]
    /\ closed' = [closed EXCEPT ![l] = FALSE]
    /\ commit' = [commit EXCEPT ![l] = NoCommit]
    /\ UNCHANGED <<served, cancelled, rows, job>>

(* The block is published whole and committed (commit_async): an accepted  *)
(* block moves the root to its end, a corrected one becomes line head.     *)
commit_all(l) ==
    LET tokens == commit[l].tokens IN
    /\ pc[l] = "settled"
    /\ Publishes(l, tokens)
    /\ \/ (Finishes(l, tokens) \/ StopStrings) /\ pc' = [pc EXCEPT ![l] = "ending"]
       \/ ~Finishes(l, tokens) /\ pc' = [pc EXCEPT ![l] = "loop"]
    /\ IF commit[l].corrected
       THEN /\ head' = [head EXCEPT ![l] = @ \o tokens]
            /\ UNCHANGED poolVars
       ELSE /\ head' = [head EXCEPT ![l] = <<>>]
            /\ accept_pass(l)
    /\ UNCHANGED unverified

(* A stop string ended the output inside the block: the line runs its head *)
(* and the kept prefix, and is saved there as the lane's root.             *)
SettledLead(l) == async_lead(l) + Len(commit[l].tokens)

(* Mutant: the early first token is not counted as published.              *)
CommitForgetsEarly(l) ==
    /\ StopStrings /\ pc[l] = "settled" /\ SettledLead(l) <= RingRows
    /\ \E n \in 0..(Len(commit[l].tokens) - 1) :
        LET kept == SubSeq(commit[l].tokens, 1, n) IN
        /\ Publishes(l, kept)
        /\ live' = AtRoot(l) \o head[l] \o kept
        /\ root' = [root EXCEPT ![l] = live']
    /\ take(l)
    /\ parked' = Unparked(l)
    /\ holds' = "root"
    /\ head' = [head EXCEPT ![l] = <<>>]
    /\ unverified' = [unverified EXCEPT ![l] = <<>>]
    /\ pc' = [pc EXCEPT ![l] = "ending"]

commit_part(l) ==
    /\ StopStrings /\ pc[l] = "settled" /\ SettledLead(l) <= RingRows
    /\ \E n \in early[l]..(Len(commit[l].tokens) - 1) :
        LET kept == SubSeq(commit[l].tokens, 1, n) IN
        /\ Publishes(l, kept)
        /\ live' = AtRoot(l) \o head[l] \o kept
        /\ root' = [root EXCEPT ![l] = live']
    /\ take(l)
    /\ parked' = Unparked(l)
    /\ holds' = "root"
    /\ head' = [head EXCEPT ![l] = <<>>]
    /\ unverified' = [unverified EXCEPT ![l] = <<>>]
    /\ pc' = [pc EXCEPT ![l] = "ending"]

Over(l) == pc[l] = "ending" \/ (pc[l] = "loop" /\ cancelled[l])

(* end_async: a block in flight is awaited and dropped, the line runs the  *)
(* head, the drafting context takes its state and the line is released.    *)
end_async(l) ==
    /\ Over(l) /\ ~closed[l] /\ job[l] \in {"none", "done"} /\ RingHolds(l)
    /\ pc' = [pc EXCEPT ![l] = "idle"]
    /\ rows' = [rows EXCEPT ![l] = 0]
    /\ job' = [job EXCEPT ![l] = "none"]
    /\ unverified' = [unverified EXCEPT ![l] = <<>>]
    /\ head' = [head EXCEPT ![l] = <<>>]
    /\ pending' = IF Parks(l) THEN [pending EXCEPT ![owner] = live] ELSE pending
    /\ parked' = Unparked(l)
    /\ live' = AtRoot(l) \o head[l]
    /\ owner' = Nobody
    /\ holds' = "other"
    /\ UNCHANGED <<loopVars, closed, commit, root>>

(* end_async throws on a round a terminal token has closed.                *)
end_closed(l) == Over(l) /\ closed[l] /\ Fail(l)

(* It throws when the pass it awaits failed, and it or commit_async when   *)
(* the ring checkpoint does not reach the frontier.                        *)
end_fail(l) ==
    /\ \/ Over(l) /\ ~closed[l] /\ job[l] = "error"
       \/ Over(l) /\ ~closed[l] /\ job[l] \in {"none", "done"} /\ ~RingHolds(l)
       \/ StopStrings /\ pc[l] = "settled" /\ SettledLead(l) > RingRows /\ early[l] < Len(commit[l].tokens)
    /\ Fail(l)

cancel(l) ==
    /\ Cancels /\ Active(l) /\ ~cancelled[l]
    /\ cancelled' = [cancelled EXCEPT ![l] = TRUE]
    /\ UNCHANGED <<pc, served, verified, early, roundVars, poolVars>>

(* Nothing is left to do. *)
rest ==
    /\ \A l \in Lanes : ~Active(l)
    /\ (\E l \in Lanes : pc[l] = "failed") \/ \A l \in Lanes : served[l] = Requests
    /\ UNCHANGED vars

LaneStep(l) ==
    \/ begin(l) \/ draft(l) \/ launch_async(l)
    \/ settle_accept(l) \/ settle_correct(l) \/ settle_fail(l)
    \/ commit_all(l) \/ commit_part(l)
    \/ end_async(l) \/ end_closed(l) \/ end_fail(l)

Next ==
    \/ \E l \in Lanes : LaneStep(l) \/ run(l) \/ cancel(l)
    \/ rest

Fairness == \A l \in Lanes : WF_vars(LaneStep(l)) /\ WF_vars(run(l))

Spec == Init /\ [][Next]_vars /\ Fairness

----------------------------------------------------------------------------
(* Properties.                                                             *)

(* What the client has: the committed tokens and the early first token.    *)
Published(l) ==
    IF early[l] = 0 \/ ~Active(l) THEN verified[l]
    ELSE verified[l] \o (IF pc[l] = "settled" THEN <<commit[l].tokens[1]>>
                         ELSE SubSeq(unverified[l], 1, 1))

(* "publish only verified tokens": no token reaches the client that the    *)
(* exact model would not have kept.                                        *)
OnlyVerifiedPublished ==
    \A l \in Lanes : \A i \in 1..Len(Published(l)) : Published(l)[i] \notin Beyond

(* A lane settles a block with nothing drafted behind it only at the end   *)
(* of its output: the lead it may draft is never used up by the line head  *)
(* and the block in flight.                                                *)
LeadLasts == \A l \in Lanes :
    (Goes(l) /\ Settles(l) /\ Len(unverified[l]) = rows[l]) => terminal_seen(l) \/ ~(room(l) > 0)

(* The last row of a block checks the token drafted after it.  While the   *)
(* lead lasts there is one, and then "publish only verified tokens" holds: *)
(* through corrections, stop strings, cancellations and whatever the lanes *)
(* do with the line, a used-up lead is the only way past the exact model.  *)
VerifiedWhileLeadLasts == []LeadLasts => []OnlyVerifiedPublished

(* A published token is never taken back or replaced while its request     *)
(* runs: a correction or a partial commit only adds, and the early first   *)
(* token is kept by the block that verifies it.                            *)
PublishedNeverRetracted ==
    [][\A l \in Lanes :
        (Active(l) /\ Active(l)') => IsPrefix(Published(l), Published(l)')]_vars

(* The lane's root slot plus its line head is what has been committed: the *)
(* line a lane resumes after any exchange with its peers is its own.       *)
LineFrontier ==
    \A l \in Lanes : Active(l) => root[l] \o head[l] = verified[l]

(* A finished pass survives until its block is committed, on the line or   *)
(* parked in the lane's slot, and holds exactly head and block ("exact     *)
(* line pass neither held nor parked" is never thrown).                    *)
PassKept ==
    \A l \in Lanes :
        LET block == IF pc[l] = "settled" THEN head[l] \o commit[l].tokens ELSE InFlight(l) IN
        (Active(l) /\ (job[l] = "done" \/ (pc[l] = "settled" /\ ~commit[l].corrected))) =>
            /\ holds_pass_of(l) \/ parked[l]
            /\ PassOf(l) = root[l] \o block

(* The state a request leaves for the conversation's next turn is the      *)
(* exact one at its committed tokens, drafted ones past it dropped.        *)
HandsOverExact ==
    [][\A l \in Lanes : (pc[l] # "idle" /\ pc'[l] = "idle") => live' = verified[l]]_vars

(* Every request a lane begins ends, in a result or in a failure.          *)
RequestEnds ==
    \A l \in Lanes : (pc[l] = "loop") ~> (pc[l] \in {"idle", "failed"})

(* Without a device fault no request fails: a cancellation drops what is   *)
(* drafted or in flight and ends the request.                              *)
CancelEndsClean == \A l \in Lanes : pc[l] # "failed"
============================================================================
