------------------------------- MODULE LaneKv -------------------------------
(***************************************************************************)
(* Where the KV rows of retained histories live: the lanes' plane sets     *)
(* (Exl3LaneKvSource), the pages that name their rows (Exl3ExactKVPage)    *)
(* and the spill file (Exl3KvSpillStore).                                  *)
(*                                                                         *)
(* A lane writes rows into the plane set it has bound.  An export names    *)
(* them by pages without copying them; from then on the rows of a page are *)
(* in some set's planes, in a RAM buffer, packed, or in a slot of the      *)
(* spill file, and they move between these while other lanes restore the   *)
(* same history, the pressure relief spills it, and the retained roots     *)
(* that keep its pages alive are evicted.                                  *)
(*                                                                         *)
(* A page is one block of rows.  The content of a place is the name of the *)
(* page whose rows it is, so a page's rows are right where its content is  *)
(* its own name.  A critical section of a set's mutex (or of the payload   *)
(* mutex) is an action; only an exchange holds the set's mutex longer.     *)
(* Pins are taken without a lock, so in between a look at them and what is *)
(* done about it: such a section may miss the pins of a restore that has   *)
(* not yet waited for the payload mutex itself.                            *)
(***************************************************************************)
EXTENDS Naturals, Sequences, FiniteSets, SequencesExt, FiniteSetsExt

CONSTANTS
    Lanes,
    Pages,      \* 1..n: the pages alive at a time
    Sets,       \* 1..n: the plane sets alive at a time
    Blocks,     \* the context length, in pages
    AdoptMin,   \* adopt_min_pages
    Coded,      \* the pages whose export assigns codes: they are packed
    WriteFails, \* whether a write to the spill file may fail
    Room,       \* the slots for which the volume has room
    Retained,   \* the histories that earlier requests left, as sequences of pages
    Exports, Restores   \* bounds on how often each happens

ASSUME ConfigAssumption ==
    /\ Pages = 1..Cardinality(Pages) /\ Sets = 1..Cardinality(Sets)
    /\ Cardinality(Sets) > Cardinality(Lanes) + Cardinality(Pages)
    /\ Blocks \in Nat \ {0} /\ AdoptMin \in Nat /\ WriteFails \in BOOLEAN
    /\ Coded \subseteq Pages /\ Retained \in Seq(Seq(Pages))
    /\ Room \in Nat /\ Exports \in Nat /\ Restores \in Nat

None == 0
Written == Cardinality(Pages) + 1   \* the content of rows no page names yet
Free == "free"                      \* a set no one has bound
Relief == "relief"                  \* relief_owner

VARIABLES
    page,       \* per page: where its rows are, its set, its history, buffer and slot
    planes,     \* per set and block: the content of the rows
    bound,      \* bound_: the owner of each set
    spill,      \* the spill file: its free slots, live count and contents
    roots,      \* the retained roots, each the last page of its history
    lane,       \* per lane: its set, position, exact prefix and pending rewrite
    job,        \* per lane: its restore under way
    relief,     \* the set the relief pass has bound
    left        \* the exports and restores still to come

vars == <<page, planes, bound, spill, roots, lane, job, relief, left>>

----------------------------------------------------------------------------
(* Pages and sets.                                                          *)

Dead == [where |-> "dead", set |-> None, history |-> <<>>, data |-> None, slot |-> None]
Idle == [pc |-> "idle", root |-> None, all |-> FALSE, pairs |-> {},
         foreign |-> <<>>, resident |-> {}, adoptable |-> {}]
Empty == [b \in 1..Blocks |-> None]

History(r) == IF r = None THEN <<>> ELSE page[r].history
State(r) == Range(History(r))
Block(p) == Len(page[p].history)

Holds(s, p) == page[p].where = "planes" /\ page[p].set = s
Held(s) == {p \in Pages : Holds(s, p)}
Deferred(p) == page[p].where \in {"planes", "packed", "spilled"}
Locked(s) == \E l \in Lanes : job[l].pc = "exchange" /\ lane[l].set = s

(* The restores that have pinned p, and those among them that have not had  *)
(* the payload mutex since.  A section that looks at the pins counts all,   *)
(* but for the pages in missed: those it looked at before the latter came.  *)
Pinning(p) == {l \in Lanes : job[l].pc # "idle" /\ p \in State(job[l].root)}
Early(l) == job[l].pc \in {"pinned", "fresh", "pair"}
Missable == SUBSET {p \in Pages : \E l \in Pinning(p) : Early(l)}
Pins(p, missed) == Cardinality({l \in Pinning(p) : p \in missed => ~Early(l)})

Content(p) ==
    CASE page[p].where = "planes"  -> planes[page[p].set][Block(p)]
      [] page[p].where = "spilled" -> spill.disk[page[p].slot]
      [] OTHER                     -> page[p].data

(* The lanes are free and the sets after theirs hold the retained histories,*)
(* a page shared by several in the first of them.                           *)
Init ==
    LET n == Cardinality(Lanes)
        at(p) == {i \in DOMAIN Retained : p \in Range(Retained[i])}
        history(p) == LET h == Retained[Min(at(p))] IN SubSeq(h, 1, CHOOSE i \in DOMAIN h : h[i] = p)
    IN  /\ page = [p \in Pages |-> IF at(p) = {} THEN Dead ELSE
              [Dead EXCEPT !.where = "planes", !.set = n + Min(at(p)), !.history = history(p)]]
        /\ planes = [s \in Sets |-> IF s - n \notin DOMAIN Retained THEN Empty ELSE
              [b \in 1..Blocks |-> IF b <= Len(Retained[s - n]) THEN Retained[s - n][b] ELSE None]]
        /\ \E first \in [Lanes -> 1..n] :
              /\ IsInjective(first)
              /\ lane = [l \in Lanes |-> [set |-> first[l], pos |-> 0, prefix |-> None, pending |-> FALSE]]
              /\ bound = [s \in Sets |-> IF s > n THEN Free ELSE CHOOSE l \in Lanes : first[l] = s]
        /\ roots = {Last(Retained[i]) : i \in DOMAIN Retained}
    /\ spill = [free |-> {}, live |-> 0, disk |-> <<>>]
    /\ job = [l \in Lanes |-> Idle]
    /\ relief = None
    /\ left = [exports |-> Exports, restores |-> Restores]

----------------------------------------------------------------------------
(* The spill file.  A batch of pages takes free slots before new ones; the  *)
(* slot of a failed write goes back to the free list.                       *)

SlotOf(tried) ==
    LET end == Len(spill.disk)
        from == spill.free \cup ((end + 1)..(end + Cardinality(tried)))
        rank(x, S) == Cardinality({y \in S : y < x})
    IN [p \in tried |-> CHOOSE i \in from : rank(i, from) = rank(p, tried)]

(* allocate and write, for the pages in slot; those not written are         *)
(* released.                                                                *)
Allocated(slot, written) ==
    LET used == DOMAIN spill.disk \cup Range(slot) IN
    [free |-> (spill.free \ Range(slot)) \cup {slot[p] : p \in (DOMAIN slot) \ written},
     live |-> spill.live + Cardinality(written),
     disk |-> [i \in 1..Cardinality(used) |->
        IF \E p \in written : slot[p] = i THEN Content(CHOOSE p \in written : slot[p] = i)
        ELSE IF i > Len(spill.disk) THEN None ELSE spill.disk[i]]]

(* Mutant: the slot comes free but still counts as live.                    *)
ReturnedUncounted(P) ==
    LET mine == {page[p].slot : p \in {q \in P : page[q].where = "spilled"}}
    IN [free |-> spill.free \cup mine, live |-> spill.live,
        disk |-> [i \in DOMAIN spill.disk |-> IF i \in mine THEN None ELSE spill.disk[i]]]

(* reset_spill for the pages P: the slots they own go back.                 *)
Returned(P) ==
    LET owners == {p \in P : page[p].where = "spilled"}
        mine == {page[p].slot : p \in owners}
    IN [free |-> spill.free \cup mine,
        live |-> spill.live - Cardinality(owners),
        disk |-> [i \in DOMAIN spill.disk |-> IF i \in mine THEN None ELSE spill.disk[i]]]

----------------------------------------------------------------------------
(* Moving the rows of pages.                                                *)

(* The rows of some pages of P go to slots, as far as the volume has room;  *)
(* the rows of the others, failed writes included, go to their buffers.     *)
Move(P, buffer) ==
    \E tried \in SUBSET P :
    LET slot == SlotOf(tried) IN
    \E written \in IF WriteFails THEN SUBSET tried ELSE {tried} :
        /\ spill.live + Cardinality(tried) <= Room
        /\ spill' = Allocated(slot, written)
        /\ page' = [p \in Pages |->
             IF p \in written THEN [page[p] EXCEPT !.where = "spilled", !.data = None, !.slot = slot[p]]
             ELSE IF p \in P THEN [page[p] EXCEPT !.where = buffer[p], !.data = Content(p)]
             ELSE page[p]]

(* fill_locked: rows leave the planes, packed if the page has its codes;    *)
(* while host memory is short they are spilled.                             *)
Fill(P) == Move(P, [p \in P |-> IF p \in Coded THEN "packed" ELSE "ram"])

(* Mutant: pins are not looked at.                                          *)
SpillablePinned(s) == {p \in Pages : page[p].set = s /\ page[p].where \in {"ram", "packed"}}

(* spill_filled: filled and packed pages of s, but for those it saw pinned. *)
Spillable(s) == {p \in Pages : /\ page[p].set = s /\ page[p].where \in {"ram", "packed"}
                               /\ Pins(p, Pages) = 0}
SpillFilled(s) == Move(Spillable(s), [p \in Spillable(s) |-> page[p].where])

(* materialize for each page of P: its rows go to RAM for a reader.         *)
Materialize(P) ==
    LET read == {p \in P : Deferred(p)} IN
    /\ page' = [p \in Pages |-> IF p \notin read THEN page[p] ELSE
            [page[p] EXCEPT !.where = "ram", !.data = Content(p), !.slot = None]]
    /\ spill' = Returned(read)

(* The rows of the pages P copied into the planes of s.                     *)
Copied(s, P) == [planes EXCEPT ![s] = [b \in 1..Blocks |->
    IF \E p \in P : Block(p) = b THEN Content(CHOOSE p \in P : Block(p) = b) ELSE @[b]]]

(* The pages of no history that ends in a page of kept expire: their slots  *)
(* return, and rows with their content are nobody's.                        *)
Expire(rows, kept) ==
    LET live == UNION {State(r) : r \in kept \cup {job[l].root : l \in Lanes}}
        gone == {p \in Pages : page[p].where # "dead"} \ live
    IN  /\ page' = [p \in Pages |-> IF p \in gone THEN Dead ELSE page[p]]
        /\ planes' = [s \in Sets |-> [b \in 1..Blocks |->
                        IF rows[s][b] \in gone THEN None ELSE rows[s][b]]]
        /\ spill' = Returned(gone)

(* The rows of the lane's set from block n + 1 on, but for those its pages  *)
(* still need, are nobody's any more.                                       *)
LastHeld(s) == Max({Block(p) : p \in Held(s)} \cup {0})
Forgotten(l, n) == [planes EXCEPT ![lane[l].set] = [b \in 1..Blocks |->
    IF b > n /\ (@[b] = Written \/ b > LastHeld(lane[l].set)) THEN None ELSE @[b]]]

(* bind_plane_set: the lane's set becomes idle, and every idle set keeps    *)
(* the rows up to the last page it holds (release_idle_unreferenced_rows).  *)
Rebound(l, s) == IF s = lane[l].set THEN bound ELSE [bound EXCEPT ![lane[l].set] = Free, ![s] = l]
Released(l, s) == IF s = lane[l].set THEN planes ELSE
    [t \in Sets |-> LET last == LastHeld(t) IN
        IF t \in {s, lane[l].set} \/ bound[t] = Free
        THEN [b \in 1..Blocks |-> IF b > last THEN None ELSE planes[t][b]]
        ELSE planes[t]]

(* A new set: the name of one that nobody has bound and that no page and no *)
(* restore under way refers to.                                             *)
FreshSet == Min({s \in Sets : /\ bound[s] = Free /\ \A p \in Pages : page[p].set # s
                              /\ \A l \in Lanes : \A entry \in Range(job[l].foreign) : entry[2] # s})

----------------------------------------------------------------------------
(* A lane at work.                                                          *)

(* reset_impl: the lineage ends; the planes keep their rows until a forward.*)
Reset(l) ==
    /\ job[l].pc = "idle" /\ lane[l].pos > 0
    /\ lane' = [lane EXCEPT ![l].pos = 0, ![l].prefix = None, ![l].pending = TRUE]
    /\ Expire(Forgotten(l, 0), roots \cup {lane[k].prefix : k \in Lanes \ {l}})
    /\ UNCHANGED <<bound, roots, job, relief, left>>

(* Mutant: a fresh set only if a page holds the very row to be written.     *)
ForwardOverHeld(l) ==
    LET s == IF lane[l].pending /\ \E p \in Held(lane[l].set) : Block(p) = lane[l].pos + 1
             THEN FreshSet ELSE lane[l].set IN
    /\ job[l].pc = "idle" /\ lane[l].pos < Blocks
    /\ lane' = [lane EXCEPT ![l].set = s, ![l].pos = @ + 1, ![l].pending = FALSE]
    /\ bound' = Rebound(l, s)
    /\ planes' = [Released(l, s) EXCEPT ![s][lane[l].pos + 1] = Written]
    /\ UNCHANGED <<page, spill, roots, job, relief, left>>

(* A forward: ensure_l0_rows consumes the pending rewrite (a set that still *)
(* holds pages is left idle and a fresh one bound), then the row is written.*)
Forward(l) ==
    LET s == IF lane[l].pending /\ Held(lane[l].set) # {} THEN FreshSet ELSE lane[l].set IN
    /\ job[l].pc = "idle" /\ lane[l].pos < Blocks
    /\ lane' = [lane EXCEPT ![l].set = s, ![l].pos = @ + 1, ![l].pending = FALSE]
    /\ bound' = Rebound(l, s)
    /\ planes' = [Released(l, s) EXCEPT ![s][lane[l].pos + 1] = Written]
    /\ UNCHANGED <<page, spill, roots, job, relief, left>>

(* export_exact_host_state: fresh pages name the rows beyond the prefix,    *)
(* deferred to the lane's set; the root is retained.                        *)
Export(l) ==
    LET old == Len(History(lane[l].prefix))
        n == lane[l].pos - old
        unused == SetToSortSeq({p \in Pages : page[p].where = "dead"}, <)
        fresh == SubSeq(unused, 1, n)
        history == History(lane[l].prefix) \o fresh
        root == Last(history)
    IN  /\ job[l].pc = "idle" /\ lane[l].pos > 0 /\ Len(unused) >= n
        /\ root \notin roots
        /\ page' = [p \in Pages |-> IF p \notin Range(fresh) THEN page[p] ELSE
              [Dead EXCEPT !.where = "planes", !.set = lane[l].set,
                 !.history = SubSeq(history, 1, CHOOSE i \in 1..Len(history) : history[i] = p)]]
        /\ planes' = [planes EXCEPT ![lane[l].set] =
              [b \in 1..Blocks |-> IF b > old /\ b <= lane[l].pos THEN history[b] ELSE @[b]]]
        /\ roots' = roots \cup {root}
        /\ lane' = [lane EXCEPT ![l].prefix = root]
        /\ left.exports > 0 /\ left' = [left EXCEPT !.exports = @ - 1]
        /\ UNCHANGED <<bound, spill, job, relief>>

(* A rejected draft: the lane returns to a verified position, after         *)
(* materialize_from filled every page that reaches past it.                 *)
Rewind(l, r) ==
    /\ job[l].pc = "idle" /\ r < lane[l].pos /\ r > 0 /\ r >= Len(History(lane[l].prefix))
    /\ Fill({p \in Held(lane[l].set) : Block(p) > r})
    /\ lane' = [lane EXCEPT ![l].pos = r]
    /\ planes' = Forgotten(l, r)
    /\ UNCHANGED <<bound, roots, job, relief, left>>

(* A retained root is evicted.                                              *)
Evict(r) ==
    /\ roots' = roots \ {r}
    /\ Expire(planes, roots' \cup {lane[l].prefix : l \in Lanes})
    /\ UNCHANGED <<bound, lane, job, relief, left>>

----------------------------------------------------------------------------
(* restore_host_state_impl, from the pins on the pages of the root to the   *)
(* re-homing of the restored ones.                                          *)

(* Exl3PagePins: the pages of the root are pinned.                          *)
RestorePin(l, r) ==
    /\ job[l].pc = "idle" /\ lane[l].pos = 0
    /\ job' = [job EXCEPT ![l].pc = "pinned", ![l].root = r]
    /\ left.restores > 0 /\ left' = [left EXCEPT !.restores = @ - 1]
    /\ UNCHANGED <<page, planes, bound, spill, roots, lane, relief>>

(* adopt_plane_set_of binds the other set that holds the most pages of the  *)
(* history, if it is half of them; try_bind may fail, for a set that        *)
(* another lane or a pass has bound.  Rows the lane's own set has left over *)
(* are of no use to a restore that keeps the set.                           *)
RestoreBegin(l) ==
    LET r == job[l].root
        count(s) == IF s = lane[l].set THEN 0 ELSE Cardinality(Held(s) \cap State(r))
        most == Max({count(s) : s \in Sets})
        n == Len(History(r))
        best == IF n >= AdoptMin /\ most > 0 /\ most * 2 >= n
                THEN {s \in Sets : count(s) = most /\ bound[s] = Free} ELSE {}
    IN  /\ job[l].pc = "pinned"
        /\ \E s \in best \cup {lane[l].set} :
              /\ bound' = Rebound(l, s)
              /\ planes' = IF s = lane[l].set THEN Forgotten(l, 0) ELSE Released(l, s)
              /\ lane' = [lane EXCEPT ![l].set = s, ![l].pending = FALSE]
        /\ job' = [job EXCEPT ![l].pc = "fresh"]
        /\ UNCHANGED <<page, spill, roots, relief, left>>

(* A set that holds more of other histories than the restored one has pages *)
(* is left idle; then kv_lane_resident asks for the last page alone.        *)
RestoreFresh(l) ==
    LET root == job[l].root
        s == IF Cardinality(Held(lane[l].set) \ State(root)) > Len(History(root))
             THEN FreshSet ELSE lane[l].set
    IN  /\ job[l].pc = "fresh"
        /\ bound' = Rebound(l, s) /\ planes' = Released(l, s)
        /\ lane' = [lane EXCEPT ![l].set = s]
        /\ job' = [job EXCEPT ![l].all = Holds(s, root), ![l].pc = "pair"]
        /\ UNCHANGED <<page, spill, roots, relief, left>>

(* exchange, first part: filled incoming pages that only this restore has   *)
(* pinned are paired with the outgoing pages on the same rows, and the      *)
(* unpaired outgoing pages are filled.  It is not for a resident history,   *)
(* and returns at once if no page is outgoing.                              *)
Outgoing(l) == Held(lane[l].set) \ State(job[l].root)
Exchanges(l) == ~job[l].all /\ Outgoing(l) # {}
Exchangeable(p, missed) == page[p].where = "ram" /\ Pins(p, missed) <= 1
RestorePair(l) ==
    LET pairs == {<<i, o>> \in State(job[l].root) \X Outgoing(l) :
                    Exchangeable(i, {}) /\ Block(i) = Block(o)}
    IN  /\ job[l].pc = "pair" /\ Exchanges(l)
        /\ Fill({o \in Outgoing(l) : \A pair \in pairs : pair[2] # o})
        /\ job' = [job EXCEPT ![l].pairs = pairs,
                              ![l].pc = IF pairs = {} THEN "except" ELSE "exchange"]
        /\ UNCHANGED <<planes, bound, roots, lane, relief, left>>

(* The first contiguous run of pairs trades places, if every pair is still  *)
(* as it was found; otherwise its outgoing pages are filled.                *)
Run(ps) == LET first == Min({Block(p) : p \in ps}) IN
    {p \in ps : \A b \in first..Block(p) : \E q \in ps : Block(q) = b}
Tradable(pair, s, missed) == Exchangeable(pair[1], missed) /\ Holds(s, pair[2])
RestoreExchange(l) ==
    LET s == lane[l].set
        ins == Run({pair[1] : pair \in job[l].pairs})
        run == {pair \in job[l].pairs : pair[1] \in ins}
        outs == {pair[2] : pair \in run}
        rest == job[l].pairs \ run
    IN  /\ job[l].pc = "exchange"
        /\ \E missed \in Missable :
           IF \A pair \in run : Tradable(pair, s, missed)
           THEN /\ page' = [p \in Pages |->
                      IF p \in outs THEN [page[p] EXCEPT !.where = "ram", !.data = Content(p)]
                      ELSE IF p \in ins THEN [page[p] EXCEPT !.where = "planes", !.set = s, !.data = None]
                      ELSE page[p]]
                /\ planes' = Copied(s, ins)
                /\ UNCHANGED spill
           ELSE Fill({o \in outs : Holds(s, o)}) /\ UNCHANGED planes
        /\ job' = [job EXCEPT ![l].pairs = rest,
                              ![l].pc = IF rest = {} THEN "except" ELSE "exchange"]
        /\ UNCHANGED <<bound, roots, lane, relief, left>>

(* materialize_except, and the pages of the history sorted into those these *)
(* planes hold and those to be copied from their owner.                     *)
RestoreExcept(l) ==
    LET s == lane[l].set
        history == History(job[l].root)
        foreign == SelectSeq(history, LAMBDA p : Deferred(p) /\ ~Holds(s, p))
    IN  /\ job[l].pc = "except" \/ (job[l].pc = "pair" /\ ~Exchanges(l))
        /\ Fill(Outgoing(l))
        /\ job' = [job EXCEPT ![l].pc = "copy",
              ![l].resident = IF job[l].all THEN {} ELSE Held(s) \cap State(job[l].root),
              ![l].foreign = IF job[l].all THEN <<>>
                             ELSE [i \in 1..Len(foreign) |-> <<foreign[i], page[foreign[i]].set>>]]
        /\ UNCHANGED <<planes, bound, roots, lane, relief, left>>

(* Mutant: the run counts as copied though its pages have left.             *)
RestoreCopyAssumed(l) ==
    LET foreign == job[l].foreign
        owner == foreign[1][2]
        n == Max({i \in 1..Len(foreign) : \A j \in 1..i :
                /\ foreign[j][2] = owner
                /\ Block(foreign[j][1]) = Block(foreign[1][1]) + j - 1})
        run == {foreign[j][1] : j \in 1..n}
        off == {p \in run : page[p].where # "planes"}
        here == \A p \in run : Deferred(p) /\ page[p].set = owner
    IN  /\ job[l].pc = "copy" /\ foreign # <<>> /\ ~Locked(owner)
        /\ planes' = IF here THEN Copied(lane[l].set, run) ELSE planes
        /\ job' = [job EXCEPT ![l].foreign = SubSeq(@, n + 1, Len(@)),
                              ![l].resident = @ \cup run,
                              ![l].adoptable = IF here THEN @ \cup off ELSE @]
        /\ UNCHANGED <<page, bound, spill, roots, lane, relief, left>>

(* copy_run_to for the first run of pages on consecutive rows of one owner; *)
(* it copies nothing if a page left that owner meanwhile.                   *)
RestoreCopy(l) ==
    LET foreign == job[l].foreign
        owner == foreign[1][2]
        n == Max({i \in 1..Len(foreign) : \A j \in 1..i :
                /\ foreign[j][2] = owner
                /\ Block(foreign[j][1]) = Block(foreign[1][1]) + j - 1})
        run == {foreign[j][1] : j \in 1..n}
        off == {p \in run : page[p].where # "planes"}
        here == \A p \in run : Deferred(p) /\ page[p].set = owner
    IN  /\ job[l].pc = "copy" /\ foreign # <<>> /\ ~Locked(owner)
        /\ planes' = IF here THEN Copied(lane[l].set, run) ELSE planes
        /\ job' = [job EXCEPT ![l].foreign = SubSeq(@, n + 1, Len(@)),
                              ![l].resident = IF here THEN @ \cup run ELSE @,
                              ![l].adoptable = IF here THEN @ \cup off ELSE @]
        /\ UNCHANGED <<page, bound, spill, roots, lane, relief, left>>

(* exl3_require_kv_payload for the pages these planes do not have.          *)
Missing(l) == IF job[l].all THEN {} ELSE State(job[l].root) \ job[l].resident
RestoreRequire(l) ==
    /\ job[l].pc = "copy" /\ job[l].foreign = <<>>
    /\ \A p \in Missing(l) : Deferred(p) => ~Locked(page[p].set)
    /\ Materialize(Missing(l))
    /\ job' = [job EXCEPT ![l].adoptable = @ \cup Missing(l), ![l].pc = "load"]
    /\ UNCHANGED <<planes, bound, roots, lane, relief, left>>

(* The missing rows are read from the pages' buffers, unless one was        *)
(* deferred again: then it is brought back first.                           *)
RestoreLoad(l) ==
    /\ job[l].pc = "load"
    /\ IF \E p \in Missing(l) : Deferred(p)
       THEN job' = [job EXCEPT ![l].pc = "copy"] /\ UNCHANGED planes
       ELSE /\ planes' = Copied(lane[l].set, Missing(l))
            /\ job' = [job EXCEPT ![l].pc = "adopt"]
    /\ UNCHANGED <<page, bound, spill, roots, lane, relief, left>>

(* adopt, the new lineage, and the pins are dropped.                        *)
Adopted(l, missed) == {p \in job[l].adoptable : /\ page[p].where # "planes"
                                                 /\ page[p].where = "ram" => Pins(p, missed) <= 1}
RestoreAdopt(l) ==
    /\ job[l].pc = "adopt"
    /\ \E missed \in Missable :
        /\ page' = [p \in Pages |-> IF p \notin Adopted(l, missed) THEN page[p] ELSE
              [page[p] EXCEPT !.where = "planes", !.set = lane[l].set, !.data = None, !.slot = None]]
        /\ spill' = Returned(Adopted(l, missed))
    /\ lane' = [lane EXCEPT ![l].prefix = job[l].root, ![l].pos = Len(History(job[l].root))]
    /\ job' = [job EXCEPT ![l] = Idle]
    /\ UNCHANGED <<planes, bound, roots, relief, left>>

RestoreStep(l) ==
    \/ RestoreBegin(l) \/ RestoreFresh(l) \/ RestorePair(l) \/ RestoreExchange(l) \/ RestoreExcept(l)
    \/ RestoreCopy(l) \/ RestoreRequire(l) \/ RestoreLoad(l) \/ RestoreAdopt(l)

----------------------------------------------------------------------------
(* The pressure relief (relieve_now; one pass at a time) and the release of *)
(* unreferenced rows that the serving coordinator asks for.                 *)

ReliefSpill(s) ==
    /\ relief = None /\ ~Locked(s) /\ Spillable(s) # {}
    /\ SpillFilled(s)
    /\ UNCHANGED <<planes, bound, roots, lane, job, relief, left>>

(* An idle set is bound by the pass and its pages are filled, but for those *)
(* it saw pinned ...                                                        *)
ReliefFill(s) ==
    /\ relief = None /\ bound[s] = Free /\ \E p \in Pages : page[p].set = s
    /\ bound' = [bound EXCEPT ![s] = Relief] /\ relief' = s
    /\ \E missed \in Missable : Fill({p \in Held(s) : Pins(p, missed) = 0})
    /\ UNCHANGED <<planes, roots, lane, job, left>>
(* ... then spilled; its rows go if it holds no page any more.              *)
ReliefRelease(s) ==
    /\ relief = s /\ SpillFilled(s)
    /\ planes' = IF Held(s) = {} THEN [planes EXCEPT ![s] = Empty] ELSE planes
    /\ bound' = [bound EXCEPT ![s] = Free] /\ relief' = None
    /\ UNCHANGED <<roots, lane, job, left>>

(* Mutant: every row of an idle set is released.                            *)
ReleaseAllRows(s) ==
    /\ bound[s] = Free
    /\ planes' = [planes EXCEPT ![s] = Empty]
    /\ UNCHANGED <<page, bound, spill, roots, lane, job, relief, left>>

(* release_unreferenced_rows on an idle set that has such rows.             *)
ReleaseRows(s) ==
    /\ bound[s] = Free
    /\ \E b \in 1..Blocks : b > LastHeld(s) /\ planes[s][b] # None
    /\ planes' = [planes EXCEPT ![s] = [b \in 1..Blocks |-> IF b > LastHeld(s) THEN None ELSE @[b]]]
    /\ UNCHANGED <<page, bound, spill, roots, lane, job, relief, left>>

----------------------------------------------------------------------------
Next ==
    \/ \E l \in Lanes : Reset(l) \/ Forward(l) \/ Export(l) \/ RestoreStep(l)
    \/ \E l \in Lanes, r \in 1..Blocks : Rewind(l, r)
    \/ \E l \in Lanes, r \in roots : RestorePin(l, r)
    \/ \E r \in roots : Evict(r)
    \/ \E s \in Sets : ReliefSpill(s) \/ ReliefFill(s) \/ ReliefRelease(s) \/ ReleaseRows(s)

Spec == Init /\ [][Next]_vars
----------------------------------------------------------------------------
(* However the rows of a retained page moved between planes, RAM, packed    *)
(* blobs and the spill file, they are still the rows the export named:      *)
(* nothing was written over them before fill, exchange or adopt moved them. *)
PagesKeepTheirRows == \A p \in Pages : page[p].where # "dead" => Content(p) = p

(* A lane that runs has the rows of its lineage in its planes: the pages of *)
(* its exact prefix, then the rows it has written since.                    *)
LaneRowsExact == \A l \in Lanes : job[l].pc = "idle" =>
    \A b \in 1..lane[l].pos :
        planes[lane[l].set][b] = IF b <= Len(History(lane[l].prefix))
                                 THEN History(lane[l].prefix)[b] ELSE Written

(* Outside a restore into it, a set that still holds a page has all earlier *)
(* rows of the page's history intact, as kv_lane_resident assumes.          *)
PrefixIntact == \A s \in Sets : \A p \in Held(s) :
    \/ \E l \in Lanes : lane[l].set = s /\ job[l].pc # "idle"
    \/ \A b \in 1..Block(p) : planes[s][b] = page[p].history[b]

(* Every slot of the spill file is free or belongs to one spilled page, and *)
(* the live count says how many do.                                         *)
SlotsExact ==
    LET spilled == {p \in Pages : page[p].where = "spilled"}
        owned == {page[p].slot : p \in spilled}
    IN  /\ Cardinality(owned) = Cardinality(spilled) /\ spill.live = Cardinality(spilled)
        /\ spill.free \cap owned = {} /\ spill.free \cup owned = DOMAIN spill.disk

(* Though pins are taken without a lock, a page in RAM that a restore has   *)
(* pinned stays there for it to read, from the first time it had the        *)
(* payload mutex until it moves on: whatever a spill, an exchange or an     *)
(* adoption made of the pins before, it is done with by then.               *)
PinnedStays == [][\A l \in Lanes : job[l].pc # "idle" /\ ~Early(l) /\ job'[l] = job[l] =>
    \A p \in State(job[l].root) : page[p].where = "ram" => page'[p].where = "ram"]_vars

=============================================================================
