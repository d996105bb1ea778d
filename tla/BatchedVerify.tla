--------------------------- MODULE BatchedVerify ---------------------------
(***************************************************************************)
(* Exl3BatchedVerifyCoordinator (batched_verify_coordinator.h): lanes meet *)
(* at two gates, the draft proposal and the target verification of a round,*)
(* and one of them runs one forward for all that met.                      *)
(*                                                                         *)
(* Every critical section of mutex_ is one action; a forward runs between  *)
(* two of them, with the mutex released.  An opener sleeps in wait_until,  *)
(* without a predicate: it reads the group again only when it is in awake  *)
(* (notified) or when its deadline passes.  The wait for group->done has a *)
(* predicate that is set and notified under the mutex, so it is a guard.   *)
(***************************************************************************)
EXTENDS Naturals, FiniteSets

CONSTANTS
  N,          \* lanes of the coordinator, registered in the order 0..N-1
  MaxGroup,   \* max_group()
  Half,       \* lanes of one half of a wide coordinator (4 in the code)
  MinWidth,   \* min_graph_width(N)
  Fails       \* may a forward throw

ASSUME ConfigAssumption ==
  /\ N \in Nat /\ MaxGroup \in Nat \ {0, 1} /\ Half \in Nat /\ MinWidth \in Nat
  /\ Fails \in BOOLEAN

Lanes == 0..(N - 1)
Gates == {"draft", "verify"}
Other(gate) == IF gate = "draft" THEN "verify" ELSE "draft"
Groups == 1..N       \* a lane is in one group at a time
None == 0

VARIABLES
  active,     \* active_
  open,       \* open_ and open_draft_: the group of each gate that takes members
  members, phase,  \* of each group: its lanes; "free", "open", "closed" or "done"
  error,      \* group->error
  pc,         \* where each lane is
  group,      \* the group a lane holds a reference to
  awake       \* openers that must read their group again

coordinator == <<active, open, members, phase, error>>
vars == <<coordinator, pc, group, awake>>

Init ==
  /\ active = 0
  /\ open = [gate \in Gates |-> None]
  /\ members = [g \in Groups |-> {}]
  /\ phase = [g \in Groups |-> "free"]
  /\ error = [g \in Groups |-> FALSE]
  /\ pc = [l \in Lanes |-> "off"]
  /\ group = [l \in Lanes |-> None]
  /\ awake = {}

notify_all == awake' = {l \in Lanes : pc[l] = "open"}

-----------------------------------------------------------------------------
(* set_active, by BatchedLane around a request and by BatchedInactive around *)
(* a prompt pass of an active lane.                                          *)
set_active(l, from, to, count) ==
  /\ pc[l] = from
  /\ pc' = [pc EXCEPT ![l] = to]
  /\ active' = count
  /\ notify_all
  /\ UNCHANGED <<open, members, phase, error, group>>

begin(l) == set_active(l, "off", "run", active + 1)
end(l) == set_active(l, "run", "off", active - 1)
unwind(l) == set_active(l, "unwind", "off", active - 1)
enter_pass(l) == set_active(l, "run", "pass", active - 1)
leave_pass(l) == set_active(l, "pass", "run", active + 1)

Minimum(a, b) == IF a < b THEN a ELSE b
Maximum(a, b) == IF a < b THEN b ELSE a

(* The width at which a group is full.                                       *)
Target == Minimum(MaxGroup, Maximum(active, 1))

(* The arrival of continue_rows and propose.                                 *)
solo(l, gate) ==
  /\ pc[l] = "run"
  /\ active < 2 /\ open[gate] = None
  /\ pc' = [pc EXCEPT ![l] = "solo"]
  /\ UNCHANGED <<coordinator, group, awake>>

solo_done(l) ==
  /\ pc[l] = "solo"
  /\ \E failed \in {FALSE, Fails} : pc' = [pc EXCEPT ![l] = IF failed THEN "unwind" ELSE "run"]
  /\ UNCHANGED <<coordinator, group, awake>>

(* The group a lane meets at a gate: the open one, or a new one.             *)
Meet(gate) ==
  IF open[gate] # None THEN open[gate] ELSE CHOOSE g \in Groups : phase[g] = "free"

(* The lane joins; it leads a group that is full with it, waits for more as the *)
(* opener, or waits for the group's end.                                        *)
arrive(l, gate) ==
  LET g == Meet(gate)
      full == Cardinality(members[g] \cup {l}) >= Target
  IN
  /\ pc[l] = "run"
  /\ ~(active < 2 /\ open[gate] = None)
  /\ members' = [members EXCEPT ![g] = @ \cup {l}]
  /\ group' = [group EXCEPT ![l] = g]
  /\ notify_all
  /\ open' = [open EXCEPT ![gate] = IF full THEN None ELSE g]
  /\ phase' = [phase EXCEPT ![g] = IF full THEN "closed" ELSE "open"]
  /\ pc' = [pc EXCEPT ![l] = CASE full -> "lead"
                               [] ~full /\ open[gate] = None -> "open"
                               [] ~full /\ open[gate] # None -> "wait"]
  /\ UNCHANGED <<active, error>>

(* The event of the arrival cannot be recorded: the lane never joins.        *)
arrive_fails(l, gate) ==
  /\ Fails /\ pc[l] = "run"
  /\ ~(active < 2 /\ open[gate] = None)
  /\ pc' = [pc EXCEPT ![l] = "unwind"]
  /\ UNCHANGED <<coordinator, group, awake>>

GateOf(g) == CHOOSE gate \in Gates : open[gate] = g
Waiting(gate) == IF open[gate] = None THEN {} ELSE members[open[gate]]

(* What ends the opener's wait early: the group is full for the lanes that are *)
(* active now, or every lane that is missing waits at the other gate.          *)
NobodyToWaitFor(g) ==
  \/ Cardinality(members[g]) >= Target
  \/ Cardinality(members[g]) + Cardinality(Waiting(Other(GateOf(g)))) >= active

(* lead and lead_draft up to the release of the mutex.                         *)
Close(l, g) ==
  /\ open' = [open EXCEPT ![GateOf(g)] = None]
  /\ phase' = [phase EXCEPT ![g] = "closed"]
  /\ pc' = [pc EXCEPT ![l] = "lead"]

opener_wake(l) ==
  /\ pc[l] = "open" /\ l \in awake
  /\ awake' = awake \ {l}
  /\ \/ phase[group[l]] # "open" /\ pc' = [pc EXCEPT ![l] = "wait"] /\ UNCHANGED <<open, phase>>
     \/ phase[group[l]] = "open" /\ NobodyToWaitFor(group[l]) /\ Close(l, group[l])
     \/ phase[group[l]] = "open" /\ ~NobodyToWaitFor(group[l]) /\ UNCHANGED <<open, phase, pc>>
  /\ UNCHANGED <<active, members, error, group>>

(* Mutants of opener_timeout: it leads a group another lane has closed; it     *)
(* leaves without the forward; it waits on while nobody has joined.            *)
TimeoutLeadsClosed(l) ==
  /\ pc[l] = "open"
  /\ awake' = awake \ {l}
  /\ pc' = [pc EXCEPT ![l] = "lead"]
  /\ phase' = [phase EXCEPT ![group[l]] = "closed"]
  /\ open' = [gate \in Gates |-> IF open[gate] = group[l] THEN None ELSE open[gate]]
  /\ UNCHANGED <<active, members, error, group>>
TimeoutLeaves(l) ==
  /\ pc[l] = "open"
  /\ awake' = awake \ {l}
  /\ pc' = [pc EXCEPT ![l] = "run"]
  /\ group' = [group EXCEPT ![l] = None]
  /\ UNCHANGED coordinator
TimeoutNeedsPeer(l) ==
  /\ pc[l] = "open" /\ Cardinality(members[group[l]]) > 1
  /\ awake' = awake \ {l}
  /\ \/ phase[group[l]] # "open" /\ pc' = [pc EXCEPT ![l] = "wait"] /\ UNCHANGED <<open, phase>>
     \/ phase[group[l]] = "open" /\ Close(l, group[l])
  /\ UNCHANGED <<active, members, error, group>>

opener_timeout(l) ==
  /\ pc[l] = "open"
  /\ awake' = awake \ {l}
  /\ \/ phase[group[l]] # "open" /\ pc' = [pc EXCEPT ![l] = "wait"] /\ UNCHANGED <<open, phase>>
     \/ phase[group[l]] = "open" /\ Close(l, group[l])
  /\ UNCHANGED <<active, members, error, group>>

(* A lane leaves its group and takes the outcome; the last one frees it.       *)
Leave(l, g, failed) ==
  LET last == \A m \in Lanes \ {l} : group[m] # g IN
  /\ group' = [group EXCEPT ![l] = None]
  /\ members' = [members EXCEPT ![g] = IF last THEN {} ELSE @]
  /\ phase' = [phase EXCEPT ![g] = IF last THEN "free" ELSE "done"]
  /\ error' = [error EXCEPT ![g] = failed /\ ~last]
  /\ pc' = [pc EXCEPT ![l] = IF failed THEN "unwind" ELSE "run"]

(* The end of lead: the outcome is shared, everyone is notified, and the       *)
(* leader goes on.                                                             *)
lead_done(l) ==
  /\ pc[l] = "lead"
  /\ \E failed \in {FALSE, Fails} : Leave(l, group[l], failed)
  /\ notify_all
  /\ UNCHANGED <<active, open>>

(* changed_.wait for group->done, then the error is rethrown.                  *)
resume(l) ==
  /\ pc[l] = "wait" /\ phase[group[l]] = "done"
  /\ Leave(l, group[l], error[group[l]])
  /\ UNCHANGED <<active, open, awake>>

-----------------------------------------------------------------------------
(* The target forwards lead runs for a closed group, and the groups for which *)
(* groups() has a graph captured.                                             *)
WithinHalf(M) == (\A l \in M : l < Half) \/ (\A l \in M : l >= Half)

Captured ==
  {M \in SUBSET Lanes : /\ Cardinality(M) \in 2..MaxGroup
                        /\ N <= Half \/ Cardinality(M) >= MinWidth \/ WithinHalf(M)}

ForwardsOffByOne(M) ==     \* mutant of Forwards
  IF N > Half /\ Cardinality(M) > 1 /\ Cardinality(M) < MinWidth
  THEN {{l \in M : l <= Half}, {l \in M : l > Half}} \ {{}}
  ELSE {M}

Forwards(M) ==
  IF N > Half /\ Cardinality(M) > 1 /\ Cardinality(M) < MinWidth
  THEN {{l \in M : l < Half}, {l \in M : l >= Half}} \ {{}}
  ELSE {M}

Next ==
  \/ \E l \in Lanes :
       \/ begin(l) \/ end(l) \/ unwind(l) \/ enter_pass(l) \/ leave_pass(l)
       \/ \E gate \in Gates : solo(l, gate) \/ arrive(l, gate) \/ arrive_fails(l, gate)
       \/ solo_done(l)
       \/ opener_wake(l)
       \/ opener_timeout(l)
       \/ lead_done(l)
       \/ resume(l)

Spec == Init /\ [][Next]_vars

(* Forwards and passes end, threads that are notified run, an active lane goes *)
(* on to its next gate, its next pass or its end, and the opener's deadline    *)
(* passes.                                                                     *)
LaneStep(l) ==
  \/ end(l) \/ unwind(l) \/ enter_pass(l) \/ leave_pass(l) \/ solo_done(l)
  \/ \E gate \in Gates : solo(l, gate) \/ arrive(l, gate) \/ arrive_fails(l, gate)
  \/ opener_wake(l) \/ lead_done(l) \/ resume(l)

Fairness == \A l \in Lanes : WF_vars(LaneStep(l)) /\ WF_vars(opener_timeout(l))

FairSpec == Spec /\ Fairness

-----------------------------------------------------------------------------
TypeOK ==
  /\ active \in 0..N
  /\ open \in [Gates -> Groups \cup {None}]
  /\ members \in [Groups -> SUBSET Lanes]
  /\ phase \in [Groups -> {"free", "open", "closed", "done"}]
  /\ error \in [Groups -> BOOLEAN]
  /\ pc \in [Lanes -> {"off", "run", "pass", "solo", "open", "wait", "lead", "unwind"}]
  /\ group \in [Lanes -> Groups \cup {None}]
  /\ awake \subseteq Lanes

InGate(l) == pc[l] \in {"open", "wait", "lead"}

(* A forward works on its members' requests, which live on their stacks: until *)
(* the group is done every member is still inside its gate with this group, and *)
(* no other lane counts on it.                                                  *)
MembersStay ==
  \A g \in Groups : phase[g] \in {"open", "closed"} =>
    members[g] = {l \in Lanes : InGate(l) /\ group[l] = g}

(* A group has one thread that runs its forward: while it is open its opener,   *)
(* once it is closed one leader.                                                *)
OneLeader ==
  \A g \in Groups :
    /\ phase[g] = "closed" => Cardinality({l \in members[g] : pc[l] = "lead"}) = 1
    /\ phase[g] = "open" => Cardinality({l \in members[g] : pc[l] = "open"}) = 1

(* No group is wider than the widest forward.                                   *)
WidthBound == \A g \in Groups : Cardinality(members[g]) <= MaxGroup

(* A gate's open group takes members: joining never reaches a closed one.       *)
OpenTakesMembers ==
  /\ \A gate \in Gates : open[gate] # None => phase[open[gate]] = "open"
  /\ open["draft"] # None => open["draft"] # open["verify"]

(* active_ counts the lanes that are between their gates or at one, so the lanes *)
(* a group waits for exist.                                                     *)
ActiveExact ==
  active = Cardinality({l \in Lanes : pc[l] \notin {"off", "pass"}})

(* A verification group's rows run once each, in forwards that have a graph, or *)
(* alone: a group with no graph of its own is split, as within_half and lead    *)
(* say, into halves that have one.  (The comments at groups and min_graph_width *)
(* still have the narrow groups run eager forwards.)                            *)
ForwardsCaptured ==
  \A g \in Groups : phase[g] = "closed" =>
    /\ UNION Forwards(members[g]) = members[g]
    /\ \A F \in Forwards(members[g]) : Cardinality(F) = 1 \/ F \in Captured
    /\ \A E, F \in Forwards(members[g]) : E = F \/ E \cap F = {}

(* Every lane that arrives at a gate leaves it, whatever the lanes it waited for *)
(* do meanwhile (become inactive, fail, wait at the other gate).                *)
ArrivalsLeave == \A l \in Lanes : InGate(l) ~> ~InGate(l)
=============================================================================
