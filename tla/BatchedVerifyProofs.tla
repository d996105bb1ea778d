------------------------ MODULE BatchedVerifyProofs ------------------------
(* Proofs about the batched rounds, for any number of lanes, any width of    *)
(* the widest forward, and with or without failures of a forward.            *)
EXTENDS BatchedVerify, FiniteSetTheorems, TLAPS

Of(g) == {l \in Lanes : group[l] = g}

(* What ties a group to the lanes that hold a reference to it.               *)
Held ==
  /\ \A l \in Lanes : InGate(l) <=> group[l] # None
  /\ \A g \in Groups : phase[g] = "free" <=> \A l \in Lanes : group[l] # g
  /\ \A g \in Groups : phase[g] = "free" => members[g] = {}
  /\ \A g \in Groups : phase[g] \in {"open", "closed"} => members[g] = Of(g)

(* The one lane that runs the forward of a group, or will when its wait ends. *)
Led ==
  /\ \A g \in Groups : phase[g] = "open" =>
       \E x \in Lanes : /\ group[x] = g /\ pc[x] = "open"
                        /\ \A y \in Lanes : group[y] = g /\ pc[y] = "open" => y = x
  /\ \A g \in Groups : phase[g] = "closed" =>
       \E x \in Lanes : /\ group[x] = g /\ pc[x] = "lead"
                        /\ \A y \in Lanes : group[y] = g /\ pc[y] = "lead" => y = x
  /\ \A l \in Lanes : pc[l] = "lead" => phase[group[l]] = "closed"

Gated ==
  /\ OpenTakesMembers
  /\ \A g \in Groups : phase[g] = "open" => \E gate \in Gates : open[gate] = g

Width ==
  /\ \A g \in Groups : phase[g] = "open" => Cardinality(members[g]) < MaxGroup
  /\ WidthBound

(* The inductive invariant.                                                  *)
IInv == TypeOK /\ ActiveExact /\ Held /\ Led /\ Gated /\ Width

-----------------------------------------------------------------------------
(* There are N lanes and N groups.                                           *)
LEMMA FiniteLanes ==
  /\ IsFiniteSet(Lanes) /\ Cardinality(Lanes) = N
  /\ IsFiniteSet(Groups) /\ Cardinality(Groups) = N
<1>1. N \in Nat
  BY ConfigAssumption
<1>2. IsFiniteSet(0..(N - 1)) /\ Cardinality(0..(N - 1)) = N
  <2>1. /\ IsFiniteSet(0..(N - 1))
        /\ Cardinality(0..(N - 1)) = IF 0 > N - 1 THEN 0 ELSE (N - 1) - 0 + 1
    BY <1>1, FS_Interval
  <2>. QED BY <1>1, <2>1
<1>3. IsFiniteSet(1..N) /\ Cardinality(1..N) = N
  <2>1. IsFiniteSet(1..N) /\ Cardinality(1..N) = IF 1 > N THEN 0 ELSE N - 1 + 1
    BY <1>1, FS_Interval
  <2>. QED BY <1>1, <2>1
<1>. QED BY <1>2, <1>3 DEF Lanes, Groups

(* The members of a group are at most the lanes.                             *)
LEMMA FiniteMembers ==
  ASSUME NEW M \in SUBSET Lanes
  PROVE  IsFiniteSet(M) /\ Cardinality(M) \in 0..N
<1>1. IsFiniteSet(M) /\ Cardinality(M) <= N
  BY FiniteLanes, FS_Subset
<1>2. Cardinality(M) \in Nat
  BY <1>1, FS_CardinalityType
<1>. QED BY <1>1, <1>2, ConfigAssumption

(* There are as many groups as lanes: a lane that is in no group leaves one  *)
(* free.                                                                     *)
LEMMA FreeGroup ==
  ASSUME TypeOK, Held, NEW l \in Lanes, group[l] = None
  PROVE  \E g \in Groups : phase[g] = "free"
<1>. SUFFICES ASSUME \A g \in Groups : phase[g] # "free"
              PROVE  FALSE
  OBVIOUS
<1>. DEFINE holder == [g \in Groups |-> CHOOSE m \in Lanes : group[m] = g]
<1>1. \A g \in Groups : \E m \in Lanes : group[m] = g
  BY DEF Held
<1>2. \A g \in Groups : holder[g] \in Lanes /\ group[holder[g]] = g
  BY <1>1
<1>3. \A g \in Groups : holder[g] # l
  BY <1>2, ConfigAssumption DEF Groups, None
<1>4. holder \in [Groups -> Lanes \ {l}]
  BY <1>2, <1>3
<1>5. IsFiniteSet(Lanes \ {l}) /\ Cardinality(Lanes \ {l}) = N - 1
  BY FiniteLanes, FS_RemoveElement
<1>6. Cardinality(Lanes \ {l}) < Cardinality(Groups)
  BY <1>5, FiniteLanes, ConfigAssumption
<1>. HIDE DEF holder
<1>7. \E g, h \in Groups : g # h /\ holder[g] = holder[h]
  BY <1>4, <1>5, <1>6, FiniteLanes, FS_PigeonHole
<1>. QED BY <1>2, <1>7

(* An arriving lane meets the open group of its gate, or a free one.         *)
LEMMA MeetFits ==
  ASSUME TypeOK, Held, Gated, NEW l \in Lanes, pc[l] = "run", NEW gate \in Gates
  PROVE  /\ Meet(gate) \in Groups
         /\ open[gate] = None => phase[Meet(gate)] = "free"
         /\ open[gate] # None => Meet(gate) = open[gate] /\ phase[Meet(gate)] = "open"
<1>1. group[l] = None
  BY DEF Held, InGate
<1>2. CASE open[gate] = None
  <2>1. \E g \in Groups : phase[g] = "free"
    BY <1>1, FreeGroup
  <2>. QED BY <1>2, <2>1 DEF Meet
<1>3. CASE open[gate] # None
  BY <1>3 DEF Meet, Gated, OpenTakesMembers, TypeOK
<1>. QED BY <1>2, <1>3

-----------------------------------------------------------------------------
(* A step of a lane that is at no gate and reaches none: nothing that a      *)
(* group depends on changes.                                                 *)
LEMMA AwayFromGates ==
  ASSUME IInv, NEW l \in Lanes, NEW to \in {"off", "run", "pass", "solo", "unwind"},
         pc[l] \in {"off", "run", "pass", "solo", "unwind"},
         pc' = [pc EXCEPT ![l] = to],
         UNCHANGED <<open, members, phase, error, group>>
  PROVE  Held' /\ Led' /\ Gated' /\ Width'
<1>. USE DEF IInv, TypeOK
<1>1. \A m \in Lanes : InGate(m)' <=> InGate(m)
  BY DEF InGate
<1>2. \A m \in Lanes : pc[m] \in {"open", "lead"} \/ pc'[m] \in {"open", "lead"} => pc'[m] = pc[m]
  OBVIOUS
<1>3. Held'
  BY <1>1 DEF Held, Of
<1>4. Led'
  <2>1. \A g \in Groups : phase'[g] = "open" =>
          \E x \in Lanes : /\ group'[x] = g /\ pc'[x] = "open"
                           /\ \A y \in Lanes : group'[y] = g /\ pc'[y] = "open" => y = x
    BY <1>2 DEF Led
  <2>2. \A g \in Groups : phase'[g] = "closed" =>
          \E x \in Lanes : /\ group'[x] = g /\ pc'[x] = "lead"
                           /\ \A y \in Lanes : group'[y] = g /\ pc'[y] = "lead" => y = x
    BY <1>2 DEF Led
  <2>3. \A m \in Lanes : pc'[m] = "lead" => phase'[group'[m]] = "closed"
    BY <1>2 DEF Led
  <2>. QED BY <2>1, <2>2, <2>3 DEF Led
<1>5. Gated' /\ Width'
  BY DEF Gated, Width, WidthBound, OpenTakesMembers
<1>. QED BY <1>3, <1>4, <1>5

(* active_ counts exactly: a lane that becomes active adds itself, one that  *)
(* stops being active takes itself off, and no other step changes the count. *)
LEMMA Counting ==
  ASSUME IInv, NEW l \in Lanes,
         NEW to \in {"off", "run", "pass", "solo", "open", "wait", "lead", "unwind"},
         pc' = [pc EXCEPT ![l] = to],
         LET a == pc[l] \in {"off", "pass"}
             b == to \in {"off", "pass"}
         IN  active' = IF a /\ ~b THEN active + 1 ELSE IF ~a /\ b THEN active - 1 ELSE active
  PROVE  ActiveExact' /\ active' \in 0..N
<1>. DEFINE S == {m \in Lanes : pc[m] \notin {"off", "pass"}}
            T == {m \in Lanes : pc'[m] \notin {"off", "pass"}}
<1>1. S \in SUBSET Lanes /\ T \in SUBSET Lanes
  OBVIOUS
<1>2. IsFiniteSet(S) /\ Cardinality(S) \in Nat /\ Cardinality(T) \in 0..N
  BY <1>1, FiniteMembers, FS_CardinalityType
<1>3. active = Cardinality(S)
  BY DEF IInv, ActiveExact
<1>4. CASE pc[l] \in {"off", "pass"} /\ to \notin {"off", "pass"}
  <2>1. T = S \cup {l} /\ l \notin S
    BY <1>4 DEF IInv, TypeOK
  <2>2. Cardinality(T) = Cardinality(S) + 1
    BY <1>2, <2>1, FS_AddElement
  <2>. QED BY <1>2, <1>3, <1>4, <2>2 DEF ActiveExact
<1>5. CASE pc[l] \notin {"off", "pass"} /\ to \in {"off", "pass"}
  <2>1. T = S \ {l} /\ l \in S
    BY <1>5 DEF IInv, TypeOK
  <2>2. Cardinality(T) = Cardinality(S) - 1
    BY <1>2, <2>1, FS_RemoveElement, ZenonT(60)
  <2>. QED BY <1>2, <1>3, <1>5, <2>2 DEF ActiveExact
<1>6. CASE pc[l] \in {"off", "pass"} <=> to \in {"off", "pass"}
  <2>1. T = S
    BY <1>6 DEF IInv, TypeOK
  <2>. QED BY <1>2, <1>3, <1>6, <2>1 DEF ActiveExact
<1>. QED BY <1>4, <1>5, <1>6

(* A group is full at the latest at the width of the widest forward.         *)
LEMMA TargetBound ==
  ASSUME TypeOK
  PROVE  Target \in Nat /\ Target <= MaxGroup
BY ConfigAssumption DEF TypeOK, Target, Minimum, Maximum

(* A lane that arrives joins the gate's open group or opens a free one, and  *)
(* leads it when that makes it full.                                         *)
LEMMA ArriveStep ==
  ASSUME IInv, NEW l \in Lanes, NEW gate \in Gates, arrive(l, gate)
  PROVE  IInv'
<1>. DEFINE g == Meet(gate)
            M == members[g] \cup {l}
            full == Cardinality(M) >= Target
<1>. USE DEF IInv
<1>1. /\ g \in Groups
      /\ open[gate] = None => phase[g] = "free"
      /\ open[gate] # None => g = open[gate] /\ phase[g] = "open"
  BY MeetFits DEF arrive
<1>2. group[l] = None /\ pc[l] = "run" /\ g # None
  BY <1>1, ConfigAssumption DEF arrive, Held, InGate, Groups, None
<1>3. members[g] = Of(g) /\ l \notin members[g] /\ members[g] \in SUBSET Lanes
  BY <1>1, <1>2 DEF Held, Of, TypeOK
<1>4. /\ members' = [members EXCEPT ![g] = M]
      /\ group' = [group EXCEPT ![l] = g]
      /\ open' = [open EXCEPT ![gate] = IF full THEN None ELSE g]
      /\ phase' = [phase EXCEPT ![g] = IF full THEN "closed" ELSE "open"]
      /\ pc' = [pc EXCEPT ![l] = IF full THEN "lead"
                                 ELSE IF open[gate] = None THEN "open" ELSE "wait"]
      /\ active' = active /\ error' = error
      /\ awake' = {m \in Lanes : pc[m] = "open"}
  BY Zenon DEF arrive, notify_all
<1>5. Cardinality(M) \in Nat /\ Cardinality(M) <= MaxGroup /\ (~full => Cardinality(M) < MaxGroup)
  <2>1. /\ IsFiniteSet(members[g]) /\ Cardinality(members[g]) \in Nat
        /\ Cardinality(M) = Cardinality(members[g]) + 1
    BY <1>3, FiniteMembers, FS_AddElement, FS_CardinalityType
  <2>2. Cardinality(members[g]) < MaxGroup
    <3>1. CASE phase[g] = "free"
      BY <1>1, <3>1, FS_EmptySet, ConfigAssumption DEF Held
    <3>2. CASE phase[g] = "open"
      BY <1>1, <3>2 DEF Width
    <3>. QED BY <1>1, <3>1, <3>2
  <2>3. Target \in Nat /\ Target <= MaxGroup
    BY TargetBound
  <2>. QED BY <2>1, <2>2, <2>3, ConfigAssumption
<1>. HIDE DEF g, M, full
<1>6. TypeOK'
  <2>1. M \in SUBSET Lanes
    BY <1>3 DEF M
  <2>. QED BY <1>1, <1>4, <2>1 DEF TypeOK
<1>7. ActiveExact'
  BY <1>2, <1>4, Counting, Zenon
<1>8. \A h \in Groups : Of(h)' = IF h = g THEN M ELSE Of(h)
  <2>. SUFFICES ASSUME NEW h \in Groups
                PROVE  {m \in Lanes : group'[m] = h} = IF h = g THEN M ELSE Of(h)
    BY DEF Of
  <2>1. CASE h = g
    BY <1>1, <1>3, <1>4, <2>1 DEF Of, TypeOK, M
  <2>2. CASE h # g
    BY <1>2, <1>4, <2>2 DEF Of, TypeOK, None, Groups
  <2>. QED BY <2>1, <2>2
<1>9. Held'
  <2>1. \A m \in Lanes : InGate(m)' <=> group'[m] # None
    BY <1>1, <1>2, <1>4 DEF Held, InGate, TypeOK
  <2>2. \A h \in Groups : phase'[h] = "free" <=> \A m \in Lanes : group'[m] # h
    BY <1>1, <1>2, <1>4 DEF Held, TypeOK, None, Groups
  <2>3. \A h \in Groups : phase'[h] = "free" => members'[h] = {}
    BY <1>1, <1>4 DEF Held, TypeOK
  <2>4. \A h \in Groups : phase'[h] \in {"open", "closed"} => members'[h] = Of(h)'
    BY <1>1, <1>4, <1>8 DEF Held, TypeOK
  <2>. QED BY <2>1, <2>2, <2>3, <2>4 DEF Held
<1>10. Led'
  <2>1. \A m \in Lanes \ {l} : pc'[m] = pc[m] /\ group'[m] = group[m]
    BY <1>4
  <2>2. \A h \in Groups \ {g} : phase'[h] = phase[h]
    BY <1>4
  <2>3. /\ group'[l] = g
        /\ phase'[g] = IF full THEN "closed" ELSE "open"
        /\ pc'[l] = IF full THEN "lead" ELSE IF open[gate] = None THEN "open" ELSE "wait"
    BY <1>1, <1>4 DEF TypeOK
  <2>4. \A m \in Lanes : group[m] = g => pc[m] # "lead" /\ open[gate] # None
    BY <1>1 DEF Led, Held
  <2>5. ASSUME NEW h \in Groups, phase'[h] = "open"
        PROVE  \E x \in Lanes : /\ group'[x] = h /\ pc'[x] = "open"
                                /\ \A y \in Lanes : group'[y] = h /\ pc'[y] = "open" => y = x
    <3>1. CASE h # g
      <4>1. PICK x \in Lanes : /\ group[x] = h /\ pc[x] = "open"
                               /\ \A y \in Lanes : group[y] = h /\ pc[y] = "open" => y = x
        BY <2>2, <2>5, <3>1 DEF Led
      <4>. QED BY <1>2, <2>1, <2>3, <3>1, <4>1
    <3>2. CASE h = g /\ open[gate] = None
      BY <2>1, <2>3, <2>4, <2>5, <3>2
    <3>3. CASE h = g /\ open[gate] # None
      <4>1. PICK x \in Lanes : /\ group[x] = g /\ pc[x] = "open"
                               /\ \A y \in Lanes : group[y] = g /\ pc[y] = "open" => y = x
        BY <1>1, <3>3 DEF Led
      <4>. QED BY <1>2, <2>1, <2>3, <2>5, <3>3, <4>1
    <3>. QED BY <3>1, <3>2, <3>3
  <2>6. ASSUME NEW h \in Groups, phase'[h] = "closed"
        PROVE  \E x \in Lanes : /\ group'[x] = h /\ pc'[x] = "lead"
                                /\ \A y \in Lanes : group'[y] = h /\ pc'[y] = "lead" => y = x
    <3>1. CASE h # g
      <4>1. PICK x \in Lanes : /\ group[x] = h /\ pc[x] = "lead"
                               /\ \A y \in Lanes : group[y] = h /\ pc[y] = "lead" => y = x
        BY <2>2, <2>6, <3>1 DEF Led
      <4>. QED BY <1>2, <2>1, <2>3, <3>1, <4>1
    <3>2. CASE h = g
      BY <2>1, <2>3, <2>4, <2>6, <3>2
    <3>. QED BY <3>1, <3>2
  <2>7. \A m \in Lanes : pc'[m] = "lead" => phase'[group'[m]] = "closed"
    <3>1. \A m \in Lanes : pc[m] = "lead" => group[m] \in Groups
      BY DEF Held, InGate, TypeOK
    <3>. QED BY <2>1, <2>2, <2>3, <2>4, <3>1 DEF Led
  <2>. QED BY <2>5, <2>6, <2>7 DEF Led
<1>11. Gated'
  <2>1. \A h \in Gates : open'[h] # None => phase'[open'[h]] = "open"
    <3>1. \A h \in Gates \ {gate} : open[h] # None => open[h] # g /\ open[h] \in Groups
      BY <1>1 DEF Gated, OpenTakesMembers, TypeOK, Gates
    <3>. QED BY <1>1, <1>4, <3>1 DEF Gated, OpenTakesMembers, TypeOK
  <2>2. open'["draft"] # None => open'["draft"] # open'["verify"]
    BY <1>1, <1>4 DEF Gated, OpenTakesMembers, TypeOK, Gates
  <2>3. \A h \in Groups : phase'[h] = "open" => \E q \in Gates : open'[q] = h
    <3>1. \A h \in Groups \ {g} : phase[h] = "open" => \E q \in Gates \ {gate} : open[q] = h
      BY <1>1, <1>2 DEF Gated, None, Groups
    <3>. QED BY <1>1, <1>4, <3>1 DEF TypeOK
  <2>. QED BY <2>1, <2>2, <2>3 DEF Gated, OpenTakesMembers
<1>12. Width'
  BY <1>1, <1>4, <1>5 DEF Width, WidthBound, TypeOK
<1>. QED BY <1>6, <1>7, <1>9, <1>10, <1>11, <1>12

(* An opener that stops waiting closes its group and leads it.               *)
LEMMA CloseStep ==
  ASSUME IInv, NEW l \in Lanes, pc[l] = "open", phase[group[l]] = "open",
         Close(l, group[l]), awake' \in SUBSET Lanes,
         UNCHANGED <<active, members, error, group>>
  PROVE  IInv'
<1>. USE DEF IInv
<1>. PICK g \in Groups : g = group[l]
  BY DEF Held, InGate, TypeOK
<1>. PICK gate \in Gates : gate = GateOf(g) /\ open[gate] = g
  BY DEF Gated, GateOf
<1>1. /\ open' = [open EXCEPT ![gate] = None]
      /\ phase' = [phase EXCEPT ![g] = "closed"]
      /\ pc' = [pc EXCEPT ![l] = "lead"]
  BY DEF Close
<1>2. TypeOK'
  BY <1>1 DEF TypeOK
<1>3. ActiveExact'
  BY <1>1, Counting, Zenon
<1>4. \A h \in Groups : Of(h)' = Of(h)
  BY DEF Of
<1>5. Held'
  <2>1. \A m \in Lanes : InGate(m)' <=> group'[m] # None
    BY <1>1 DEF Held, InGate, TypeOK
  <2>. QED BY <1>1, <1>4, <2>1 DEF Held, TypeOK
<1>6. Led'
  <2>1. \A m \in Lanes \ {l} : pc'[m] = pc[m]
    BY <1>1
  <2>2. pc'[l] = "lead" /\ phase'[g] = "closed" /\ \A h \in Groups \ {g} : phase'[h] = phase[h]
    BY <1>1 DEF TypeOK
  <2>3. \A m \in Lanes : group[m] = g => pc[m] # "lead"
    BY DEF Led
  <2>4. ASSUME NEW h \in Groups, phase'[h] = "open"
        PROVE  \E x \in Lanes : /\ group'[x] = h /\ pc'[x] = "open"
                                /\ \A y \in Lanes : group'[y] = h /\ pc'[y] = "open" => y = x
    <3>1. h # g /\ phase[h] = "open"
      BY <2>2, <2>4
    <3>2. PICK x \in Lanes : /\ group[x] = h /\ pc[x] = "open"
                             /\ \A y \in Lanes : group[y] = h /\ pc[y] = "open" => y = x
      BY <3>1 DEF Led
    <3>. QED BY <2>1, <2>2, <3>1, <3>2
  <2>5. ASSUME NEW h \in Groups, phase'[h] = "closed"
        PROVE  \E x \in Lanes : /\ group'[x] = h /\ pc'[x] = "lead"
                                /\ \A y \in Lanes : group'[y] = h /\ pc'[y] = "lead" => y = x
    <3>1. CASE h = g
      BY <2>1, <2>2, <2>3, <3>1
    <3>2. CASE h # g
      <4>1. PICK x \in Lanes : /\ group[x] = h /\ pc[x] = "lead"
                               /\ \A y \in Lanes : group[y] = h /\ pc[y] = "lead" => y = x
        BY <2>2, <2>5, <3>2 DEF Led
      <4>. QED BY <2>1, <2>2, <3>2, <4>1
    <3>. QED BY <3>1, <3>2
  <2>6. \A m \in Lanes : pc'[m] = "lead" => phase'[group'[m]] = "closed"
    <3>1. \A m \in Lanes : pc[m] = "lead" => group[m] \in Groups
      BY DEF Held, InGate, TypeOK
    <3>. QED BY <2>1, <2>2, <2>3, <3>1 DEF Led
  <2>. QED BY <2>4, <2>5, <2>6 DEF Led
<1>7. Gated'
  <2>1. \A h \in Gates : open'[h] # None => phase'[open'[h]] = "open"
    <3>1. \A h \in Gates \ {gate} : open[h] # None => open[h] # g /\ open[h] \in Groups
      BY DEF Gated, OpenTakesMembers, TypeOK, Gates
    <3>. QED BY <1>1, <3>1 DEF Gated, OpenTakesMembers, TypeOK
  <2>2. open'["draft"] # None => open'["draft"] # open'["verify"]
    BY <1>1 DEF Gated, OpenTakesMembers, TypeOK, Gates
  <2>3. \A h \in Groups : phase'[h] = "open" => \E q \in Gates : open'[q] = h
    BY <1>1 DEF Gated, TypeOK
  <2>. QED BY <2>1, <2>2, <2>3 DEF Gated, OpenTakesMembers
<1>8. Width'
  BY <1>1 DEF Width, WidthBound, TypeOK
<1>. QED BY <1>2, <1>3, <1>5, <1>6, <1>7, <1>8

(* An opener whose group another lane has closed waits for its end.          *)
LEMMA YieldStep ==
  ASSUME IInv, NEW l \in Lanes, pc[l] = "open", phase[group[l]] # "open",
         pc' = [pc EXCEPT ![l] = "wait"], awake' \in SUBSET Lanes,
         UNCHANGED <<coordinator, group>>
  PROVE  IInv'
<1>. USE DEF IInv, coordinator
<1>1. TypeOK'
  BY DEF TypeOK
<1>2. ActiveExact'
  BY Counting, Zenon
<1>3. \A m \in Lanes : InGate(m)' <=> InGate(m)
  BY DEF InGate, TypeOK
<1>4. Held'
  BY <1>3 DEF Held, Of
<1>5. Led'
  <2>1. \A m \in Lanes : m # l => pc'[m] = pc[m]
    BY DEF TypeOK
  <2>2. pc'[l] = "wait"
    BY DEF TypeOK
  <2>3. \A g \in Groups : phase'[g] = "open" =>
          \E x \in Lanes : /\ group'[x] = g /\ pc'[x] = "open"
                           /\ \A y \in Lanes : group'[y] = g /\ pc'[y] = "open" => y = x
    BY <2>1, <2>2 DEF Led
  <2>4. \A g \in Groups : phase'[g] = "closed" =>
          \E x \in Lanes : /\ group'[x] = g /\ pc'[x] = "lead"
                           /\ \A y \in Lanes : group'[y] = g /\ pc'[y] = "lead" => y = x
    BY <2>1, <2>2 DEF Led
  <2>5. \A m \in Lanes : pc'[m] = "lead" => phase'[group'[m]] = "closed"
    BY <2>1, <2>2 DEF Led
  <2>. QED BY <2>3, <2>4, <2>5 DEF Led
<1>6. Gated' /\ Width'
  BY DEF Gated, Width, WidthBound, OpenTakesMembers
<1>. QED BY <1>1, <1>2, <1>4, <1>5, <1>6

(* The part of Leave that does not depend on the outcome.                    *)
Departs(l, g) ==
  LET last == \A m \in Lanes \ {l} : group[m] # g IN
  /\ group' = [group EXCEPT ![l] = None]
  /\ members' = [members EXCEPT ![g] = IF last THEN {} ELSE @]
  /\ phase' = [phase EXCEPT ![g] = IF last THEN "free" ELSE "done"]
  /\ error' \in [Groups -> BOOLEAN]
  /\ \E to \in {"unwind", "run"} : pc' = [pc EXCEPT ![l] = to]

(* Leave is a departure, whatever the outcome of the forward.                *)
LEMMA LeaveDeparts ==
  ASSUME IInv, NEW l \in Lanes, NEW g \in Groups, NEW failed \in BOOLEAN, Leave(l, g, failed)
  PROVE  Departs(l, g)
<1>. DEFINE last == \A m \in Lanes \ {l} : group[m] # g
<1>1. (failed /\ ~last) \in BOOLEAN
  OBVIOUS
<1>2. error' = [error EXCEPT ![g] = failed /\ ~last]
  BY DEF Leave
<1>3. error' \in [Groups -> BOOLEAN]
  <2>. HIDE DEF last
  <2>. QED BY <1>1, <1>2 DEF IInv, TypeOK
<1>. QED BY <1>3, Zenon DEF Leave, Departs

(* The leader, and after it every member, leaves the group; the last one     *)
(* frees it.                                                                 *)
LEMMA LeaveStep ==
  ASSUME IInv, NEW l \in Lanes,
         pc[l] = "lead" \/ (pc[l] = "wait" /\ phase[group[l]] = "done"),
         Departs(l, group[l]), awake' \in SUBSET Lanes,
         UNCHANGED <<active, open>>
  PROVE  IInv'
<1>. USE DEF IInv
<1>. PICK g \in Groups : g = group[l]
  BY DEF Held, InGate, TypeOK
<1>. DEFINE last == \A m \in Lanes \ {l} : group[m] # g
<1>1. /\ group' = [group EXCEPT ![l] = None]
      /\ members' = [members EXCEPT ![g] = IF last THEN {} ELSE @]
      /\ phase' = [phase EXCEPT ![g] = IF last THEN "free" ELSE "done"]
      /\ error' \in [Groups -> BOOLEAN]
  BY DEF Departs
<1>. PICK to \in {"unwind", "run"} : pc' = [pc EXCEPT ![l] = to]
  BY Zenon DEF Departs
<1>2. phase[g] \in {"closed", "done"}
  BY DEF Led
<1>3. \A m \in Lanes \ {l} : group[m] = g => pc[m] # "lead"
  BY <1>2 DEF Led
<1>4. g # None
  BY DEF Groups, None
<1>5. TypeOK'
  <2>. HIDE DEF last
  <2>1. members' \in [Groups -> SUBSET Lanes] /\ phase' \in [Groups -> {"free", "open", "closed", "done"}]
    BY <1>1 DEF TypeOK
  <2>. QED BY <1>1, <2>1 DEF TypeOK
<1>6. ActiveExact'
  BY Counting, Zenon
<1>7. \A h \in Groups \ {g} : Of(h)' = Of(h)
  <2>. SUFFICES ASSUME NEW h \in Groups \ {g}
                PROVE  {m \in Lanes : group'[m] = h} = {m \in Lanes : group[m] = h}
    BY DEF Of
  <2>. QED BY <1>1 DEF TypeOK, None, Groups
<1>8. /\ \A m \in Lanes \ {l} : pc'[m] = pc[m] /\ group'[m] = group[m]
      /\ pc'[l] \in {"unwind", "run"} /\ group'[l] = None
      /\ \A h \in Groups \ {g} : phase'[h] = phase[h] /\ members'[h] = members[h]
      /\ phase'[g] = IF last THEN "free" ELSE "done"
      /\ members'[g] = IF last THEN {} ELSE members[g]
  BY <1>1 DEF TypeOK
<1>20. Held /\ Led /\ TypeOK
  BY Zenon
<1>21. /\ phase'[g] \notin {"open", "closed"}
       /\ phase'[g] = "free" <=> last
       /\ last => members'[g] = {}
  BY <1>8
<1>9. Held'
  <2>1. \A m \in Lanes : InGate(m)' <=> group'[m] # None
    <3>. HIDE DEF IInv, last
    <3>. SUFFICES ASSUME NEW m \in Lanes PROVE InGate(m)' <=> group'[m] # None
      OBVIOUS
    <3>1. CASE m = l
      BY <1>8, <3>1 DEF InGate
    <3>2. CASE m # l
      <4>1. pc'[m] = pc[m] /\ group'[m] = group[m]
        BY <1>8, <3>2
      <4>2. pc[m] \in {"open", "wait", "lead"} <=> group[m] # None
        BY <1>20, Zenon DEF Held, InGate
      <4>. QED BY <4>1, <4>2, Zenon DEF InGate
    <3>. QED BY <3>1, <3>2
  <2>. HIDE DEF IInv
  <2>2. \A h \in Groups : phase'[h] = "free" <=> \A m \in Lanes : group'[m] # h
    <3>. SUFFICES ASSUME NEW h \in Groups
                  PROVE  phase'[h] = "free" <=> \A m \in Lanes : group'[m] # h
      OBVIOUS
    <3>1. h # None
      BY DEF Groups, None
    <3>2. CASE h = g
      BY <1>8, <1>21, <3>1, <3>2
    <3>3. CASE h # g
      <4>1. phase[h] = "free" <=> \A m \in Lanes : group[m] # h
        BY <1>20, Zenon DEF Held
      <4>2. group[l] # h /\ group'[l] # h
        BY <1>8, <3>1, <3>3
      <4>3. \A m \in Lanes : group'[m] # h <=> group[m] # h
        BY <1>8, <4>2
      <4>4. phase'[h] = phase[h]
        BY <1>8, <3>3
      <4>. QED BY <4>1, <4>3, <4>4
    <3>. QED BY <3>2, <3>3
  <2>. HIDE DEF last
  <2>3. \A h \in Groups : phase'[h] = "free" => members'[h] = {}
    <3>1. \A h \in Groups : phase[h] = "free" => members[h] = {}
      BY <1>20, Zenon DEF Held
    <3>. QED BY <1>8, <1>21, <3>1
  <2>4. \A h \in Groups : phase'[h] \in {"open", "closed"} => members'[h] = Of(h)'
    <3>1. \A h \in Groups : phase[h] \in {"open", "closed"} => members[h] = Of(h)
      BY <1>20, Zenon DEF Held
    <3>. SUFFICES ASSUME NEW h \in Groups, phase'[h] \in {"open", "closed"}
                  PROVE  members'[h] = Of(h)'
      OBVIOUS
    <3>2. h \in Groups \ {g}
      BY <1>21
    <3>3. phase'[h] = phase[h] /\ members'[h] = members[h]
      BY <1>8, <3>2
    <3>. QED BY <1>7, <3>1, <3>2, <3>3
  <2>. QED BY <2>1, <2>2, <2>3, <2>4 DEF Held
<1>. HIDE DEF last
<1>10. Led'
  <2>. HIDE DEF IInv
  <2>1. ASSUME NEW h \in Groups, NEW role \in {"open", "lead"},
               phase'[h] = IF role = "open" THEN "open" ELSE "closed"
        PROVE  \E x \in Lanes : /\ group'[x] = h /\ pc'[x] = role
                                /\ \A y \in Lanes : group'[y] = h /\ pc'[y] = role => y = x
    <3>1. h # g /\ h # None
      BY <1>21, <2>1 DEF Groups, None
    <3>2. phase[h] = IF role = "open" THEN "open" ELSE "closed"
      BY <1>8, <2>1, <3>1
    <3>3. PICK x \in Lanes : /\ group[x] = h /\ pc[x] = role
                             /\ \A y \in Lanes : group[y] = h /\ pc[y] = role => y = x
      BY <1>20, <3>2 DEF Led
    <3>4. x # l /\ group'[l] # h
      BY <1>8, <3>1, <3>3
    <3>5. \A y \in Lanes : group'[y] = h => group[y] = h /\ pc'[y] = pc[y]
      BY <1>8, <3>4
    <3>6. group'[x] = h /\ pc'[x] = role
      BY <1>8, <3>3, <3>4
    <3>. QED BY <3>3, <3>5, <3>6
  <2>2. \A m \in Lanes : pc'[m] = "lead" => phase'[group'[m]] = "closed"
    <3>. SUFFICES ASSUME NEW m \in Lanes, pc'[m] = "lead" PROVE phase'[group'[m]] = "closed"
      OBVIOUS
    <3>1. m # l /\ pc[m] = "lead" /\ group'[m] = group[m]
      BY <1>8
    <3>2. group[m] \in Groups /\ group[m] # g
      <4>1. group[m] # None
        BY <1>20, <3>1 DEF Held, InGate
      <4>. QED BY <1>3, <1>20, <3>1, <4>1 DEF TypeOK
    <3>3. phase[group[m]] = "closed"
      BY <1>20, <3>1, Zenon DEF Led
    <3>. QED BY <1>8, <3>1, <3>2, <3>3
  <2>. QED BY <2>1, <2>2 DEF Led
<1>11. Gated'
  <2>1. \A gate \in Gates : open[gate] # g
    BY <1>2, <1>4 DEF Gated, OpenTakesMembers
  <2>2. \A gate \in Gates : open[gate] # None => open[gate] \in Groups
    BY DEF TypeOK
  <2>3. \A gate \in Gates : open'[gate] # None => phase'[open'[gate]] = "open"
    BY <1>8, <2>1, <2>2 DEF Gated, OpenTakesMembers
  <2>4. \A h \in Groups : phase'[h] = "open" => \E gate \in Gates : open'[gate] = h
    BY <1>8 DEF Gated
  <2>. QED BY <2>3, <2>4 DEF Gated, OpenTakesMembers
<1>12. Width'
  <2>1. Cardinality({}) <= MaxGroup
    BY FS_EmptySet, ConfigAssumption
  <2>. QED BY <1>8, <2>1 DEF Width, WidthBound
<1>. QED BY <1>5, <1>6, <1>9, <1>10, <1>11, <1>12

-----------------------------------------------------------------------------
(* The invariant holds of a coordinator nobody has used yet.                 *)
LEMMA InitInv == Init => IInv
<1>. SUFFICES ASSUME Init PROVE IInv
  OBVIOUS
<1>. USE DEF Init
<1>1. TypeOK
  BY ConfigAssumption DEF TypeOK
<1>2. ActiveExact
  <2>1. {l \in Lanes : pc[l] \notin {"off", "pass"}} = {}
    OBVIOUS
  <2>. QED BY <2>1, FS_EmptySet DEF ActiveExact
<1>3. Held
  BY DEF Held, InGate, Of, Groups, None
<1>4. Led /\ Gated
  BY DEF Led, Gated, OpenTakesMembers, Gates
<1>5. Width
  BY FS_EmptySet, ConfigAssumption DEF Width, WidthBound
<1>. QED BY <1>1, <1>2, <1>3, <1>4, <1>5 DEF IInv

(* A step away from the gates that counts the lane where the code does.      *)
LEMMA AwayStep ==
  ASSUME IInv, NEW l \in Lanes, NEW to \in {"off", "run", "pass", "solo", "unwind"},
         pc[l] \in {"off", "run", "pass", "solo", "unwind"},
         pc' = [pc EXCEPT ![l] = to],
         LET a == pc[l] \in {"off", "pass"}
             b == to \in {"off", "pass"}
         IN  active' = IF a /\ ~b THEN active + 1 ELSE IF ~a /\ b THEN active - 1 ELSE active,
         awake' \in SUBSET Lanes,
         UNCHANGED <<open, members, phase, error, group>>
  PROVE  IInv'
<1>1. ActiveExact' /\ active' \in 0..N
  BY Counting, Zenon
<1>2. TypeOK'
  BY <1>1 DEF IInv, TypeOK
<1>3. Held' /\ Led' /\ Gated' /\ Width'
  BY AwayFromGates, Zenon
<1>. QED BY <1>1, <1>2, <1>3 DEF IInv

(* A step that only wakes lanes.                                             *)
LEMMA RestStep ==
  ASSUME IInv, awake' \in SUBSET Lanes, UNCHANGED <<active, members, error, group, open, phase, pc>>
  PROVE  IInv'
<1>1. TypeOK'
  BY Zenon DEF IInv, TypeOK
<1>2. ActiveExact'
  BY Zenon DEF IInv, ActiveExact
<1>3. Held'
  BY Zenon DEF IInv, Held, InGate, Of
<1>4. Led'
  BY DEF IInv, Led
<1>5. Gated'
  BY Zenon DEF IInv, Gated, OpenTakesMembers
<1>6. Width'
  BY Zenon DEF IInv, Width, WidthBound
<1>. QED BY <1>1, <1>2, <1>3, <1>4, <1>5, <1>6, Zenon DEF IInv

(* Every step of every lane keeps the invariant.                             *)
LEMMA StepInv == IInv /\ [Next]_vars => IInv'
<1>. SUFFICES ASSUME IInv, [Next]_vars PROVE IInv'
  OBVIOUS
<1>0. awake \in SUBSET Lanes
  BY DEF IInv, TypeOK
<1>1. ASSUME NEW l \in Lanes, begin(l) PROVE IInv'
  BY <1>1, AwayStep, Zenon DEF begin, set_active, notify_all
<1>2. ASSUME NEW l \in Lanes, end(l) PROVE IInv'
  BY <1>2, AwayStep, Zenon DEF end, set_active, notify_all
<1>3. ASSUME NEW l \in Lanes, unwind(l) PROVE IInv'
  BY <1>3, AwayStep, Zenon DEF unwind, set_active, notify_all
<1>4. ASSUME NEW l \in Lanes, enter_pass(l) PROVE IInv'
  BY <1>4, AwayStep, Zenon DEF enter_pass, set_active, notify_all
<1>5. ASSUME NEW l \in Lanes, leave_pass(l) PROVE IInv'
  BY <1>5, AwayStep, Zenon DEF leave_pass, set_active, notify_all
<1>6. ASSUME NEW l \in Lanes, NEW gate \in Gates, solo(l, gate) PROVE IInv'
  BY <1>0, <1>6, AwayStep, Zenon DEF solo, coordinator
<1>7. ASSUME NEW l \in Lanes, NEW gate \in Gates, arrive(l, gate) PROVE IInv'
  BY <1>7, ArriveStep
<1>8. ASSUME NEW l \in Lanes, NEW gate \in Gates, arrive_fails(l, gate) PROVE IInv'
  BY <1>0, <1>8, AwayStep, Zenon DEF arrive_fails, coordinator
<1>9. ASSUME NEW l \in Lanes, solo_done(l) PROVE IInv'
  <2>1. PICK to \in {"unwind", "run"} : pc' = [pc EXCEPT ![l] = to]
    BY <1>9, ZenonT(60) DEF solo_done
  <2>. QED BY <1>0, <1>9, <2>1, AwayStep, Zenon DEF solo_done, coordinator
<1>10. ASSUME NEW l \in Lanes, opener_wake(l) PROVE IInv'
  <2>1. /\ pc[l] = "open" /\ awake' \in SUBSET Lanes
        /\ UNCHANGED <<active, members, error, group>>
    BY <1>0, <1>10 DEF opener_wake
  <2>2. CASE phase[group[l]] # "open" /\ pc' = [pc EXCEPT ![l] = "wait"] /\ UNCHANGED <<open, phase>>
    BY <2>1, <2>2, YieldStep, ZenonT(60) DEF coordinator
  <2>3. CASE phase[group[l]] = "open" /\ Close(l, group[l])
    BY <2>1, <2>3, CloseStep
  <2>4. CASE UNCHANGED <<open, phase, pc>>
    BY <2>1, <2>4, RestStep, ZenonT(60)
  <2>. QED BY <1>10, <2>2, <2>3, <2>4 DEF opener_wake
<1>11. ASSUME NEW l \in Lanes, opener_timeout(l) PROVE IInv'
  <2>1. /\ pc[l] = "open" /\ awake' \in SUBSET Lanes
        /\ UNCHANGED <<active, members, error, group>>
    BY <1>0, <1>11 DEF opener_timeout
  <2>2. CASE phase[group[l]] # "open" /\ pc' = [pc EXCEPT ![l] = "wait"] /\ UNCHANGED <<open, phase>>
    BY <2>1, <2>2, YieldStep, Zenon DEF coordinator
  <2>3. CASE phase[group[l]] = "open" /\ Close(l, group[l])
    BY <2>1, <2>3, CloseStep
  <2>. QED BY <1>11, <2>2, <2>3 DEF opener_timeout
<1>12. ASSUME NEW l \in Lanes, lead_done(l) PROVE IInv'
  <2>1. pc[l] = "lead" /\ awake' \in SUBSET Lanes /\ UNCHANGED <<active, open>>
    BY <1>12 DEF lead_done, notify_all
  <2>2. group[l] \in Groups
    BY <2>1 DEF IInv, TypeOK, Held, InGate
  <2>3. PICK failed \in BOOLEAN : Leave(l, group[l], failed)
    BY <1>12, ConfigAssumption, Zenon DEF lead_done
  <2>4. Departs(l, group[l])
    BY <2>2, <2>3, LeaveDeparts
  <2>. QED BY <2>1, <2>4, LeaveStep
<1>13. ASSUME NEW l \in Lanes, resume(l) PROVE IInv'
  <2>1. /\ pc[l] = "wait" /\ phase[group[l]] = "done"
        /\ Leave(l, group[l], error[group[l]])
        /\ awake' \in SUBSET Lanes /\ UNCHANGED <<active, open>>
    BY <1>0, <1>13 DEF resume
  <2>2. group[l] \in Groups
    BY <2>1 DEF IInv, TypeOK, Held, InGate
  <2>3. error[group[l]] \in BOOLEAN
    BY <2>2 DEF IInv, TypeOK
  <2>4. Departs(l, group[l])
    BY <2>1, <2>2, <2>3, LeaveDeparts
  <2>. QED BY <2>1, <2>4, LeaveStep
<1>14. CASE UNCHANGED vars
  <2>1. UNCHANGED <<active, members, error, group, open, phase, pc, awake>>
    BY <1>14, Zenon DEF vars, coordinator
  <2>. QED BY <1>0, <2>1, RestStep, Zenon
<1>. QED BY <1>1, <1>2, <1>3, <1>4, <1>5, <1>6, <1>7, <1>8, <1>9, <1>10, <1>11, <1>12, <1>13, <1>14
         DEF Next

(* The invariant holds in every reachable state.                             *)
LEMMA Invariance == Spec => []IInv
BY InitInv, StepInv, PTL DEF Spec

-----------------------------------------------------------------------------
(* The count of active lanes never leaves 0..N and every reference is to a   *)
(* group there is: with as many groups as lanes none is ever missing.        *)
THEOREM TypeCorrect == Spec => []TypeOK
<1>1. IInv => TypeOK
  BY DEF IInv
<1>. QED BY <1>1, Invariance, PTL

(* continue_rows, propose: until a forward is done, its members are exactly  *)
(* the lanes that are still inside the gate with this group; no member's     *)
(* request leaves its stack under the forward.                               *)
THEOREM MembersRemain == Spec => []MembersStay
<1>1. IInv => MembersStay
  <2>. SUFFICES ASSUME IInv, NEW g \in Groups, phase[g] \in {"open", "closed"}
                PROVE  members[g] = {l \in Lanes : InGate(l) /\ group[l] = g}
    BY DEF MembersStay
  <2>1. \A l \in Lanes : group[l] = g => InGate(l)
    BY DEF IInv, Held, Groups, None
  <2>. QED BY <2>1 DEF IInv, Held, Of
<1>. QED BY <1>1, Invariance, PTL

(* One thread runs a group's forward, whether the opener's deadline, its     *)
(* early wake-up or the last arrival closed the group.                       *)
THEOREM SingleLeader == Spec => []OneLeader
<1>1. IInv => OneLeader
  <2>. SUFFICES ASSUME IInv, NEW g \in Groups
                PROVE  /\ phase[g] = "closed" => Cardinality({l \in members[g] : pc[l] = "lead"}) = 1
                       /\ phase[g] = "open" => Cardinality({l \in members[g] : pc[l] = "open"}) = 1
    BY DEF OneLeader
  <2>1. ASSUME phase[g] = "closed"
        PROVE  Cardinality({l \in members[g] : pc[l] = "lead"}) = 1
    <3>1. PICK x \in Lanes : /\ group[x] = g /\ pc[x] = "lead"
                             /\ \A y \in Lanes : group[y] = g /\ pc[y] = "lead" => y = x
      BY <2>1 DEF IInv, Led
    <3>2. {l \in members[g] : pc[l] = "lead"} = {x}
      <4>1. members[g] = Of(g)
        BY <2>1, Zenon DEF IInv, Held
      <4>. QED BY <3>1, <4>1, Zenon DEF Of
    <3>. QED BY <3>2, FS_Singleton
  <2>2. ASSUME phase[g] = "open"
        PROVE  Cardinality({l \in members[g] : pc[l] = "open"}) = 1
    <3>1. PICK x \in Lanes : /\ group[x] = g /\ pc[x] = "open"
                             /\ \A y \in Lanes : group[y] = g /\ pc[y] = "open" => y = x
      BY <2>2 DEF IInv, Led
    <3>2. {l \in members[g] : pc[l] = "open"} = {x}
      BY <2>2, <3>1 DEF IInv, Held, Of
    <3>. QED BY <3>2, FS_Singleton, Zenon
  <2>. QED BY <2>1, <2>2
<1>. QED BY <1>1, Invariance, PTL

(* No group is wider than the widest forward, although the number of active  *)
(* lanes that makes a group full changes while it is open.                   *)
THEOREM WidthBounded == Spec => []WidthBound
<1>1. IInv => WidthBound
  BY DEF IInv, Width
<1>. QED BY <1>1, Invariance, PTL

(* A lane never joins a group that is closed, and the gates never share one. *)
THEOREM OpenGroupsTakeMembers == Spec => []OpenTakesMembers
<1>1. IInv => OpenTakesMembers
  BY DEF IInv, Gated
<1>. QED BY <1>1, Invariance, PTL

(* active_ is the number of lanes between or at their gates.                 *)
THEOREM ActiveCounts == Spec => []ActiveExact
<1>1. IInv => ActiveExact
  BY DEF IInv
<1>. QED BY <1>1, Invariance, PTL

(* groups() and lead agree: whatever lanes a closed verification group has,  *)
(* its rows run once each, alone or in a forward whose graph was captured.   *)
THEOREM EveryForwardCaptured == Spec => []ForwardsCaptured
<1>1. IInv => ForwardsCaptured
  <2>. SUFFICES ASSUME IInv, NEW g \in Groups, phase[g] = "closed"
                PROVE  LET M == members[g] IN
                       /\ UNION Forwards(M) = M
                       /\ \A F \in Forwards(M) : Cardinality(F) = 1 \/ F \in Captured
                       /\ \A E, F \in Forwards(M) : E = F \/ E \cap F = {}
    BY DEF ForwardsCaptured
  <2>. DEFINE M == members[g]
              split == N > Half /\ Cardinality(M) > 1 /\ Cardinality(M) < MinWidth
  <2>1. M \in SUBSET Lanes /\ M # {}
    BY DEF IInv, TypeOK, Led, Held, Of
  <2>2. IsFiniteSet(M) /\ Cardinality(M) \in 1..MaxGroup
    <3>1. IsFiniteSet(M) /\ Cardinality(M) \in Nat
      BY <2>1, FiniteMembers, FS_CardinalityType
    <3>2. Cardinality(M) # 0
      BY <2>1, <3>1, FS_EmptySet
    <3>. QED BY <3>1, <3>2, ConfigAssumption DEF IInv, Width, WidthBound
  <2>3. \A F \in SUBSET M : F # {} =>
          F \in SUBSET Lanes /\ (Cardinality(F) = 1 \/ Cardinality(F) \in 2..MaxGroup)
    <3>. SUFFICES ASSUME NEW F \in SUBSET M, F # {}
                  PROVE  F \in SUBSET Lanes /\ (Cardinality(F) = 1 \/ Cardinality(F) \in 2..MaxGroup)
      OBVIOUS
    <3>1. IsFiniteSet(F) /\ Cardinality(F) <= Cardinality(M)
      BY <2>2, FS_Subset
    <3>2. Cardinality(F) \in Nat /\ Cardinality(F) # 0
      BY <3>1, FS_CardinalityType, FS_EmptySet
    <3>. QED BY <2>1, <2>2, <3>1, <3>2, ConfigAssumption
  <2>4. CASE split
    <3>1. Forwards(M) = {{l \in M : l < Half}, {l \in M : l >= Half}} \ {{}}
      BY <2>4 DEF Forwards
    <3>2. \A l \in M : l < Half \/ l >= Half
      BY <2>1, ConfigAssumption DEF Lanes
    <3>3. \A l \in M : ~(l < Half /\ l >= Half)
      BY <2>1, ConfigAssumption DEF Lanes
    <3>4. UNION Forwards(M) = M
      <4>. DEFINE A == {l \in M : l < Half}
                  B == {l \in M : l >= Half}
      <4>1. A \cup B = M
        BY <3>2
      <4>2. \A x : x \in A => A \in Forwards(M)
        BY <3>1
      <4>3. \A x : x \in B => B \in Forwards(M)
        BY <3>1
      <4>4. \A F \in Forwards(M) : F \subseteq M
        BY <3>1
      <4>. HIDE DEF A, B, M
      <4>5. \A x : x \in M => \E F \in Forwards(M) : x \in F
        BY <4>1, <4>2, <4>3
      <4>. QED BY <4>4, <4>5
    <3>5. \A E, F \in Forwards(M) : E = F \/ E \cap F = {}
      BY <3>1, <3>3
    <3>6. ASSUME NEW F \in Forwards(M) PROVE Cardinality(F) = 1 \/ F \in Captured
      <4>1. F \in SUBSET M /\ F # {} /\ WithinHalf(F)
        BY <3>1, <3>6 DEF WithinHalf
      <4>. QED BY <2>3, <4>1 DEF Captured
    <3>. QED BY <3>4, <3>5, <3>6
  <2>5. CASE ~split
    <3>1. Forwards(M) = {M}
      BY <2>5 DEF Forwards
    <3>2. Cardinality(M) = 1 \/ M \in Captured
      BY <2>1, <2>2, <2>3, <2>5, ConfigAssumption DEF Captured
    <3>. QED BY <3>1, <3>2
  <2>. QED BY <2>4, <2>5
<1>. QED BY <1>1, Invariance, PTL
=============================================================================
