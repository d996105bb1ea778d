------------------------- MODULE AsyncVerifyProofs -------------------------
(***************************************************************************)
(* Proofs about AsyncVerify, for any number of lanes, any block, lead and  *)
(* ring sizes: the line a lane resumes is its own, a pass is kept until    *)
(* its block is committed, a published token is never taken back, and the  *)
(* state handed over is the exact one.  Only verified tokens are published *)
(* if the lead is no smaller than the output allowance; with a smaller one *)
(* a token may go unchecked.  The inductive invariant comes first, with    *)
(* one lemma for each step.                                                *)
(***************************************************************************)
EXTENDS AsyncVerify, TLAPS

Texts == Seq(Tokens)

LoopTyped ==
    /\ pc \in [Lanes -> {"idle", "loop", "settled", "ending", "failed"}]
    /\ served \in [Lanes -> Nat] /\ cancelled \in [Lanes -> BOOLEAN]
    /\ verified \in [Lanes -> Texts] /\ early \in [Lanes -> {0, 1}]

RoundTyped ==
    /\ unverified \in [Lanes -> Texts] /\ closed \in [Lanes -> BOOLEAN]
    /\ rows \in [Lanes -> Nat] /\ job \in [Lanes -> {"none", "posted", "done", "error"}]
    /\ head \in [Lanes -> Texts]
    /\ commit \in [Lanes -> [tokens : Texts, corrected : BOOLEAN]]

PoolTyped ==
    /\ owner \in Lanes \cup {Nobody} /\ holds \in {"other", "root", "pass"}
    /\ live \in Texts /\ root \in [Lanes -> Texts] /\ pending \in [Lanes -> Texts]
    /\ parked \in [Lanes -> BOOLEAN]

TypeOK == LoopTyped /\ RoundTyped /\ PoolTyped

(* The lane's block is a prefix of what it drafted, a block was settled    *)
(* only from a job, and a settled block has a token.                       *)
BlockOK(l) ==
    /\ rows[l] <= Len(unverified[l])
    /\ IF job[l] = "none" THEN rows[l] = 0 ELSE rows[l] > 0 /\ pc[l] \in {"loop", "failed"}
    /\ pc[l] = "settled" => commit[l].tokens # <<>>

(* Nobody has run the line past the root of the lane it stands at.         *)
RootOK(l) == owner = l /\ holds = "root" /\ job[l] # "error" => live = root[l]

(* A finished pass not yet committed or corrected.                         *)
Passed(l) == Active(l) /\ (job[l] = "done" \/ (pc[l] = "settled" /\ ~commit[l].corrected))

(* What the pass ran past the lane's root.                                 *)
Ran(l) == head[l] \o (IF pc[l] = "settled" THEN commit[l].tokens ELSE SubSeq(unverified[l], 1, rows[l]))

(* The pass is on the line, or in the lane's slot and the line elsewhere.  *)
PassOK(l) ==
    Passed(l) => /\ holds_pass_of(l) \/ (parked[l] /\ owner # l)
                 /\ PassOf(l) = root[l] \o Ran(l)

FrontierOK(l) == Active(l) => root[l] \o head[l] = verified[l]

(* An early token is the first of its request, and its block is not        *)
(* committed yet.                                                          *)
EarlyOK(l) ==
    (Active(l) /\ early[l] = 1) =>
        /\ verified[l] = <<>> /\ head[l] = <<>> /\ pc[l] # "ending"
        /\ pc[l] = "loop" => unverified[l] # <<>>

LaneOK(l) == BlockOK(l) /\ RootOK(l) /\ PassOK(l) /\ FrontierOK(l) /\ EarlyOK(l)

IInv == TypeOK /\ \A l \in Lanes : LaneOK(l)

-----------------------------------------------------------------------------
(* Facts about sequences.                                                  *)

(* Joining sequences: type, length, the empty one, and three in a row.     *)
LEMMA Joined ==
  ASSUME NEW a \in Texts, NEW b \in Texts
  PROVE  /\ a \o b \in Texts /\ Len(a \o b) = Len(a) + Len(b) /\ Len(b) <= Len(a \o b)
         /\ a \o <<>> = a
         /\ \A c \in Texts : (a \o b) \o c = a \o (b \o c)
         /\ \A i \in 1..Len(a) : (a \o b)[i] = a[i]
         /\ \A i \in 1..Len(b) : (a \o b)[Len(a) + i] = b[i]
  BY DEF Texts

(* The empty sequence.                                                     *)
LEMMA Nothing ==
  /\ <<>> \in Texts /\ Len(<<>>) = 0
  /\ \A a \in Texts : Len(a) \in Nat /\ (Len(a) = 0 <=> a = <<>>) /\ <<>> \o a = a
  BY DEF Texts

(* What is committed past the root, with more tokens at the end.           *)
LEMMA Further ==
  ASSUME NEW r \in Texts, NEW h \in Texts, NEW t \in Texts
  PROVE  /\ (r \o h) \o t = r \o (h \o t)
         /\ h \o t \in Texts /\ r \o (h \o t) \in Texts
  BY DEF Texts

(* A flag that is set is a flag.                                           *)
LEMMA FlagSet ==
  ASSUME NEW f \in [Lanes -> BOOLEAN], NEW l \in Lanes, NEW x, NEW S, NEW g,
         g = [f EXCEPT ![l] = x \in S]
  PROVE  g \in [Lanes -> BOOLEAN]
  OBVIOUS

(* A sequence is empty if it has no elements.                              *)
LEMMA LengthOf ==
  ASSUME NEW a \in Texts
  PROVE  Len(a) \in Nat /\ (Len(a) = 0 <=> a = <<>>) /\ (Len(a) > 0 <=> a # <<>>)
  BY DEF Texts

(* A prefix: its type, length and elements, and that more at the end does  *)
(* not change it.                                                          *)
LEMMA Prefixes ==
  ASSUME NEW a \in Texts, NEW n \in 0..Len(a)
  PROVE  /\ SubSeq(a, 1, n) \in Texts /\ Len(SubSeq(a, 1, n)) = n
         /\ \A i \in 1..n : SubSeq(a, 1, n)[i] = a[i]
         /\ \A b \in Texts : SubSeq(a \o b, 1, n) = SubSeq(a, 1, n)
         /\ SubSeq(a, 1, Len(a)) = a
  BY DEF Texts

(* What is left past a prefix.                                             *)
LEMMA Suffixes ==
  ASSUME NEW a \in Texts, NEW n \in 0..Len(a)
  PROVE  /\ SubSeq(a, n + 1, Len(a)) \in Texts
         /\ Len(SubSeq(a, n + 1, Len(a))) = Len(a) - n
         /\ n < Len(a) => SubSeq(a, n + 1, Len(a))[1] = a[n + 1]
  BY DEF Texts

(* One element more.                                                       *)
LEMMA OneMore ==
  ASSUME NEW a \in Texts, NEW x \in Tokens
  PROVE  /\ Append(a, x) \in Texts /\ Len(Append(a, x)) = Len(a) + 1 /\ Append(a, x) # <<>>
         /\ \A i \in 1..Len(a) : Append(a, x)[i] = a[i]
         /\ Append(a, x)[Len(a) + 1] = x
  BY DEF Texts

(* An element of a sequence is a token.                                    *)
LEMMA ElementOf ==
  ASSUME NEW a \in Texts, NEW i \in 1..Len(a)
  PROVE  a[i] \in Tokens
  BY DEF Texts

(* Positions in a sequence of length m.                                    *)
LEMMA Positions ==
  ASSUME NEW m \in Nat, NEW n \in Nat, n <= m
  PROVE  /\ n \in 0..m /\ (n > 0 => n \in 1..m /\ m > 0)
         /\ n > 0 => n - 1 \in 0..m
         /\ n > 1 => n - 1 \in 1..m
         /\ n < m => n + 1 \in 1..m /\ (n > 0 => n + 1 > 1)
  OBVIOUS

(* A part that leaves something out.                                       *)
LEMMA ProperPart ==
  ASSUME NEW m \in Nat, NEW e \in {0, 1}, NEW n \in e..(m - 1)
  PROVE  n \in 0..m /\ (e = 1 => n \in 1..m /\ m > 0)
  OBVIOUS

(* The block is a prefix of what was drafted.                              *)
LEMMA BlockWithin ==
  ASSUME IInv, NEW l \in Lanes
  PROVE  /\ unverified[l] \in Texts /\ Len(unverified[l]) \in Nat /\ rows[l] \in Nat
         /\ rows[l] \in 0..Len(unverified[l]) /\ rows[l] <= Len(unverified[l])
         /\ rows[l] > 0 => rows[l] \in 1..Len(unverified[l]) /\ unverified[l] # <<>>
  <1>1. unverified[l] \in Texts /\ rows[l] \in Nat /\ rows[l] <= Len(unverified[l])
    BY Zenon DEF IInv, TypeOK, RoundTyped, LaneOK, BlockOK
  <1>2. Len(unverified[l]) \in Nat /\ (Len(unverified[l]) > 0 <=> unverified[l] # <<>>)
    BY <1>1, LengthOf, Zenon
  <1> QED
    BY <1>1, <1>2, Positions, Zenon

(* A rejected token is one of the block's or the one after it.             *)
LEMMA RejectedWithin ==
  ASSUME IInv, NEW l \in Lanes, NEW i \in Rejected(l)
  PROVE  /\ i \in Nat /\ i \in 1..Len(unverified[l]) /\ i <= Len(unverified[l])
         /\ i - 1 \in 0..Len(unverified[l]) /\ i - 1 <= rows[l] + 1 /\ unverified[l] # <<>>
         /\ head[l] = <<>> => i - 1 \in 1..Len(unverified[l])
         /\ \A j \in Rejected(l) : j \in Nat /\ (i <= j => i - 1 < j)
  <1>1. unverified[l] \in Texts /\ Len(unverified[l]) \in Nat /\ rows[l] \in Nat
    BY BlockWithin, Zenon
  <1>2. /\ \A j \in Rejected(l) : j \in 1..Len(unverified[l])
        /\ i <= rows[l] + 1 /\ (i > 1 \/ head[l] # <<>>)
    BY Zenon DEF Rejected
  <1>3. \A j \in Rejected(l) : j \in Nat /\ j > 0 /\ j <= Len(unverified[l])
    BY <1>1, <1>2
  <1>4. /\ i - 1 \in 0..Len(unverified[l]) /\ Len(unverified[l]) > 0
        /\ i > 1 => i - 1 \in 1..Len(unverified[l])
    BY <1>1, <1>3, Positions, Zenon
  <1>5. unverified[l] # <<>>
    BY <1>1, <1>4, LengthOf, Zenon
  <1>6. i - 1 <= rows[l] + 1 /\ \A j \in Nat : i <= j => i - 1 < j
    BY <1>1, <1>2, <1>3
  <1> QED
    BY <1>2, <1>3, <1>4, <1>5, <1>6, Zenon

-----------------------------------------------------------------------------
(* What a step leaves alone.                                               *)

(* Nothing of the lane's own state changes.                                *)
Keeps(m) ==
    /\ pc'[m] = pc[m] /\ verified'[m] = verified[m] /\ early'[m] = early[m]
    /\ unverified'[m] = unverified[m] /\ rows'[m] = rows[m] /\ job'[m] = job[m]
    /\ head'[m] = head[m] /\ commit'[m] = commit[m] /\ root'[m] = root[m]

(* A lane is as before when neither its state nor its part of the pool     *)
(* changes.                                                                *)
LEMMA SameKept ==
  ASSUME IInv, NEW m \in Lanes, Keeps(m),
         owner' = m <=> owner = m, owner = m => holds' = holds /\ live' = live,
         parked'[m] = parked[m], pending'[m] = pending[m]
  PROVE  LaneOK(m)'
  <1> USE DEF Keeps
  <1>1. LaneOK(m)
    BY Zenon DEF IInv
  <1>2. BlockOK(m)' /\ FrontierOK(m)' /\ EarlyOK(m)'
    BY <1>1, Zenon DEF LaneOK, BlockOK, FrontierOK, EarlyOK, Active
  <1>3. RootOK(m)'
    BY <1>1, Zenon DEF LaneOK, RootOK
  <1>4. /\ holds_pass_of(m)' <=> holds_pass_of(m)
        /\ Ran(m)' = Ran(m)
        /\ Passed(m)' <=> Passed(m)
    BY Zenon DEF holds_pass_of, Ran, Passed, Active
  <1>5. PassOf(m)' = PassOf(m)
    BY <1>4, Zenon DEF PassOf, holds_pass_of
  <1>6. PassOK(m)'
    BY <1>1, <1>4, <1>5, Zenon DEF LaneOK, PassOK
  <1> QED
    BY <1>2, <1>3, <1>6, Zenon DEF LaneOK

(* A lane that loses the line, if it had it, has its pass parked.          *)
LEMMA OtherKept ==
  ASSUME IInv, NEW m \in Lanes, Keeps(m), owner' # m,
         holds_pass_of(m) => parked'[m] /\ pending'[m] = live,
         ~holds_pass_of(m) => parked'[m] = parked[m] /\ pending'[m] = pending[m]
  PROVE  LaneOK(m)'
  <1> USE DEF Keeps
  <1>1. LaneOK(m)
    BY Zenon DEF IInv
  <1>2. BlockOK(m)' /\ FrontierOK(m)' /\ EarlyOK(m)'
    BY <1>1, Zenon DEF LaneOK, BlockOK, FrontierOK, EarlyOK, Active
  <1>3. RootOK(m)'
    BY Zenon DEF RootOK
  <1>4. Ran(m)' = Ran(m) /\ (Passed(m)' <=> Passed(m))
    BY Zenon DEF Ran, Passed, Active
  <1>5. ~holds_pass_of(m)'
    BY Zenon DEF holds_pass_of
  <1>6. PassOf(m)' = PassOf(m)
    BY <1>5, Zenon DEF PassOf
  <1>7. PassOK(m)'
    BY <1>1, <1>4, <1>5, <1>6, Zenon DEF LaneOK, PassOK
  <1> QED
    BY <1>2, <1>3, <1>7, Zenon DEF LaneOK

(* Taking the line parks the pass of the lane that has it, and no other.   *)
LEMMA TakeOther ==
  ASSUME IInv, NEW l \in Lanes, NEW m \in Lanes, m # l, Keeps(m), owner' \in {l, Nobody},
         pending' = IF Parks(l) THEN [pending EXCEPT ![owner] = live] ELSE pending,
         parked'[m] = (parked[m] \/ (Parks(l) /\ m = owner))
  PROVE  LaneOK(m)'
  <1>1. owner' # m /\ m # Nobody
    BY ConfigAssumption, Zenon
  <1>2. TypeOK /\ parked[m] \in BOOLEAN
    BY Zenon DEF IInv, TypeOK, PoolTyped
  <1>3. ASSUME holds_pass_of(m)
        PROVE  parked'[m] /\ pending'[m] = live
    <2>1. Parks(l) /\ owner = m
      BY <1>1, <1>3, Zenon DEF holds_pass_of, Parks
    <2> QED
      BY <2>1, <1>2, Zenon DEF TypeOK, PoolTyped
  <1>4. ASSUME ~holds_pass_of(m)
        PROVE  parked'[m] = parked[m] /\ pending'[m] = pending[m]
    <2>1. CASE Parks(l)
      <3>1. owner # m /\ owner \in Lanes
        BY <2>1, <1>2, <1>4, Zenon DEF Parks, holds_pass_of, TypeOK, PoolTyped
      <3> QED
        BY <2>1, <3>1, <1>2, Zenon DEF TypeOK, PoolTyped
    <2>2. CASE ~Parks(l)
      BY <2>2, <1>2, Zenon
    <2> QED
      BY <2>1, <2>2, Zenon
  <1> QED
    BY <1>1, <1>3, <1>4, OtherKept, Zenon

-----------------------------------------------------------------------------
(* The steps.                                                              *)

(* The line at the lane's root is the root.                                *)
LEMMA AtTheRoot ==
  ASSUME IInv, NEW l \in Lanes, job[l] # "error"
  PROVE  AtRoot(l) = root[l]
  BY Zenon DEF IInv, LaneOK, RootOK, AtRoot

(* What a lease of the line leaves in the slots is well-typed.             *)
LEMMA TakeTyped ==
  ASSUME IInv, NEW l \in Lanes
  PROVE  /\ (IF Parks(l) THEN [pending EXCEPT ![owner] = live] ELSE pending) \in [Lanes -> Texts]
         /\ AtRoot(l) \in Texts
         /\ [m \in Lanes |-> parked[m] \/ (Parks(l) /\ m = owner)] \in [Lanes -> BOOLEAN]
         /\ Unparked(l) \in [Lanes -> BOOLEAN]
  <1>1. TypeOK
    BY Zenon DEF IInv
  <1>2. (IF Parks(l) THEN [pending EXCEPT ![owner] = live] ELSE pending) \in [Lanes -> Texts]
    BY <1>1, Zenon DEF TypeOK, PoolTyped
  <1>3. AtRoot(l) \in Texts
    BY <1>1, Zenon DEF TypeOK, PoolTyped, AtRoot
  <1>4. [m \in Lanes |-> parked[m] \/ (Parks(l) /\ m = owner)] \in [Lanes -> BOOLEAN]
    BY Zenon
  <1>5. Unparked(l) \in [Lanes -> BOOLEAN]
    <2>1. \A m \in Lanes : (IF m = l THEN FALSE ELSE parked[m] \/ (Parks(l) /\ m = owner)) \in BOOLEAN
      BY Zenon
    <2> QED
      BY <2>1, Zenon DEF Unparked
  <1> QED
    BY <1>2, <1>3, <1>4, <1>5, Zenon

(* The initial states.                                                     *)
LEMMA InitOK ==
  Init => IInv
  <1> SUFFICES ASSUME Init
               PROVE  IInv
    BY Zenon
  <1>1. TypeOK
    <2>1. LoopTyped
      BY Nothing, Zenon DEF Init, LoopTyped
    <2>2. RoundTyped
      BY Nothing, Zenon DEF Init, RoundTyped, NoCommit
    <2>3. PoolTyped
      BY Nothing, Zenon DEF Init, PoolTyped
    <2> QED
      BY <2>1, <2>2, <2>3, Zenon DEF TypeOK
  <1>2. ASSUME NEW l \in Lanes
        PROVE  LaneOK(l)
    <2>1. l # Nobody
      BY ConfigAssumption, Zenon
    <2>2. pc[l] = "idle" /\ rows[l] = 0 /\ job[l] = "none" /\ unverified[l] = <<>> /\ owner = Nobody
      BY Zenon DEF Init
    <2>3. ~Active(l)
      BY <2>2, Zenon DEF Active
    <2>4. BlockOK(l)
      BY <2>2, Nothing DEF BlockOK
    <2>5. RootOK(l)
      BY <2>1, <2>2, Zenon DEF RootOK
    <2> QED
      BY <2>3, <2>4, <2>5, Zenon DEF LaneOK, PassOK, Passed, FrontierOK, EarlyOK
  <1> QED
    BY <1>1, <1>2, Zenon DEF IInv

(* A request begins with the line at its root.                             *)
LEMMA BeginStep ==
  ASSUME IInv, NEW l \in Lanes, begin(l)
  PROVE  IInv'
  <1>1. TypeOK /\ pc[l] = "idle" /\ LaneOK(l)
    BY Zenon DEF IInv, begin
  <1>2. TypeOK'
    <2>1. /\ pending' \in [Lanes -> Texts] /\ parked' \in [Lanes -> BOOLEAN]
          /\ owner' = l /\ holds' = "root" /\ live' \in Texts
      BY TakeTyped, Nothing, Zenon DEF begin, take
    <2>2. LoopTyped'
      BY <1>1, Nothing DEF TypeOK, LoopTyped, begin
    <2>3. RoundTyped'
      BY <1>1, Nothing, Zenon DEF TypeOK, RoundTyped, begin
    <2>4. root' \in [Lanes -> Texts]
      BY <1>1, Nothing, Zenon DEF TypeOK, PoolTyped, begin
    <2>5. PoolTyped'
      BY <2>1, <2>4, Zenon DEF PoolTyped
    <2> QED
      BY <2>2, <2>3, <2>5, Zenon DEF TypeOK
  <1>3. ASSUME NEW m \in Lanes, m # l
        PROVE  LaneOK(m)'
    <2>1. Keeps(m)
      BY <1>1, <1>3, Zenon DEF Keeps, TypeOK, LoopTyped, RoundTyped, PoolTyped, begin
    <2>2. parked'[m] = (parked[m] \/ (Parks(l) /\ m = owner))
      BY Zenon DEF begin
    <2>3. owner' \in {l, Nobody} /\ pending' = IF Parks(l) THEN [pending EXCEPT ![owner] = live] ELSE pending
      BY Zenon DEF begin, take
    <2> QED
      BY <1>3, <2>1, <2>2, <2>3, TakeOther, Zenon
  <1>4. LaneOK(l)'
    <2>1. /\ pc'[l] = "loop" /\ verified'[l] = <<>> /\ early'[l] = 0 /\ unverified'[l] = <<>>
          /\ head'[l] = <<>> /\ root'[l] = <<>> /\ live' = <<>> /\ rows'[l] = rows[l] /\ job'[l] = job[l]
      BY <1>1, Zenon DEF TypeOK, LoopTyped, RoundTyped, PoolTyped, begin
    <2>2. job[l] = "none" /\ rows[l] = 0
      BY <1>1, Zenon DEF TypeOK, RoundTyped, LaneOK, BlockOK
    <2>3. BlockOK(l)' /\ RootOK(l)'
      BY <2>1, <2>2, Nothing DEF BlockOK, RootOK
    <2>4. PassOK(l)' /\ EarlyOK(l)'
      BY <2>1, <2>2 DEF PassOK, Passed, EarlyOK
    <2>5. FrontierOK(l)'
      BY <2>1, Nothing, Zenon DEF FrontierOK
    <2> QED
      BY <2>3, <2>4, <2>5, Zenon DEF LaneOK
  <1> QED
    BY <1>2, <1>3, <1>4, Zenon DEF IInv

(* A lane that fails keeps what it has, and is done.                       *)
LEMMA FailStep ==
  ASSUME IInv, NEW l \in Lanes, Fail(l)
  PROVE  IInv'
  <1>1. TypeOK /\ LaneOK(l)
    BY Zenon DEF IInv
  <1>2. TypeOK'
    <2>1. pc' \in [Lanes -> {"idle", "loop", "settled", "ending", "failed"}]
      BY <1>1, Zenon DEF TypeOK, LoopTyped, Fail
    <2>2. cancelled' \in [Lanes -> BOOLEAN]
      BY Zenon DEF Fail
    <2> QED
      BY <1>1, <2>1, <2>2, Zenon DEF TypeOK, LoopTyped, RoundTyped, PoolTyped, Fail, roundVars, poolVars
  <1>3. ASSUME NEW m \in Lanes, m # l
        PROVE  LaneOK(m)'
    <2>1. Keeps(m)
      BY <1>1, <1>3, Zenon DEF Keeps, TypeOK, LoopTyped, Fail, roundVars, poolVars
    <2> QED
      BY <2>1, SameKept, Zenon DEF Fail, poolVars
  <1>4. LaneOK(l)'
    <2>1. pc'[l] = "failed"
      BY <1>1, Zenon DEF TypeOK, LoopTyped, Fail
    <2>2. BlockOK(l)' /\ RootOK(l)'
      BY <1>1, <2>1, Zenon DEF LaneOK, BlockOK, RootOK, Fail, roundVars, poolVars
    <2>3. ~Active(l)'
      BY <2>1, Zenon DEF Active
    <2> QED
      BY <2>2, <2>3, Zenon DEF LaneOK, PassOK, Passed, FrontierOK, EarlyOK
  <1> QED
    BY <1>2, <1>3, <1>4, Zenon DEF IInv

(* A cancellation only sets its flag.                                      *)
LEMMA CancelStep ==
  ASSUME IInv, NEW l \in Lanes, cancel(l)
  PROVE  IInv'
  <1> USE DEF cancel, roundVars, poolVars
  <1>1. TypeOK'
    BY Zenon DEF IInv, TypeOK, LoopTyped, RoundTyped, PoolTyped
  <1>2. ASSUME NEW m \in Lanes
        PROVE  LaneOK(m)'
    <2>1. Keeps(m)
      BY Zenon DEF Keeps
    <2> QED
      BY <2>1, SameKept, Zenon
  <1> QED
    BY <1>1, <1>2, Zenon DEF IInv

(* Launching makes the drafted tokens the block; the worker has not run it. *)
LEMMA LaunchStep ==
  ASSUME IInv, NEW l \in Lanes, launch_async(l)
  PROVE  IInv'
  <1> USE DEF launch_async, loopVars, poolVars
  <1>1. /\ TypeOK /\ LaneOK(l) /\ pc[l] = "loop" /\ rows[l] = 0
        /\ unverified[l] \in Texts /\ Len(unverified[l]) \in Nat /\ Len(unverified[l]) > 0
    BY LengthOf, Zenon DEF IInv, Goes, Launches, TypeOK, RoundTyped
  <1>2. TypeOK'
    <2>1. rows' \in [Lanes -> Nat] /\ job' \in [Lanes -> {"none", "posted", "done", "error"}]
      BY <1>1, Nothing, Zenon DEF TypeOK, RoundTyped
    <2> QED
      BY <1>1, <2>1, Zenon DEF TypeOK, LoopTyped, RoundTyped, PoolTyped
  <1>3. ASSUME NEW m \in Lanes, m # l
        PROVE  LaneOK(m)'
    <2>1. Keeps(m)
      BY <1>1, <1>3, Zenon DEF Keeps, TypeOK, RoundTyped
    <2> QED
      BY <2>1, SameKept, Zenon
  <1>4. LaneOK(l)'
    <2>1. rows'[l] = Len(unverified[l]) /\ job'[l] = "posted" /\ pc'[l] = "loop"
      BY <1>1, Zenon DEF TypeOK, RoundTyped
    <2>2. BlockOK(l)'
      BY <1>1, <2>1 DEF LaneOK, BlockOK
    <2>3. RootOK(l)' /\ FrontierOK(l)' /\ EarlyOK(l)'
      <3>1. job[l] # "error"
        BY <1>1 DEF Launches, LaneOK, BlockOK
      <3> QED
        BY <1>1, <2>1, <3>1, Zenon DEF LaneOK, RootOK, FrontierOK, EarlyOK, Active
    <2>4. PassOK(l)'
      BY <2>1, Zenon DEF PassOK, Passed
    <2> QED
      BY <2>2, <2>3, <2>4, Zenon DEF LaneOK
  <1> QED
    BY <1>2, <1>3, <1>4, Zenon DEF IInv

(* Least returns the least of three integers.                              *)
LEMMA LeastOfThree ==
  ASSUME NEW a \in Int, NEW b \in Int, NEW c \in Int
  PROVE  /\ Least({a, b, c}) \in {a, b, c}
         /\ Least({a, b, c}) <= a /\ Least({a, b, c}) <= b /\ Least({a, b, c}) <= c
  <1>1. \E n \in {a, b, c} : \A m \in {a, b, c} : n <= m
    <2>1. CASE a <= b /\ a <= c
      BY <2>1
    <2>2. CASE b <= a /\ b <= c
      BY <2>2
    <2>3. CASE c <= a /\ c <= b
      BY <2>3
    <2> QED
      BY <2>1, <2>2, <2>3
  <1> QED
    BY <1>1, Zenon DEF Least

(* A round drafts at least one token and at most what the allowance has    *)
(* room for.                                                               *)
LEMMA RoundTyped1 ==
  ASSUME IInv, NEW l \in Lanes, NEW t \in RoundTokens(l)
  PROVE  /\ t \in Texts /\ Len(t) \in 1..room(l)
         /\ (verified[l] = <<>> /\ unverified[l] = <<>>) => t[1] \in Exact
  <1>1. /\ verified[l] \in Texts /\ unverified[l] \in Texts /\ head[l] \in Texts
        /\ Width \in Int /\ Lead \in Int /\ Budget \in Int
    BY ConfigAssumption DEF IInv, TypeOK, LoopTyped, RoundTyped
  <1>2. room(l) \in Int /\ async_lead(l) \in Int
    BY <1>1, Nothing DEF room, async_lead
  <1>3. RoundWidth(l) \in Int /\ RoundWidth(l) <= room(l)
    <2> DEFINE past == Lead - async_lead(l)
               third == IF unverified[l] = <<>> /\ past < Width THEN Width ELSE past
    <2>1. third \in Int
      BY <1>1, <1>2
    <2>2. RoundWidth(l) = Least({Width, room(l), third})
      BY Zenon DEF RoundWidth
    <2> HIDE DEF third
    <2> QED
      BY <1>1, <1>2, <2>1, <2>2, LeastOfThree
  <1>4. PICK n \in 1..RoundWidth(l) : t \in [1..n -> Drafts]
    BY Zenon DEF RoundTokens
  <1>5. t \in Texts /\ Len(t) = n
    BY <1>3, <1>4, ConfigAssumption DEF Texts
  <1>6. (verified[l] = <<>> /\ unverified[l] = <<>>) => t[1] \in Exact
    BY Zenon DEF RoundTokens
  <1> QED
    BY <1>2, <1>3, <1>4, <1>5, <1>6

(* The head is a part of what is committed.                                *)
LEMMA HeadWithin ==
  ASSUME IInv, NEW l \in Lanes, Active(l)
  PROVE  /\ head[l] \in Texts /\ verified[l] \in Texts /\ root[l] \in Texts
         /\ Len(head[l]) <= Len(verified[l])
  <1>1. head[l] \in Texts /\ verified[l] \in Texts /\ root[l] \in Texts
    BY Zenon DEF IInv, TypeOK, LoopTyped, RoundTyped, PoolTyped
  <1>2. root[l] \o head[l] = verified[l]
    BY Zenon DEF IInv, LaneOK, FrontierOK
  <1>3. Len(head[l]) <= Len(root[l] \o head[l])
    BY <1>1, Joined, Zenon
  <1> QED
    BY <1>1, <1>2, <1>3, Zenon

(* With nothing committed there is no head.                                *)
LEMMA HeadOfNothing ==
  ASSUME IInv, NEW l \in Lanes, pc[l] = "loop", verified[l] = <<>>
  PROVE  head[l] = <<>>
  <1>1. head[l] \in Texts /\ Len(head[l]) <= Len(verified[l])
    BY HeadWithin, Zenon DEF Active
  <1>2. Len(verified[l]) = 0
    BY Nothing, Zenon
  <1>3. Len(head[l]) \in Nat /\ (Len(head[l]) = 0 <=> head[l] = <<>>)
    BY <1>1, LengthOf, Zenon
  <1>4. Len(head[l]) = 0
    BY <1>1, <1>2, <1>3
  <1> QED
    BY <1>3, <1>4, Zenon

(* A round adds tokens after the block in flight.                          *)
LEMMA DraftStep ==
  ASSUME IInv, NEW l \in Lanes, draft(l)
  PROVE  IInv'
  <1>1. PICK t \in RoundTokens(l) :
        /\ unverified' = [unverified EXCEPT ![l] = @ \o t]
        /\ closed' = [closed EXCEPT ![l] = Last(t) \in Terminal]
        /\ IF verified[l] = <<>> /\ unverified[l] = <<>> /\ Budget > 1 /\ t[1] \notin Terminal
           THEN \E n \in {0, 1} : early' = [early EXCEPT ![l] = n]
           ELSE UNCHANGED early
    BY Zenon DEF draft
  <1>2. /\ TypeOK /\ LaneOK(l) /\ pc[l] = "loop"
        /\ unverified[l] \in Texts /\ t \in Texts /\ Len(t) > 0 /\ rows[l] \in Nat
        /\ early[l] \in {0, 1} /\ verified[l] \in Texts /\ head[l] \in Texts
    <2>1. t \in Texts /\ Len(t) \in 1..room(l)
      BY RoundTyped1, Zenon
    <2>2. TypeOK /\ LaneOK(l) /\ pc[l] = "loop"
      BY Zenon DEF IInv, draft, Goes
    <2> QED
      BY <2>1, <2>2, Nothing DEF TypeOK, LoopTyped, RoundTyped
  <1>3. UNCHANGED <<pc, served, cancelled, verified, rows, job, head, commit,
                    owner, holds, live, root, pending, parked>>
    BY Zenon DEF draft, poolVars
  <1>4. early' \in [Lanes -> {0, 1}] /\ \A m \in Lanes : m # l => early'[m] = early[m]
    BY <1>1, <1>2, Zenon DEF TypeOK, LoopTyped
  <1>5. unverified'[l] = unverified[l] \o t /\ unverified'[l] \in Texts
    BY <1>1, <1>2, Joined, Zenon DEF TypeOK, RoundTyped
  <1>6. TypeOK'
    <2>1. closed' \in [Lanes -> BOOLEAN]
      <3>1. closed \in [Lanes -> BOOLEAN]
        BY <1>2, Zenon DEF TypeOK, RoundTyped
      <3>2. closed' = [closed EXCEPT ![l] = Last(t) \in Terminal]
        BY <1>1, Zenon
      <3> QED
        BY <3>1, <3>2, FlagSet, Zenon
    <2>2. unverified' \in [Lanes -> Texts]
      BY <1>1, <1>2, <1>5, Zenon DEF TypeOK, RoundTyped
    <2> QED
      BY <1>2, <1>3, <1>4, <2>1, <2>2, Zenon DEF TypeOK, LoopTyped, RoundTyped, PoolTyped
  <1>7. ASSUME NEW m \in Lanes, m # l
        PROVE  LaneOK(m)'
    <2>1. Keeps(m)
      BY <1>1, <1>2, <1>3, <1>4, <1>7, Zenon DEF Keeps, TypeOK, RoundTyped
    <2> QED
      BY <1>3, <2>1, SameKept, Zenon
  <1>8. LaneOK(l)'
    <2>1. /\ Len(unverified'[l]) = Len(unverified[l]) + Len(t)
          /\ unverified'[l] # <<>>
          /\ SubSeq(unverified'[l], 1, rows[l]) = SubSeq(unverified[l], 1, rows[l])
      <3>1. rows[l] \in 0..Len(unverified[l])
        BY BlockWithin, Zenon
      <3>2. Len(unverified'[l]) = Len(unverified[l]) + Len(t)
        BY <1>2, <1>5, Joined
      <3>3. SubSeq(unverified'[l], 1, rows[l]) = SubSeq(unverified[l], 1, rows[l])
        BY <1>2, <1>5, <3>1, Prefixes
      <3>4. unverified'[l] # <<>>
        <4>1. Len(unverified[l]) \in Nat /\ Len(t) \in Nat
          BY <1>2, LengthOf, Zenon
        <4>2. Len(unverified'[l]) > 0
          BY <1>2, <3>2, <4>1
        <4> QED
          BY <1>5, <4>2, LengthOf, Zenon
      <3> QED
        BY <3>2, <3>3, <3>4, Zenon
    <2>2. BlockOK(l)'
      BY <1>2, <1>3, <2>1, Nothing DEF LaneOK, BlockOK
    <2>3. RootOK(l)' /\ FrontierOK(l)'
      BY <1>2, <1>3, Zenon DEF LaneOK, RootOK, FrontierOK, Active
    <2>4. PassOK(l)'
      <3>1. Passed(l)' => Passed(l)
        BY <1>3, Zenon DEF Passed, Active
      <3>2. Ran(l)' = Ran(l)
        BY <1>2, <1>3, <2>1, Zenon DEF Ran
      <3>3. PassOf(l)' = PassOf(l) /\ (holds_pass_of(l)' <=> holds_pass_of(l))
        BY <1>3, Zenon DEF PassOf, holds_pass_of
      <3> QED
        BY <1>2, <1>3, <3>1, <3>2, <3>3, Zenon DEF LaneOK, PassOK
    <2>5. EarlyOK(l)'
      <3>1. verified[l] = <<>> => head[l] = <<>>
        BY <1>2, HeadOfNothing, Zenon
      <3>2. early'[l] = 1 => verified[l] = <<>> /\ head[l] = <<>>
        BY <1>1, <1>2, <3>1, Zenon DEF LaneOK, EarlyOK, Active
      <3> QED
        BY <1>2, <1>3, <2>1, <3>2, Zenon DEF EarlyOK
    <2> QED
      BY <2>2, <2>3, <2>4, <2>5, Zenon DEF LaneOK
  <1> QED
    BY <1>6, <1>7, <1>8, Zenon DEF IInv

(* The worker's pass runs the head and the block past the lane's root; a   *)
(* pass that fails leaves the line anywhere, and the job says so.          *)
LEMMA RunStep ==
  ASSUME IInv, NEW l \in Lanes, run(l)
  PROVE  IInv'
  <1>1. /\ TypeOK /\ LaneOK(l) /\ job[l] = "posted" /\ l # Nobody
        /\ unverified[l] \in Texts /\ head[l] \in Texts /\ root[l] \in Texts /\ rows[l] \in Nat
    BY ConfigAssumption, Zenon DEF IInv, run, TypeOK, RoundTyped, PoolTyped
  <1>2. UNCHANGED <<pc, served, cancelled, verified, early, unverified, closed, rows, head, commit, root>>
    BY Zenon DEF run, loopVars
  <1>3. /\ owner' = l
        /\ pending' = IF Parks(l) THEN [pending EXCEPT ![owner] = live] ELSE pending
        /\ parked' = [m \in Lanes |-> parked[m] \/ (Parks(l) /\ m = owner)]
    BY Zenon DEF run, take
  <1>4. /\ InFlight(l) \in Texts /\ InFlight(l) = head[l] \o SubSeq(unverified[l], 1, rows[l])
        /\ AtRoot(l) = root[l]
    <2>1. rows[l] \in 0..Len(unverified[l])
      BY BlockWithin, Zenon
    <2>2. SubSeq(unverified[l], 1, rows[l]) \in Texts
      BY <1>1, <2>1, Prefixes, Zenon
    <2>3. head[l] \o SubSeq(unverified[l], 1, rows[l]) \in Texts
      BY <1>1, <2>2, Joined, Zenon
    <2>4. AtRoot(l) = root[l]
      BY <1>1, AtTheRoot, Zenon
    <2> QED
      BY <2>3, <2>4, Zenon DEF InFlight
  <1>5. root[l] \o InFlight(l) \in Texts
    BY <1>1, <1>4, Joined, Zenon
  <1>6. \/ /\ live' = root[l] \o InFlight(l) /\ holds' = "pass" /\ job' = [job EXCEPT ![l] = "done"]
        \/ /\ live' \in {root[l], root[l] \o InFlight(l)}
           /\ holds' = "root" /\ job' = [job EXCEPT ![l] = "error"]
    BY <1>4, Zenon DEF run
  <1>7. TypeOK'
    <2>1. live' \in Texts /\ holds' \in {"other", "root", "pass"}
      BY <1>1, <1>5, <1>6, Zenon
    <2>2. job' \in [Lanes -> {"none", "posted", "done", "error"}]
      BY <1>1, <1>6, Zenon DEF TypeOK, RoundTyped
    <2>3. pending' \in [Lanes -> Texts] /\ parked' \in [Lanes -> BOOLEAN] /\ owner' \in Lanes \cup {Nobody}
      BY <1>3, TakeTyped, Zenon
    <2>4. LoopTyped' /\ RoundTyped'
      BY <1>1, <1>2, <2>2, Zenon DEF TypeOK, LoopTyped, RoundTyped
    <2>5. PoolTyped'
      BY <1>1, <1>2, <2>1, <2>3, Zenon DEF TypeOK, PoolTyped
    <2> QED
      BY <2>4, <2>5, Zenon DEF TypeOK
  <1>8. ASSUME NEW m \in Lanes, m # l
        PROVE  LaneOK(m)'
    <2>1. Keeps(m)
      BY <1>1, <1>2, <1>6, <1>8, Zenon DEF Keeps, TypeOK, RoundTyped
    <2>2. parked'[m] = (parked[m] \/ (Parks(l) /\ m = owner))
      BY <1>3, Zenon
    <2> QED
      BY <1>3, <1>8, <2>1, <2>2, TakeOther, Zenon
  <1>9. LaneOK(l)'
    <2>1. job'[l] \in {"done", "error"} /\ job'[l] # "none"
      BY <1>1, <1>6, Zenon DEF TypeOK, RoundTyped
    <2>2. BlockOK(l)'
      BY <1>1, <1>2, <2>1, Zenon DEF LaneOK, BlockOK
    <2>3. FrontierOK(l)' /\ EarlyOK(l)'
      BY <1>1, <1>2, Zenon DEF LaneOK, FrontierOK, EarlyOK, Active
    <2>4. RootOK(l)' /\ PassOK(l)'
      <3>1. CASE live' = root[l] \o InFlight(l) /\ holds' = "pass" /\ job' = [job EXCEPT ![l] = "done"]
        <4>1. RootOK(l)'
          BY <3>1, Zenon DEF RootOK
        <4>2. holds_pass_of(l)' /\ PassOf(l)' = live'
          BY <1>3, <3>1, Zenon DEF holds_pass_of, PassOf
        <4>3. pc[l] # "settled"
          BY <1>1, Zenon DEF LaneOK, BlockOK
        <4>4. Ran(l)' = InFlight(l)
          BY <1>2, <1>4, <4>3, Zenon DEF Ran
        <4>5. PassOK(l)'
          BY <1>2, <3>1, <4>2, <4>4, Zenon DEF PassOK
        <4> QED
          BY <4>1, <4>5, Zenon
      <3>2. CASE holds' = "root" /\ job' = [job EXCEPT ![l] = "error"]
        <4>1. job'[l] = "error"
          BY <1>1, <3>2, Zenon DEF TypeOK, RoundTyped
        <4>2. pc[l] # "settled"
          BY <1>1, Zenon DEF LaneOK, BlockOK
        <4> QED
          BY <1>2, <4>1, <4>2, Zenon DEF RootOK, PassOK, Passed
      <3> QED
        BY <1>6, <3>1, <3>2, Zenon
    <2> QED
      BY <2>2, <2>3, <2>4, Zenon DEF LaneOK
  <1> QED
    BY <1>7, <1>8, <1>9, Zenon DEF IInv

(* The block of a finished pass is settled: its tokens are what the pass   *)
(* ran after the head.                                                     *)
LEMMA AcceptStep ==
  ASSUME IInv, NEW l \in Lanes, settle_accept(l)
  PROVE  IInv'
  <1>1. /\ TypeOK /\ LaneOK(l) /\ pc[l] = "loop" /\ job[l] = "done" /\ rows[l] > 0
        /\ unverified[l] \in Texts /\ rows[l] \in 0..Len(unverified[l]) /\ rows[l] \in Nat
    <2>1. TypeOK /\ LaneOK(l) /\ pc[l] = "loop" /\ job[l] = "done" /\ rows[l] > 0
      BY Zenon DEF IInv, settle_accept, Goes, Settles
    <2> QED
      BY <2>1, BlockWithin, Zenon
  <1>2. UNCHANGED <<served, cancelled, verified, early, closed, head, owner, holds, live, root, pending, parked>>
    BY Zenon DEF settle_accept, loopVars, poolVars
  <1> DEFINE tokens == SubSeq(unverified[l], 1, rows[l])
             rest1 == SubSeq(unverified[l], rows[l] + 1, Len(unverified[l]))
  <1>3. tokens \in Texts /\ Len(tokens) = rows[l] /\ rest1 \in Texts
    BY <1>1, Prefixes, Suffixes, Zenon
  <1>4. /\ pc' = [pc EXCEPT ![l] = "settled"] /\ job' = [job EXCEPT ![l] = "none"]
        /\ commit' = [commit EXCEPT ![l] = [tokens |-> tokens, corrected |-> FALSE]]
        /\ unverified' = [unverified EXCEPT ![l] = rest1] /\ rows' = [rows EXCEPT ![l] = 0]
    BY Zenon DEF settle_accept
  <1>5. tokens # <<>>
    BY <1>1, <1>3, LengthOf, Zenon
  <1> HIDE DEF tokens, rest1
  <1>6. TypeOK'
    <2>1. LoopTyped'
      BY <1>1, <1>2, <1>4, Zenon DEF TypeOK, LoopTyped
    <2>2. RoundTyped'
      BY <1>1, <1>2, <1>3, <1>4, Zenon DEF TypeOK, RoundTyped
    <2>3. PoolTyped'
      BY <1>1, <1>2, Zenon DEF TypeOK, PoolTyped
    <2> QED
      BY <2>1, <2>2, <2>3, Zenon DEF TypeOK
  <1>7. ASSUME NEW m \in Lanes, m # l
        PROVE  LaneOK(m)'
    <2>1. Keeps(m)
      BY <1>1, <1>2, <1>4, <1>7, Zenon DEF Keeps, TypeOK, LoopTyped, RoundTyped
    <2> QED
      BY <1>2, <2>1, SameKept, Zenon
  <1>8. LaneOK(l)'
    <2>1. /\ pc'[l] = "settled" /\ job'[l] = "none" /\ rows'[l] = 0 /\ unverified'[l] = rest1
          /\ commit'[l].tokens = tokens /\ commit'[l].corrected = FALSE
      BY <1>1, <1>4, Zenon DEF TypeOK, LoopTyped, RoundTyped
    <2>2. BlockOK(l)'
      BY <1>3, <1>5, <2>1, LengthOf DEF BlockOK
    <2>3. RootOK(l)' /\ FrontierOK(l)' /\ EarlyOK(l)'
      BY <1>1, <1>2, <2>1, Zenon DEF LaneOK, RootOK, FrontierOK, EarlyOK, Active
    <2>4. Passed(l) /\ Ran(l) = head[l] \o tokens
      BY <1>1, Zenon DEF Passed, Active, Ran, tokens
    <2>5. Ran(l)' = Ran(l)
      BY <1>2, <2>1, <2>4, Zenon DEF Ran
    <2>6. PassOf(l)' = PassOf(l) /\ (holds_pass_of(l)' <=> holds_pass_of(l))
      BY <1>2, Zenon DEF PassOf, holds_pass_of
    <2>7. PassOK(l)'
      BY <1>1, <1>2, <2>4, <2>5, <2>6, Zenon DEF LaneOK, PassOK
    <2> QED
      BY <2>2, <2>3, <2>7, Zenon DEF LaneOK
  <1> QED
    BY <1>6, <1>7, <1>8, Zenon DEF IInv

(* What was lent to the lane is at its root again: the other lanes keep    *)
(* their passes.                                                           *)
LEMMA LeaseOthers ==
  ASSUME IInv, NEW l \in Lanes, NEW m \in Lanes, m # l, Keeps(m), owner' \in {l, Nobody},
         pending' = IF Parks(l) THEN [pending EXCEPT ![owner] = live] ELSE pending,
         parked' = Unparked(l)
  PROVE  LaneOK(m)'
  <1>1. parked'[m] = (parked[m] \/ (Parks(l) /\ m = owner))
    BY Zenon DEF Unparked
  <1> QED
    BY <1>1, TakeOther, Zenon

(* A rejected block is replaced by a corrected one and the line goes back  *)
(* to the root.                                                            *)
LEMMA CorrectStep ==
  ASSUME IInv, NEW l \in Lanes, settle_correct(l)
  PROVE  IInv'
  <1>1. /\ TypeOK /\ LaneOK(l) /\ pc[l] = "loop" /\ job[l] = "done" /\ l # Nobody
        /\ unverified[l] \in Texts /\ root[l] \in Texts
    BY ConfigAssumption, Zenon DEF IInv, settle_correct, Goes, TypeOK, RoundTyped, PoolTyped
  <1>2. UNCHANGED <<served, cancelled, verified, early, closed, head, root>>
    BY Zenon DEF settle_correct, loopVars
  <1>3. PICK i \in Rejected(l), choice \in Exact \cap Drafts :
          commit' = [commit EXCEPT ![l] =
            [tokens |-> Append(SubSeq(unverified[l], 1, i - 1), choice), corrected |-> TRUE]]
    BY Zenon DEF settle_correct
  <1> DEFINE tokens == Append(SubSeq(unverified[l], 1, i - 1), choice)
  <1>4. tokens \in Texts /\ tokens # <<>>
    <2>1. choice \in Tokens
      BY Zenon DEF Tokens
    <2>2. SubSeq(unverified[l], 1, i - 1) \in Texts
      BY <1>1, RejectedWithin, Prefixes, Zenon
    <2> QED
      BY <2>1, <2>2, OneMore, Zenon
  <1> HIDE DEF tokens
  <1>5. /\ pc' = [pc EXCEPT ![l] = "settled"] /\ job' = [job EXCEPT ![l] = "none"]
        /\ commit' = [commit EXCEPT ![l] = [tokens |-> tokens, corrected |-> TRUE]]
        /\ unverified' = [unverified EXCEPT ![l] = <<>>] /\ rows' = [rows EXCEPT ![l] = 0]
    BY <1>3, Zenon DEF settle_correct, tokens
  <1>6. /\ owner' = l /\ live' = root[l] /\ holds' = "root" /\ parked' = Unparked(l)
        /\ pending' = IF Parks(l) THEN [pending EXCEPT ![owner] = live] ELSE pending
    <2>1. AtRoot(l) = root[l]
      BY <1>1, AtTheRoot, Zenon
    <2> QED
      BY <2>1, Zenon DEF settle_correct, take
  <1>7. TypeOK'
    <2>1. LoopTyped'
      BY <1>1, <1>2, <1>5, Zenon DEF TypeOK, LoopTyped
    <2>2. RoundTyped'
      BY <1>1, <1>2, <1>4, <1>5, Nothing, Zenon DEF TypeOK, RoundTyped
    <2>3. pending' \in [Lanes -> Texts] /\ parked' \in [Lanes -> BOOLEAN]
      BY <1>6, TakeTyped, Zenon
    <2>4. PoolTyped'
      BY <1>1, <1>2, <1>6, <2>3, Zenon DEF TypeOK, PoolTyped
    <2> QED
      BY <2>1, <2>2, <2>4, Zenon DEF TypeOK
  <1>8. ASSUME NEW m \in Lanes, m # l
        PROVE  LaneOK(m)'
    <2>1. Keeps(m)
      BY <1>1, <1>2, <1>5, <1>8, Zenon DEF Keeps, TypeOK, LoopTyped, RoundTyped
    <2> QED
      BY <1>6, <1>8, <2>1, LeaseOthers, Zenon
  <1>9. LaneOK(l)'
    <2>1. /\ pc'[l] = "settled" /\ job'[l] = "none" /\ rows'[l] = 0 /\ unverified'[l] = <<>>
          /\ commit'[l].tokens = tokens /\ commit'[l].corrected = TRUE
      BY <1>1, <1>5, Zenon DEF TypeOK, LoopTyped, RoundTyped
    <2>2. BlockOK(l)'
      BY <1>4, <2>1, Nothing DEF BlockOK
    <2>3. RootOK(l)' /\ FrontierOK(l)' /\ EarlyOK(l)'
      BY <1>1, <1>2, <1>6, <2>1, Zenon DEF LaneOK, RootOK, FrontierOK, EarlyOK, Active
    <2>4. PassOK(l)'
      BY <2>1, Zenon DEF PassOK, Passed
    <2> QED
      BY <2>2, <2>3, <2>4, Zenon DEF LaneOK
  <1> QED
    BY <1>7, <1>8, <1>9, Zenon DEF IInv

(* What every commit does to the lane's own bookkeeping.                   *)
LEMMA PublishTyped ==
  ASSUME TypeOK, NEW l \in Lanes, NEW kept \in Texts, Publishes(l, kept),
         pc' \in [Lanes -> {"idle", "loop", "settled", "ending", "failed"}],
         unverified' \in [Lanes -> Texts], head' \in [Lanes -> Texts]
  PROVE  LoopTyped' /\ RoundTyped'
  <1>1. verified[l] \o kept \in Texts
    BY Joined, Zenon DEF TypeOK, LoopTyped
  <1>2. LoopTyped'
    BY <1>1, Zenon DEF TypeOK, LoopTyped, Publishes
  <1>3. commit' \in [Lanes -> [tokens : Texts, corrected : BOOLEAN]]
    BY Nothing, Zenon DEF TypeOK, RoundTyped, Publishes, NoCommit
  <1>4. closed' \in [Lanes -> BOOLEAN]
    BY Zenon DEF TypeOK, RoundTyped, Publishes
  <1>5. rows' \in [Lanes -> Nat] /\ job' \in [Lanes -> {"none", "posted", "done", "error"}]
    BY Zenon DEF TypeOK, RoundTyped, Publishes
  <1> QED
    BY <1>2, <1>3, <1>4, <1>5, Zenon DEF RoundTyped

(* A settled block is published whole: accepted, its pass becomes the      *)
(* lane's root; corrected, it becomes line head.                           *)
LEMMA CommitAllStep ==
  ASSUME IInv, NEW l \in Lanes, commit_all(l)
  PROVE  IInv'
  <1> DEFINE tokens == commit[l].tokens
  <1>1. /\ TypeOK /\ LaneOK(l) /\ pc[l] = "settled" /\ job[l] = "none" /\ rows[l] = 0 /\ l # Nobody
        /\ tokens \in Texts /\ tokens # <<>> /\ root[l] \in Texts /\ head[l] \in Texts
        /\ verified[l] \in Texts /\ commit[l].corrected \in BOOLEAN /\ unverified[l] \in Texts
        /\ early[l] \in {0, 1}
    <2>1. TypeOK /\ LaneOK(l) /\ pc[l] = "settled" /\ l # Nobody
      BY ConfigAssumption, Zenon DEF IInv, commit_all
    <2>2. job[l] = "none" /\ rows[l] = 0 /\ tokens # <<>>
      BY <2>1, Zenon DEF LaneOK, BlockOK
    <2> QED
      BY <2>1, <2>2, Zenon DEF TypeOK, LoopTyped, RoundTyped, PoolTyped
  <1>2. /\ verified' = [verified EXCEPT ![l] = verified[l] \o tokens]
        /\ early' = [early EXCEPT ![l] = 0] /\ commit' = [commit EXCEPT ![l] = NoCommit]
        /\ UNCHANGED <<served, cancelled, rows, job, unverified>>
    BY <1>1, Zenon DEF commit_all, Publishes
  <1>3. Publishes(l, tokens)
    BY Zenon DEF commit_all
  <1>4. pc' = [pc EXCEPT ![l] = "ending"] \/ pc' = [pc EXCEPT ![l] = "loop"]
    BY Zenon DEF commit_all
  <1>5. PICK to \in {"ending", "loop"} : pc' = [pc EXCEPT ![l] = to]
    BY <1>4, Zenon
  <1>6. pc' \in [Lanes -> {"idle", "loop", "settled", "ending", "failed"}]
    BY <1>1, <1>5, Zenon DEF TypeOK, LoopTyped
  <1>7. /\ root[l] \o head[l] = verified[l]
        /\ verified[l] \o tokens = root[l] \o (head[l] \o tokens)
        /\ head[l] \o tokens \in Texts /\ root[l] \o (head[l] \o tokens) \in Texts
    <2>1. root[l] \o head[l] = verified[l]
      BY <1>1, Zenon DEF LaneOK, FrontierOK, Active
    <2> HIDE DEF tokens
    <2>2. /\ (root[l] \o head[l]) \o tokens = root[l] \o (head[l] \o tokens)
          /\ head[l] \o tokens \in Texts /\ root[l] \o (head[l] \o tokens) \in Texts
      BY <1>1, Further, Zenon
    <2> QED
      BY <2>1, <2>2, Zenon
  <1> HIDE DEF tokens
  <1>8. /\ pc'[l] = to /\ job'[l] = "none" /\ rows'[l] = 0 /\ verified'[l] = verified[l] \o tokens
        /\ early'[l] = 0 /\ unverified'[l] = unverified[l]
    BY <1>1, <1>2, <1>5, Zenon DEF TypeOK, LoopTyped, RoundTyped
  <1>9. BlockOK(l)' /\ EarlyOK(l)' /\ PassOK(l)'
    <2>1. pc'[l] # "settled" /\ early'[l] # 1 /\ job'[l] # "done"
      BY <1>8
    <2>2. rows[l] <= Len(unverified[l]) /\ rows'[l] = rows[l]
      BY <1>1, <1>8, BlockWithin, Zenon
    <2>3. rows'[l] <= Len(unverified'[l])
      BY <1>8, <2>2, Zenon
    <2> QED
      BY <1>8, <2>1, <2>3, Zenon DEF BlockOK, EarlyOK, PassOK, Passed
  <1>10. CASE commit[l].corrected
    <2>1. head' = [head EXCEPT ![l] = head[l] \o tokens] /\ UNCHANGED poolVars
      BY <1>1, <1>10, Zenon DEF commit_all, tokens
    <2>2. UNCHANGED <<owner, holds, live, root, pending, parked>>
      BY <2>1, Zenon DEF poolVars
    <2>3. head' \in [Lanes -> Texts] /\ head'[l] = head[l] \o tokens
      BY <1>1, <1>7, <2>1, Zenon DEF TypeOK, RoundTyped
    <2>4. TypeOK'
      <3>1. unverified' \in [Lanes -> Texts]
        BY <1>1, <1>2, Zenon DEF TypeOK, RoundTyped
      <3>2. LoopTyped' /\ RoundTyped'
        BY <1>1, <1>3, <1>6, <2>3, <3>1, PublishTyped, Zenon
      <3>3. PoolTyped'
        BY <1>1, <2>2, Zenon DEF TypeOK, PoolTyped
      <3> QED
        BY <3>2, <3>3, Zenon DEF TypeOK
    <2>5. ASSUME NEW m \in Lanes, m # l
          PROVE  LaneOK(m)'
      <3>1. Keeps(m)
        BY <1>1, <1>2, <1>5, <2>1, <2>2, <2>5, Zenon DEF Keeps, TypeOK, LoopTyped, RoundTyped
      <3> QED
        BY <2>2, <3>1, SameKept, Zenon
    <2>6. FrontierOK(l)' /\ RootOK(l)'
      BY <1>1, <1>7, <1>8, <2>2, <2>3, Zenon DEF FrontierOK, RootOK, LaneOK
    <2> QED
      BY <1>9, <2>4, <2>5, <2>6, Zenon DEF IInv, LaneOK
  <1>11. CASE ~commit[l].corrected
    <2>1. head' = [head EXCEPT ![l] = <<>>] /\ accept_pass(l)
      BY <1>11, Zenon DEF commit_all
    <2>2. /\ holds_pass_of(l) \/ (parked[l] /\ owner # l)
          /\ PassOf(l) = root[l] \o (head[l] \o tokens)
      BY <1>1, <1>11, Zenon DEF LaneOK, PassOK, Passed, Active, Ran, tokens
    <2>3. /\ root' = [root EXCEPT ![l] = verified[l] \o tokens]
          /\ pending' = IF holds_pass_of(l) THEN pending ELSE [pending EXCEPT ![l] = root[l]]
          /\ holds' = IF holds_pass_of(l) THEN "root" ELSE holds
          /\ parked' = [parked EXCEPT ![l] = FALSE] /\ owner' = owner /\ live' = live
      BY <1>7, <2>1, <2>2, Zenon DEF accept_pass
    <2>4. head' \in [Lanes -> Texts] /\ head'[l] = <<>>
      BY <1>1, <2>1, Nothing, Zenon DEF TypeOK, RoundTyped
    <2>5. root'[l] = verified[l] \o tokens
      BY <1>1, <2>3, Zenon DEF TypeOK, PoolTyped
    <2>6. TypeOK'
      <3>1. unverified' \in [Lanes -> Texts]
        BY <1>1, <1>2, Zenon DEF TypeOK, RoundTyped
      <3>2. LoopTyped' /\ RoundTyped'
        BY <1>1, <1>3, <1>6, <2>4, <3>1, PublishTyped, Zenon
      <3>3. parked' \in [Lanes -> BOOLEAN]
        BY <1>1, <2>3, Zenon DEF TypeOK, PoolTyped
      <3>4. PoolTyped'
        BY <1>1, <1>7, <2>3, <3>3, Zenon DEF TypeOK, PoolTyped
      <3> QED
        BY <3>2, <3>4, Zenon DEF TypeOK
    <2>7. ASSUME NEW m \in Lanes, m # l
          PROVE  LaneOK(m)'
      <3>1. Keeps(m)
        BY <1>1, <1>2, <1>5, <2>1, <2>3, <2>7, Zenon DEF Keeps, TypeOK, LoopTyped, RoundTyped, PoolTyped
      <3>2. parked'[m] = parked[m]
        BY <1>1, <2>3, <2>7, Zenon DEF TypeOK, PoolTyped
      <3>3. pending'[m] = pending[m]
        BY <1>1, <2>3, <2>7, Zenon DEF TypeOK, PoolTyped
      <3>4. owner = m => holds' = holds
        BY <2>3, <2>7, ZenonT(60) DEF holds_pass_of
      <3> QED
        BY <2>3, <3>1, <3>2, <3>3, <3>4, SameKept, Zenon
    <2>8. FrontierOK(l)'
      BY <1>7, <1>8, <2>4, <2>5, Joined, <1>1 DEF FrontierOK
    <2>9. RootOK(l)'
      <3>1. CASE holds_pass_of(l)
        BY <1>7, <2>2, <2>3, <2>5, <3>1, Zenon DEF RootOK, PassOf
      <3>2. CASE ~holds_pass_of(l)
        BY <2>2, <2>3, <3>2, Zenon DEF RootOK
      <3> QED
        BY <3>1, <3>2, Zenon
    <2> QED
      BY <1>9, <2>6, <2>7, <2>8, <2>9, Zenon DEF IInv, LaneOK
  <1> QED
    BY <1>10, <1>11, Zenon

(* A block published in part: the line is saved at its kept prefix.        *)
LEMMA CommitPartStep ==
  ASSUME IInv, NEW l \in Lanes, commit_part(l)
  PROVE  IInv'
  <1>1. /\ TypeOK /\ LaneOK(l) /\ pc[l] = "settled" /\ job[l] = "none" /\ rows[l] = 0 /\ l # Nobody
        /\ root[l] \in Texts /\ head[l] \in Texts /\ verified[l] \in Texts
        /\ commit[l].tokens \in Texts /\ early[l] \in {0, 1}
    <2>1. TypeOK /\ LaneOK(l) /\ pc[l] = "settled" /\ l # Nobody
      BY ConfigAssumption, Zenon DEF IInv, commit_part
    <2>2. job[l] = "none" /\ rows[l] = 0
      BY <2>1, Zenon DEF LaneOK, BlockOK
    <2> QED
      BY <2>1, <2>2, Zenon DEF TypeOK, LoopTyped, RoundTyped, PoolTyped
  <1>2. AtRoot(l) = root[l]
    BY <1>1, AtTheRoot, Zenon
  <1>3. PICK n \in early[l]..(Len(commit[l].tokens) - 1) :
          /\ Publishes(l, SubSeq(commit[l].tokens, 1, n))
          /\ live' = AtRoot(l) \o head[l] \o SubSeq(commit[l].tokens, 1, n)
          /\ root' = [root EXCEPT ![l] = live']
    BY Zenon DEF commit_part
  <1> DEFINE kept == SubSeq(commit[l].tokens, 1, n)
  <1>4. kept \in Texts
    <2>1. Len(commit[l].tokens) \in Nat
      BY <1>1, LengthOf, Zenon
    <2>2. n \in 0..Len(commit[l].tokens)
      BY <1>1, <2>1, ProperPart, Zenon
    <2> QED
      BY <1>1, <2>2, Prefixes, Zenon
  <1>5. Publishes(l, kept) /\ live' = root[l] \o head[l] \o kept /\ root' = [root EXCEPT ![l] = live']
    BY <1>2, <1>3, Zenon
  <1> HIDE DEF kept
  <1>6. live' = verified[l] \o kept /\ live' \in Texts
    <2>1. root[l] \o head[l] = verified[l]
      BY <1>1, Zenon DEF LaneOK, FrontierOK, Active
    <2> QED
      BY <1>1, <1>4, <1>5, <2>1, Joined, Zenon
  <1>7. /\ pc' = [pc EXCEPT ![l] = "ending"] /\ unverified' = [unverified EXCEPT ![l] = <<>>]
        /\ head' = [head EXCEPT ![l] = <<>>] /\ owner' = l /\ holds' = "root" /\ parked' = Unparked(l)
        /\ pending' = IF Parks(l) THEN [pending EXCEPT ![owner] = live] ELSE pending
    BY Zenon DEF commit_part, take
  <1>8. /\ verified' = [verified EXCEPT ![l] = verified[l] \o kept]
        /\ early' = [early EXCEPT ![l] = 0] /\ commit' = [commit EXCEPT ![l] = NoCommit]
        /\ UNCHANGED <<served, cancelled, rows, job>>
    BY <1>1, <1>5, Zenon DEF Publishes
  <1>9. TypeOK'
    <2>1. /\ pc' \in [Lanes -> {"idle", "loop", "settled", "ending", "failed"}]
          /\ unverified' \in [Lanes -> Texts] /\ head' \in [Lanes -> Texts]
      BY <1>1, <1>7, Nothing, Zenon DEF TypeOK, LoopTyped, RoundTyped
    <2>2. LoopTyped' /\ RoundTyped'
      BY <1>1, <1>4, <1>5, <2>1, PublishTyped, Zenon
    <2>3. pending' \in [Lanes -> Texts] /\ parked' \in [Lanes -> BOOLEAN]
      BY <1>7, TakeTyped, Zenon
    <2>4. PoolTyped'
      BY <1>1, <1>5, <1>6, <1>7, <2>3, Zenon DEF TypeOK, PoolTyped
    <2> QED
      BY <2>2, <2>4, Zenon DEF TypeOK
  <1>10. ASSUME NEW m \in Lanes, m # l
         PROVE  LaneOK(m)'
    <2>1. Keeps(m)
      BY <1>1, <1>5, <1>7, <1>8, <1>10, Zenon DEF Keeps, TypeOK, LoopTyped, RoundTyped, PoolTyped
    <2> QED
      BY <1>7, <1>10, <2>1, LeaseOthers, Zenon
  <1>11. LaneOK(l)'
    <2>1. /\ pc'[l] = "ending" /\ job'[l] = "none" /\ rows'[l] = 0 /\ unverified'[l] = <<>>
          /\ head'[l] = <<>> /\ early'[l] = 0 /\ verified'[l] = live' /\ root'[l] = live'
      BY <1>1, <1>5, <1>6, <1>7, <1>8, Zenon DEF TypeOK, LoopTyped, RoundTyped, PoolTyped
    <2>2. pc'[l] # "settled" /\ early'[l] # 1 /\ job'[l] # "done" /\ rows'[l] <= Len(unverified'[l])
      BY <2>1, Nothing
    <2>3. BlockOK(l)' /\ EarlyOK(l)' /\ PassOK(l)' /\ RootOK(l)'
      BY <2>1, <2>2, Zenon DEF BlockOK, EarlyOK, PassOK, Passed, RootOK
    <2>4. FrontierOK(l)'
      BY <1>6, <2>1, Joined, Nothing, Zenon DEF FrontierOK
    <2> QED
      BY <2>3, <2>4, Zenon DEF LaneOK
  <1> QED
    BY <1>9, <1>10, <1>11, Zenon DEF IInv

(* A request ends and hands the line over.                                 *)
LEMMA EndStep ==
  ASSUME IInv, NEW l \in Lanes, end_async(l)
  PROVE  IInv' /\ live' = verified[l]
  <1>1. /\ TypeOK /\ LaneOK(l) /\ Active(l) /\ job[l] # "error" /\ l # Nobody
        /\ root[l] \in Texts /\ head[l] \in Texts
    BY ConfigAssumption, Zenon DEF IInv, end_async, Over, Active, TypeOK, PoolTyped, RoundTyped
  <1>2. live' = verified[l] /\ live' \in Texts
    <2>1. AtRoot(l) = root[l] /\ root[l] \o head[l] = verified[l]
      BY <1>1, AtTheRoot, Zenon DEF LaneOK, FrontierOK
    <2> QED
      BY <1>1, <2>1, Zenon DEF end_async, TypeOK, LoopTyped
  <1>3. /\ pc' = [pc EXCEPT ![l] = "idle"] /\ unverified' = [unverified EXCEPT ![l] = <<>>]
        /\ rows' = [rows EXCEPT ![l] = 0] /\ job' = [job EXCEPT ![l] = "none"]
        /\ head' = [head EXCEPT ![l] = <<>>] /\ owner' = Nobody /\ holds' = "other" /\ parked' = Unparked(l)
        /\ pending' = IF Parks(l) THEN [pending EXCEPT ![owner] = live] ELSE pending
        /\ UNCHANGED <<served, cancelled, verified, early, closed, commit, root>>
    BY Zenon DEF end_async, loopVars
  <1>4. TypeOK'
    <2>1. LoopTyped'
      BY <1>1, <1>3, Zenon DEF TypeOK, LoopTyped
    <2>2. RoundTyped'
      BY <1>1, <1>3, Nothing, Zenon DEF TypeOK, RoundTyped
    <2>3. pending' \in [Lanes -> Texts] /\ parked' \in [Lanes -> BOOLEAN]
      BY <1>3, TakeTyped, Zenon
    <2>4. PoolTyped'
      BY <1>1, <1>2, <1>3, <2>3, Zenon DEF TypeOK, PoolTyped
    <2> QED
      BY <2>1, <2>2, <2>4, Zenon DEF TypeOK
  <1>5. ASSUME NEW m \in Lanes, m # l
        PROVE  LaneOK(m)'
    <2>1. Keeps(m)
      BY <1>1, <1>3, <1>5, Zenon DEF Keeps, TypeOK, LoopTyped, RoundTyped
    <2> QED
      BY <1>3, <1>5, <2>1, LeaseOthers, Zenon
  <1>6. LaneOK(l)'
    <2>1. pc'[l] = "idle" /\ job'[l] = "none" /\ rows'[l] = 0 /\ unverified'[l] = <<>>
      BY <1>1, <1>3, Zenon DEF TypeOK, LoopTyped, RoundTyped
    <2>2. BlockOK(l)'
      BY <2>1, Nothing DEF BlockOK
    <2>3. RootOK(l)'
      BY <1>1, <1>3, Zenon DEF RootOK
    <2>4. ~Active(l)'
      BY <2>1, Zenon DEF Active
    <2> QED
      BY <2>2, <2>3, <2>4, Zenon DEF LaneOK, PassOK, Passed, FrontierOK, EarlyOK
  <1> QED
    BY <1>2, <1>4, <1>5, <1>6, Zenon DEF IInv

(* Every step of every lane and of the workers keeps the invariant.        *)
LEMMA Inductive ==
  IInv /\ [Next]_vars => IInv'
  <1> SUFFICES ASSUME IInv, [Next]_vars
               PROVE  IInv'
    BY Zenon
  <1>1. CASE UNCHANGED vars
    <2>1. UNCHANGED <<pc, served, cancelled, verified, early, unverified, closed, rows, job, head, commit,
                      owner, holds, live, root, pending, parked>>
      BY <1>1, Zenon DEF vars, loopVars, roundVars, poolVars
    <2>2. TypeOK'
      BY <2>1, Zenon DEF IInv, TypeOK, LoopTyped, RoundTyped, PoolTyped
    <2>3. ASSUME NEW m \in Lanes
          PROVE  LaneOK(m)'
      BY <2>1, SameKept, Zenon DEF Keeps
    <2> QED
      BY <2>2, <2>3, Zenon DEF IInv
  <1>2. ASSUME NEW l \in Lanes, LaneStep(l) \/ run(l) \/ cancel(l)
        PROVE  IInv'
    <2>1. CASE begin(l)
      BY <2>1, BeginStep, Zenon
    <2>2. CASE draft(l)
      BY <2>2, DraftStep, Zenon
    <2>3. CASE launch_async(l)
      BY <2>3, LaunchStep, Zenon
    <2>4. CASE settle_accept(l)
      BY <2>4, AcceptStep, Zenon
    <2>5. CASE settle_correct(l)
      BY <2>5, CorrectStep, Zenon
    <2>6. CASE settle_fail(l) \/ end_closed(l) \/ end_fail(l)
      BY <2>6, FailStep, Zenon DEF settle_fail, end_closed, end_fail
    <2>7. CASE commit_all(l)
      BY <2>7, CommitAllStep, Zenon
    <2>8. CASE commit_part(l)
      BY <2>8, CommitPartStep, Zenon
    <2>9. CASE end_async(l)
      BY <2>9, EndStep, Zenon
    <2>10. CASE run(l)
      BY <2>10, RunStep, Zenon
    <2>11. CASE cancel(l)
      BY <2>11, CancelStep, Zenon
    <2> QED
      BY <1>2, <2>1, <2>2, <2>3, <2>4, <2>5, <2>6, <2>7, <2>8, <2>9, <2>10, <2>11, Zenon DEF LaneStep
  <1> QED
    BY <1>1, <1>2, Zenon DEF Next, rest

-----------------------------------------------------------------------------
(* The line and its slots.                                                 *)

(* The invariant holds in every reachable state.                           *)
LEMMA Always ==
  Spec => []IInv
  BY InitOK, Inductive, PTL DEF Spec

(* The line a lane resumes, after any exchange with its peers, is its own: *)
(* root slot and line head are what has been committed.                    *)
THEOREM ResumesItsLine ==
  Spec => []LineFrontier
  <1>1. IInv => LineFrontier
    BY Zenon DEF IInv, LaneOK, FrontierOK, LineFrontier
  <1> QED
    BY <1>1, Always, PTL

(* A finished pass is on the line or parked in its lane's slot until its   *)
(* block is committed, and holds exactly the head and the block.           *)
THEOREM PassSurvives ==
  Spec => []PassKept
  <1>1. ASSUME IInv
        PROVE  PassKept
    <2> SUFFICES ASSUME NEW l \in Lanes, Passed(l)
                 PROVE  /\ holds_pass_of(l) \/ parked[l]
                        /\ PassOf(l) = root[l] \o (IF pc[l] = "settled" THEN head[l] \o commit[l].tokens
                                                   ELSE InFlight(l))
      BY Zenon DEF PassKept, Passed
    <2>1. Ran(l) = IF pc[l] = "settled" THEN head[l] \o commit[l].tokens ELSE InFlight(l)
      BY Zenon DEF Ran, InFlight
    <2> QED
      BY <1>1, <2>1, Zenon DEF IInv, LaneOK, PassOK
  <1> QED
    BY <1>1, Always, PTL

(* A step of one lane leaves the others' requests alone.                   *)
LEMMA OthersKeep ==
  ASSUME IInv, NEW l \in Lanes, LaneStep(l) \/ run(l) \/ cancel(l), NEW m \in Lanes, m # l
  PROVE  Keeps(m)
  <1>1. LoopTyped /\ RoundTyped /\ PoolTyped
    BY Zenon DEF IInv, TypeOK
  <1> USE <1>1 DEF LoopTyped, RoundTyped, PoolTyped, Keeps
  <1>2. CASE begin(l)
    BY <1>2, Zenon DEF begin
  <1>3. CASE draft(l)
    <2>1. /\ UNCHANGED <<pc, verified, rows, job, head, commit, root>>
          /\ \E t : unverified' = [unverified EXCEPT ![l] = @ \o t]
          /\ \/ UNCHANGED early
             \/ \E n : early' = [early EXCEPT ![l] = n]
      BY <1>3, Zenon DEF draft, poolVars
    <2> QED
      BY <2>1, Zenon
  <1>4. CASE launch_async(l)
    BY <1>4, Zenon DEF launch_async, loopVars, poolVars
  <1>5. CASE settle_accept(l)
    BY <1>5, ZenonT(60) DEF settle_accept, loopVars, poolVars
  <1>6. CASE settle_correct(l)
    <2>1. PICK block : commit' = [commit EXCEPT ![l] = block]
      BY <1>6, Zenon DEF settle_correct
    <2> QED
      BY <1>6, <2>1 DEF settle_correct, loopVars
  <1>7. CASE settle_fail(l) \/ end_closed(l) \/ end_fail(l)
    BY <1>7, Zenon DEF settle_fail, end_closed, end_fail, Fail, roundVars, poolVars
  <1>8. CASE commit_all(l)
    <2>1. Publishes(l, commit[l].tokens) /\ unverified' = unverified
      BY <1>8, Zenon DEF commit_all
    <2>2. pc'[m] = pc[m] /\ head'[m] = head[m]
      BY <1>8 DEF commit_all
    <2>3. root'[m] = root[m]
      BY <1>8 DEF commit_all, accept_pass, poolVars
    <2> QED
      BY <2>1, <2>2, <2>3, Zenon DEF Publishes
  <1>9. CASE commit_part(l)
    <2>1. PICK kept : Publishes(l, kept) /\ root' = [root EXCEPT ![l] = live']
      BY <1>9, Zenon DEF commit_part
    <2>2. pc'[m] = pc[m] /\ head'[m] = head[m] /\ unverified'[m] = unverified[m]
      BY <1>9, Zenon DEF commit_part
    <2>3. root'[m] = root[m]
      BY <2>1, Zenon
    <2> QED
      BY <2>1, <2>2, <2>3, Zenon DEF Publishes
  <1>10. CASE end_async(l)
    BY <1>10, Zenon DEF end_async, loopVars
  <1>11. CASE run(l)
    <2>1. (\E x : job' = [job EXCEPT ![l] = x]) /\ UNCHANGED <<pc, loopVars, unverified, rows, head, commit, root>>
      BY <1>11, Zenon DEF run
    <2> QED
      BY <2>1, Zenon DEF loopVars
  <1>12. CASE cancel(l)
    BY <1>12, Zenon DEF cancel, roundVars, poolVars
  <1> QED
    BY <1>2, <1>3, <1>4, <1>5, <1>6, <1>7, <1>8, <1>9, <1>10, <1>11, <1>12, Zenon DEF LaneStep

(* The state a request leaves is the exact one at its committed tokens.    *)
THEOREM HandsOver ==
  Spec => HandsOverExact
  <1>1. ASSUME IInv, [Next]_vars, NEW l \in Lanes, pc[l] # "idle", pc'[l] = "idle"
        PROVE  live' = verified[l]
    <2>1. PICK k \in Lanes : LaneStep(k) \/ run(k) \/ cancel(k)
      BY <1>1, Zenon DEF Next, rest, vars
    <2>2. k = l
      BY <1>1, <2>1, OthersKeep, Zenon DEF Keeps
    <2>3. pc \in [Lanes -> {"idle", "loop", "settled", "ending", "failed"}]
      BY <1>1, Zenon DEF IInv, TypeOK, LoopTyped
    <2>4. CASE end_async(l)
      BY <1>1, <2>4, EndStep, Zenon
    <2>5. CASE begin(l)
      BY <1>1, <2>5, Zenon DEF begin
    <2>6. CASE settle_accept(l) \/ settle_correct(l) \/ commit_part(l)
      BY <1>1, <2>3, <2>6, Zenon DEF settle_accept, settle_correct, commit_part
    <2>7. CASE commit_all(l)
      BY <1>1, <2>3, <2>7, Zenon DEF commit_all
    <2>8. CASE settle_fail(l) \/ end_closed(l) \/ end_fail(l)
      BY <1>1, <2>3, <2>8, Zenon DEF settle_fail, end_closed, end_fail, Fail
    <2>9. CASE draft(l) \/ launch_async(l) \/ run(l) \/ cancel(l)
      BY <1>1, <2>9, Zenon DEF draft, launch_async, run, cancel
    <2> QED
      BY <2>1, <2>2, <2>4, <2>5, <2>6, <2>7, <2>8, <2>9, Zenon DEF LaneStep
  <1>2. IInv /\ [Next]_vars =>
          [\A l \in Lanes : (pc[l] # "idle" /\ pc'[l] = "idle") => live' = verified[l]]_vars
    BY <1>1, Zenon
  <1> QED
    BY <1>2, Always, PTL DEF Spec, HandsOverExact

-----------------------------------------------------------------------------
(* What the client has.                                                    *)

(* The first token not committed yet.                                      *)
First(l) == IF pc[l] = "settled" THEN commit[l].tokens[1] ELSE unverified[l][1]

(* A sequence of one token.                                                *)
LEMMA OneToken ==
  ASSUME NEW a \in Texts, Len(a) = 1
  PROVE  a = <<a[1]>>
  BY DEF Texts

(* The first token of a sequence, and of its prefixes.                     *)
LEMMA FirstOf ==
  ASSUME NEW a \in Texts, a # <<>>
  PROVE  /\ Len(a) \in Nat /\ Len(a) > 0 /\ a[1] \in Tokens
         /\ SubSeq(a, 1, 1) = <<a[1]>> /\ <<>> \o <<a[1]>> = <<a[1]>>
         /\ \A n \in 1..Len(a) : SubSeq(a, 1, n)[1] = a[1]
  <1>1. Len(a) \in Nat /\ Len(a) > 0 /\ a[1] \in Tokens
    BY DEF Texts
  <1>2. SubSeq(a, 1, 1) = <<a[1]>>
    <2>1. SubSeq(a, 1, 1) \in Texts /\ Len(SubSeq(a, 1, 1)) = 1 /\ SubSeq(a, 1, 1)[1] = a[1]
      BY <1>1 DEF Texts
    <2> QED
      BY <2>1, OneToken, Zenon
  <1>3. <<>> \o <<a[1]>> = <<a[1]>>
    BY <1>1
  <1>4. \A n \in 1..Len(a) : SubSeq(a, 1, n)[1] = a[1]
    BY <1>1 DEF Texts
  <1> QED
    BY <1>1, <1>2, <1>3, <1>4, Zenon

(* A sequence begins with itself, with its first element, and with what    *)
(* more was joined to.                                                     *)
LEMMA BeginsWith ==
  ASSUME NEW a \in Texts, NEW b \in Texts
  PROVE  /\ IsPrefix(a, a) /\ IsPrefix(a, a \o b) /\ IsPrefix(<<>>, a)
         /\ b # <<>> => IsPrefix(<<b[1]>>, b)
  <1>1. IsPrefix(a, a) /\ IsPrefix(a, a \o b)
    BY DEF Texts, IsPrefix
  <1>2. IsPrefix(<<>>, a)
    BY DEF Texts, IsPrefix
  <1>3. ASSUME b # <<>>
        PROVE  IsPrefix(<<b[1]>>, b)
    <2>1. Len(b) \in Nat /\ Len(b) > 0 /\ Len(<<b[1]>>) = 1
      BY <1>3, LengthOf, Zenon
    <2> QED
      BY <1>3, <2>1, FirstOf DEF IsPrefix
  <1> QED
    BY <1>1, <1>2, <1>3, Zenon

(* The client has the committed tokens, or the early one.                  *)
LEMMA PublishedIs ==
  ASSUME IInv, NEW l \in Lanes, Active(l)
  PROVE  /\ early[l] # 1 => Published(l) = verified[l]
         /\ early[l] = 1 => /\ Published(l) = <<First(l)>> /\ verified[l] = <<>>
                            /\ First(l) \in Tokens
  <1>1. /\ early[l] \in {0, 1} /\ unverified[l] \in Texts /\ commit[l].tokens \in Texts
        /\ BlockOK(l) /\ EarlyOK(l)
    BY Zenon DEF IInv, TypeOK, LoopTyped, RoundTyped, LaneOK
  <1>2. ASSUME early[l] # 1
        PROVE  Published(l) = verified[l]
    BY <1>1, <1>2, Zenon DEF Published
  <1>3. ASSUME early[l] = 1
        PROVE  /\ Published(l) = <<First(l)>> /\ verified[l] = <<>>
               /\ First(l) \in Tokens
    <2>1. verified[l] = <<>> /\ pc[l] # "ending" /\ (pc[l] = "loop" => unverified[l] # <<>>)
      BY <1>1, <1>3, Zenon DEF EarlyOK
    <2>2. CASE pc[l] = "settled"
      <3>1. commit[l].tokens # <<>>
        BY <1>1, <2>2, Zenon DEF BlockOK
      <3>2. commit[l].tokens[1] \in Tokens /\ <<>> \o <<commit[l].tokens[1]>> = <<commit[l].tokens[1]>>
        BY <1>1, <3>1, FirstOf, Zenon
      <3> QED
        BY <1>3, <2>1, <2>2, <3>2 DEF Published, First
    <2>3. CASE pc[l] = "loop"
      <3>1. unverified[l] # <<>>
        BY <2>1, <2>3, Zenon
      <3>2. /\ unverified[l][1] \in Tokens /\ SubSeq(unverified[l], 1, 1) = <<unverified[l][1]>>
            /\ <<>> \o <<unverified[l][1]>> = <<unverified[l][1]>>
        BY <1>1, <3>1, FirstOf, Zenon
      <3> QED
        BY <1>3, <2>1, <2>3, <3>2 DEF Published, First
    <2> QED
      BY <2>1, <2>2, <2>3, Zenon DEF Active
  <1> QED
    BY <1>2, <1>3, Zenon

(* A step that commits nothing and leaves the early token where it is      *)
(* takes nothing back.                                                     *)
LEMMA NothingCommitted ==
  ASSUME IInv, IInv', NEW l \in Lanes, Active(l), Active(l)', verified'[l] = verified[l],
         early[l] = 1 => early'[l] = 1 /\ First(l)' = First(l)
  PROVE  IsPrefix(Published(l), Published(l)')
  <1>1. /\ early'[l] # 1 => Published(l)' = verified'[l]
        /\ early'[l] = 1 => Published(l)' = <<First(l)'>> /\ verified'[l] = <<>> /\ First(l)' \in Tokens
    <2>1. IInv /\ Active(l) => /\ early[l] # 1 => Published(l) = verified[l]
                               /\ early[l] = 1 => /\ Published(l) = <<First(l)>> /\ verified[l] = <<>>
                                                  /\ First(l) \in Tokens
      BY PublishedIs, Zenon
    <2>2. (IInv /\ Active(l) => /\ early[l] # 1 => Published(l) = verified[l]
                                /\ early[l] = 1 => /\ Published(l) = <<First(l)>> /\ verified[l] = <<>>
                                                   /\ First(l) \in Tokens)'
      BY PublishedIs, PTL
    <2> QED
      BY <2>2, Zenon
  <1>2. verified[l] \in Texts
    BY Zenon DEF IInv, TypeOK, LoopTyped
  <1>3. CASE early[l] = 1
    <2>1. Published(l) = <<First(l)>> /\ Published(l)' = <<First(l)>> /\ First(l) \in Tokens
      BY <1>1, <1>3, PublishedIs, Zenon
    <2>2. <<First(l)>> \in Texts
      BY <2>1 DEF Texts
    <2> QED
      BY <2>1, <2>2, BeginsWith, Zenon
  <1>4. CASE early[l] # 1
    <2>1. Published(l) = verified[l]
      BY <1>4, PublishedIs, Zenon
    <2>2. CASE early'[l] = 1
      <3>1. Published(l) = <<>> /\ Published(l)' = <<First(l)'>> /\ <<First(l)'>> \in Texts
        BY <1>1, <2>1, <2>2 DEF Texts
      <3> QED
        BY <3>1, BeginsWith, Zenon
    <2>3. CASE early'[l] # 1
      BY <1>1, <1>2, <2>1, <2>3, BeginsWith, Zenon
    <2> QED
      BY <2>2, <2>3, Zenon
  <1> QED
    BY <1>3, <1>4, Zenon

(* A commit only adds, if it keeps the early token.                        *)
LEMMA Committed ==
  ASSUME IInv, IInv', NEW l \in Lanes, Active(l), Active(l)', pc[l] = "settled",
         NEW kept \in Texts, Publishes(l, kept),
         early[l] = 1 => kept # <<>> /\ kept[1] = commit[l].tokens[1]
  PROVE  IsPrefix(Published(l), Published(l)')
  <1>1. verified[l] \in Texts /\ early \in [Lanes -> {0, 1}] /\ verified \in [Lanes -> Texts]
    BY Zenon DEF IInv, TypeOK, LoopTyped
  <1>2. early'[l] = 0 /\ verified'[l] = verified[l] \o kept
    BY <1>1, Zenon DEF Publishes
  <1>3. Published(l)' = verified[l] \o kept
    BY <1>2, Zenon DEF Published
  <1>4. CASE early[l] = 1
    <2>1. Published(l) = <<kept[1]>> /\ verified[l] = <<>>
      BY <1>4, PublishedIs, Zenon DEF First
    <2>2. Published(l)' = kept
      BY <1>3, <2>1, Nothing, Zenon
    <2> QED
      BY <1>4, <2>1, <2>2, BeginsWith, Zenon
  <1>5. CASE early[l] # 1
    <2>1. Published(l) = verified[l]
      BY <1>5, PublishedIs, Zenon
    <2> QED
      BY <1>1, <1>3, <2>1, BeginsWith, Zenon
  <1> QED
    BY <1>4, <1>5, Zenon

(* A lane's own step takes nothing back.                                   *)
LEMMA OwnStep ==
  ASSUME IInv, IInv', NEW l \in Lanes, LaneStep(l) \/ run(l) \/ cancel(l), Active(l), Active(l)'
  PROVE  IsPrefix(Published(l), Published(l)')
  <1>1. /\ LoopTyped /\ RoundTyped /\ unverified[l] \in Texts /\ commit[l].tokens \in Texts
        /\ early[l] \in {0, 1} /\ BlockOK(l) /\ EarlyOK(l)
    BY Zenon DEF IInv, LaneOK, TypeOK, LoopTyped, RoundTyped
  <1>2. pc[l] \notin {"idle", "failed"} /\ pc'[l] \notin {"idle", "failed"}
    BY Zenon DEF Active
  <1>3. CASE begin(l)
    BY <1>2, <1>3, Zenon DEF begin
  <1>4. CASE settle_fail(l) \/ end_closed(l) \/ end_fail(l)
    BY <1>1, <1>2, <1>4, Zenon DEF settle_fail, end_closed, end_fail, Fail, LoopTyped
  <1>5. CASE end_async(l)
    BY <1>1, <1>2, <1>5, Zenon DEF end_async, LoopTyped
  <1>6. CASE launch_async(l) \/ run(l) \/ cancel(l)
    <2>1. UNCHANGED <<pc, verified, early, unverified, commit>>
      BY <1>6, Zenon DEF launch_async, run, cancel, loopVars, roundVars
    <2>2. First(l)' = First(l)
      BY <2>1, Zenon DEF First
    <2> QED
      BY <2>1, <2>2, NothingCommitted, Zenon
  <1>7. CASE draft(l)
    <2>1. pc[l] = "loop" /\ UNCHANGED <<pc, verified>>
      BY <1>7, Zenon DEF draft, Goes
    <2>2. ASSUME early[l] = 1
          PROVE  early'[l] = 1 /\ First(l)' = First(l)
      <3>1. unverified[l] # <<>>
        BY <1>1, <2>1, <2>2, Zenon DEF EarlyOK
      <3>2. PICK t \in RoundTokens(l) : unverified' = [unverified EXCEPT ![l] = unverified[l] \o t]
        BY <1>7, Zenon DEF draft
      <3>3. early' = early
        BY <1>7, <3>1, Zenon DEF draft
      <3>4. t \in Texts
        BY RoundTyped1, Zenon
      <3>5. unverified'[l][1] = unverified[l][1]
        <4>1. (unverified[l] \o t)[1] = unverified[l][1]
          BY <1>1, <3>1, <3>4, FirstOf, Joined
        <4> QED
          BY <1>1, <3>2, <4>1, Zenon DEF RoundTyped
      <3> QED
        BY <2>1, <2>2, <3>3, <3>5, Zenon DEF First
    <2> QED
      BY <2>1, <2>2, NothingCommitted, Zenon
  <1>8. CASE settle_accept(l)
    <2>1. pc[l] = "loop" /\ UNCHANGED <<verified, early>> /\ rows[l] > 0
      BY <1>8, Zenon DEF settle_accept, Goes, Settles, loopVars
    <2>2. pc'[l] = "settled" /\ commit'[l].tokens = SubSeq(unverified[l], 1, rows[l])
      BY <1>1, <1>8, Zenon DEF settle_accept, LoopTyped, RoundTyped
    <2>3. unverified[l] # <<>> /\ rows[l] \in 1..Len(unverified[l])
      BY <2>1, BlockWithin, Zenon
    <2>4. SubSeq(unverified[l], 1, rows[l])[1] = unverified[l][1]
      BY <1>1, <2>3, FirstOf, Zenon
    <2> QED
      BY <2>1, <2>2, <2>4, NothingCommitted, Zenon DEF First
  <1>9. CASE settle_correct(l)
    <2>1. pc[l] = "loop" /\ UNCHANGED <<verified, early>>
      BY <1>9, Zenon DEF settle_correct, Goes, loopVars
    <2>2. PICK i \in Rejected(l), choice \in Exact \cap Drafts :
            commit' = [commit EXCEPT ![l] =
              [tokens |-> Append(SubSeq(unverified[l], 1, i - 1), choice), corrected |-> TRUE]]
      BY <1>9, Zenon DEF settle_correct
    <2>3. pc'[l] = "settled" /\ commit'[l].tokens = Append(SubSeq(unverified[l], 1, i - 1), choice)
      BY <1>1, <1>9, <2>2, Zenon DEF settle_correct, LoopTyped, RoundTyped
    <2>4. ASSUME early[l] = 1
          PROVE  First(l)' = First(l)
      <3>1. head[l] = <<>> /\ choice \in Tokens
        BY <1>1, <2>4, Zenon DEF EarlyOK, Tokens
      <3>2. i - 1 \in 1..Len(unverified[l]) /\ i - 1 \in 0..Len(unverified[l]) /\ unverified[l] # <<>>
        BY <3>1, RejectedWithin, Zenon
      <3>3. /\ SubSeq(unverified[l], 1, i - 1) \in Texts /\ Len(SubSeq(unverified[l], 1, i - 1)) = i - 1
            /\ SubSeq(unverified[l], 1, i - 1)[1] = unverified[l][1]
        BY <1>1, <3>2, FirstOf, Prefixes, Zenon
      <3>4. 1 \in 1..Len(SubSeq(unverified[l], 1, i - 1))
        BY <1>1, <3>2, <3>3, LengthOf
      <3>5. Append(SubSeq(unverified[l], 1, i - 1), choice)[1] = SubSeq(unverified[l], 1, i - 1)[1]
        BY <3>1, <3>3, <3>4, OneMore, Zenon
      <3> QED
        BY <2>1, <2>3, <3>3, <3>5, Zenon DEF First
    <2> QED
      BY <2>1, <2>4, NothingCommitted, Zenon
  <1>10. CASE commit_all(l)
    <2>1. pc[l] = "settled" /\ Publishes(l, commit[l].tokens)
      BY <1>10, Zenon DEF commit_all
    <2> QED
      BY <1>1, <2>1, Committed, Zenon DEF BlockOK
  <1>11. CASE commit_part(l)
    <2>1. pc[l] = "settled"
      BY <1>11, Zenon DEF commit_part
    <2>2. PICK n \in early[l]..(Len(commit[l].tokens) - 1) :
            Publishes(l, SubSeq(commit[l].tokens, 1, n))
      BY <1>11, Zenon DEF commit_part
    <2>3. commit[l].tokens # <<>> /\ Len(commit[l].tokens) \in Nat
      BY <1>1, <2>1, LengthOf, Zenon DEF BlockOK
    <2>4. n \in 0..Len(commit[l].tokens) /\ (early[l] = 1 => n \in 1..Len(commit[l].tokens))
      BY <1>1, <2>3, ProperPart, Zenon
    <2>5. SubSeq(commit[l].tokens, 1, n) \in Texts /\ Len(SubSeq(commit[l].tokens, 1, n)) = n
      BY <1>1, <2>4, Prefixes, Zenon
    <2>6. ASSUME early[l] = 1
          PROVE  /\ SubSeq(commit[l].tokens, 1, n) # <<>>
                 /\ SubSeq(commit[l].tokens, 1, n)[1] = commit[l].tokens[1]
      BY <1>1, <2>3, <2>4, <2>5, <2>6, FirstOf, LengthOf
    <2> QED
      BY <2>1, <2>2, <2>5, <2>6, Committed, Zenon
  <1> QED
    BY <1>3, <1>4, <1>5, <1>6, <1>7, <1>8, <1>9, <1>10, <1>11, Zenon DEF LaneStep

(* A published token is never taken back or replaced while its request     *)
(* runs.                                                                   *)
THEOREM NothingTakenBack ==
  Spec => PublishedNeverRetracted
  <1>1. ASSUME IInv, IInv', [Next]_vars, NEW l \in Lanes, Active(l), Active(l)', ~UNCHANGED vars
        PROVE  IsPrefix(Published(l), Published(l)')
    <2>1. PICK k \in Lanes : LaneStep(k) \/ run(k) \/ cancel(k)
      BY <1>1, Zenon DEF Next, rest
    <2>2. CASE k = l
      BY <1>1, <2>1, <2>2, OwnStep, Zenon
    <2>3. CASE k # l
      <3>1. Keeps(l)
        BY <1>1, <2>1, <2>3, OthersKeep, Zenon
      <3>2. First(l)' = First(l)
        BY <3>1, Zenon DEF Keeps, First
      <3> QED
        BY <1>1, <3>1, <3>2, NothingCommitted, Zenon DEF Keeps
    <2> QED
      BY <2>2, <2>3, Zenon
  <1>2. IInv /\ IInv' /\ [Next]_vars =>
          [\A l \in Lanes : (Active(l) /\ Active(l)') => IsPrefix(Published(l), Published(l)')]_vars
    BY <1>1, Zenon
  <1> QED
    BY <1>2, Always, PTL DEF Spec, PublishedNeverRetracted

-----------------------------------------------------------------------------
(* Only verified tokens are published while the lead lasts.                *)

Clean(s) == \A i \in 1..Len(s) : s[i] \notin Beyond

(* What is committed or settled passed the exact scores; so did the first  *)
(* drafted token when no head is there to check it.                        *)
CheckedOK(l) ==
    /\ Clean(verified[l])
    /\ Active(l) =>
        /\ pc[l] = "loop" => Len(verified[l]) + Len(unverified[l]) <= Budget
        /\ pc[l] = "settled" =>
            /\ Clean(commit[l].tokens)
            /\ Len(verified[l]) + Len(commit[l].tokens) + Len(unverified[l]) <= Budget
        /\ (pc[l] = "loop" /\ head[l] = <<>>) =>
            IF unverified[l] = <<>> THEN verified[l] = <<>> ELSE unverified[l][1] \notin Beyond
        /\ (pc[l] = "settled" /\ ~commit[l].corrected) =>
            IF unverified[l] = <<>> THEN Finishes(l, commit[l].tokens)
            ELSE unverified[l][1] \notin Beyond

Checked == \A l \in Lanes : CheckedOK(l)

(* Sequences of tokens that are not beyond the tolerance.                  *)
LEMMA CleanJoined ==
  ASSUME NEW a \in Texts, NEW b \in Texts, Clean(a), Clean(b)
  PROVE  Clean(a \o b)
  <1> SUFFICES ASSUME NEW i \in 1..Len(a \o b)
               PROVE  (a \o b)[i] \notin Beyond
    BY Zenon DEF Clean
  <1>1. Len(a) \in Nat /\ Len(b) \in Nat /\ Len(a \o b) = Len(a) + Len(b)
    BY LengthOf, Joined, Zenon
  <1>2. CASE i <= Len(a)
    BY <1>1, <1>2, Joined DEF Clean
  <1>3. CASE i > Len(a)
    <2>1. PICK j \in 1..Len(b) : i = Len(a) + j
      <3>1. i - Len(a) \in 1..Len(b) /\ i = Len(a) + (i - Len(a))
        BY <1>1, <1>3
      <3> QED
        BY <3>1, Zenon
    <2> QED
      BY <2>1, Joined, Zenon DEF Clean
  <1> QED
    BY <1>1, <1>2, <1>3

(* So is every prefix of one, and one with an exact choice at its end.     *)
LEMMA CleanPrefix ==
  ASSUME NEW a \in Texts, NEW n \in 0..Len(a), \A i \in 1..n : a[i] \notin Beyond
  PROVE  /\ Clean(SubSeq(a, 1, n))
         /\ \A x \in Exact : Clean(Append(SubSeq(a, 1, n), x))
  <1>1. /\ SubSeq(a, 1, n) \in Texts /\ Len(SubSeq(a, 1, n)) = n /\ n \in Nat
        /\ \A i \in 1..n : SubSeq(a, 1, n)[i] = a[i]
    BY Prefixes, LengthOf, Zenon
  <1>2. Clean(SubSeq(a, 1, n))
    BY <1>1, Zenon DEF Clean
  <1>3. ASSUME NEW x \in Exact
        PROVE  Clean(Append(SubSeq(a, 1, n), x))
    <2>1. x \in Tokens /\ x \notin Beyond
      BY Zenon DEF Exact, Tokens, Beyond
    <2>2. /\ Len(Append(SubSeq(a, 1, n), x)) = n + 1
          /\ \A i \in 1..n : Append(SubSeq(a, 1, n), x)[i] = SubSeq(a, 1, n)[i]
          /\ Append(SubSeq(a, 1, n), x)[n + 1] = x
      BY <1>1, <2>1, OneMore
    <2> QED
      BY <1>1, <2>1, <2>2 DEF Clean
  <1> QED
    BY <1>2, <1>3, Zenon

(* Another lane's tokens are as they were.                                 *)
LEMMA CheckedKept ==
  ASSUME NEW m \in Lanes, CheckedOK(m), Keeps(m)
  PROVE  CheckedOK(m)'
  BY Zenon DEF CheckedOK, Keeps, Active, Finishes

(* The tokens drafted before the block's end are exact or within the       *)
(* tolerance if none is rejected before.                                   *)
LEMMA BlockClean ==
  ASSUME IInv, NEW l \in Lanes, pc[l] = "loop", CheckedOK(l), NEW n \in 0..Len(unverified[l]),
         n <= rows[l] + 1, \A j \in Rejected(l) : n < j
  PROVE  \A i \in 1..n : unverified[l][i] \notin Beyond
  <1> SUFFICES ASSUME NEW i \in 1..n, unverified[l][i] \in Beyond
               PROVE  FALSE
    BY Zenon
  <1>1. unverified[l] \in Texts /\ rows[l] \in Nat /\ Len(unverified[l]) \in Nat
    BY LengthOf, Zenon DEF IInv, TypeOK, RoundTyped
  <1>2. i \in 1..Len(unverified[l]) /\ i <= rows[l] + 1 /\ i <= n
    BY <1>1
  <1>3. i \notin Rejected(l)
    BY <1>1, <1>2
  <1>4. i = 1 /\ head[l] = <<>>
    BY <1>2, <1>3 DEF Rejected
  <1>5. unverified[l] # <<>>
    BY <1>1, <1>2, LengthOf
  <1> QED
    BY <1>4, <1>5, Zenon DEF CheckedOK, Active

(* More tokens at the end of what was drafted.                             *)
LEMMA DraftedOn ==
  ASSUME NEW a \in Texts, NEW t \in Texts, Len(t) >= 1
  PROVE  /\ Len(a \o t) = Len(a) + Len(t) /\ a \o t # <<>>
         /\ a = <<>> => a \o t = t
         /\ a # <<>> => (a \o t)[1] = a[1]
         /\ Len(t) \in Nat
  BY DEF Texts

(* A round within the room left does not pass the allowance.               *)
LEMMA Allowed ==
  ASSUME NEW b \in Nat, NEW v \in Nat, NEW u \in Nat, NEW n \in Nat, n \in 1..(b - v - u)
  PROVE  v + (u + n) <= b
  OBVIOUS

(* Neither does a part of what was drafted, with or without the rest.      *)
LEMMA Parted ==
  ASSUME NEW b \in Nat, NEW v \in Nat, NEW u \in Nat, NEW n \in Nat, n <= u, v + u <= b
  PROVE  v + n + (u - n) <= b /\ v + n + 0 <= b
  OBVIOUS

(* A round drafts within the allowance.                                    *)
LEMMA DraftChecked ==
  ASSUME IInv, NEW l \in Lanes, CheckedOK(l), draft(l)
  PROVE  CheckedOK(l)'
  <1>1. pc[l] = "loop" /\ UNCHANGED <<pc, verified, head, commit>>
    BY Zenon DEF draft, Goes
  <1>2. PICK t \in RoundTokens(l) : unverified' = [unverified EXCEPT ![l] = unverified[l] \o t]
    BY Zenon DEF draft
  <1>3. /\ unverified[l] \in Texts /\ verified[l] \in Texts /\ Len(unverified[l]) \in Nat
        /\ Len(verified[l]) \in Nat /\ unverified'[l] = unverified[l] \o t /\ Budget \in Nat
    BY <1>2, LengthOf, ConfigAssumption, Zenon DEF IInv, TypeOK, RoundTyped, LoopTyped
  <1>4. /\ t \in Texts /\ Len(t) \in 1..room(l)
        /\ (verified[l] = <<>> /\ unverified[l] = <<>>) => t[1] \in Exact
    BY RoundTyped1, Zenon
  <1>5. /\ Len(unverified[l] \o t) = Len(unverified[l]) + Len(t) /\ unverified[l] \o t # <<>>
        /\ unverified[l] = <<>> => unverified[l] \o t = t
        /\ unverified[l] # <<>> => (unverified[l] \o t)[1] = unverified[l][1]
        /\ Len(t) \in Nat
    <2>1. Len(t) >= 1
      BY <1>4
    <2> QED
      BY <1>3, <1>4, <2>1, DraftedOn, Zenon
  <1>6. Len(verified[l]) + Len(unverified'[l]) <= Budget
    <2>1. Len(verified[l]) + (Len(unverified[l]) + Len(t)) <= Budget
      BY <1>3, <1>4, <1>5, Allowed, Zenon DEF room
    <2> QED
      BY <1>3, <1>5, <2>1, Zenon
  <1>7. ASSUME head[l] = <<>>
        PROVE  unverified'[l][1] \notin Beyond
    <2>1. CASE unverified[l] = <<>>
      <3>1. verified[l] = <<>>
        BY <1>1, <1>7, <2>1, Zenon DEF CheckedOK, Active
      <3>2. unverified'[l] = t
        BY <1>3, <1>5, <2>1, Zenon
      <3> QED
        BY <1>4, <2>1, <3>1, <3>2, Zenon DEF Exact, Beyond
    <2>2. CASE unverified[l] # <<>>
      BY <1>1, <1>3, <1>5, <1>7, <2>2, Zenon DEF CheckedOK, Active
    <2> QED
      BY <2>1, <2>2, Zenon
  <1>8. Clean(verified[l])
    BY <1>1, Zenon DEF CheckedOK, Active
  <1> QED
    BY <1>1, <1>3, <1>5, <1>6, <1>7, <1>8, Zenon DEF CheckedOK, Active

(* A block that ends all that was drafted ends the output too, if it does  *)
(* so for a terminal token or for want of room.                            *)
LEMMA LastBlock ==
  ASSUME NEW a \in Texts, NEW v \in Nat, v + Len(a) <= Budget,
         Last(a) \in Terminal \/ ~(Budget - v - Len(a) > 0)
  PROVE  v + Len(a) = Budget \/ Last(a) \in Terminal
  <1>1. Len(a) \in Nat /\ Budget \in Nat
    BY LengthOf, ConfigAssumption, Zenon
  <1> QED
    BY <1>1

(* What is left of an accepted block is checked by its last row.           *)
LEMMA AcceptChecked ==
  ASSUME LeadLasts, IInv, NEW l \in Lanes, CheckedOK(l), settle_accept(l)
  PROVE  CheckedOK(l)'
  <1>1. /\ pc[l] = "loop" /\ verified' = verified /\ Settles(l) /\ Rejected(l) = {} /\ rows[l] > 0
        /\ Active(l)
    BY Zenon DEF settle_accept, Goes, Settles, loopVars, Active
  <1>2. /\ LoopTyped /\ RoundTyped /\ unverified[l] \in Texts /\ verified[l] \in Texts /\ rows[l] \in Nat
        /\ rows[l] <= Len(unverified[l])
    BY Zenon DEF IInv, TypeOK, LoopTyped, RoundTyped, LaneOK, BlockOK
  <1>3. rows[l] \in 0..Len(unverified[l]) /\ Len(unverified[l]) \in Nat /\ Len(verified[l]) \in Nat
    BY <1>2, BlockWithin, LengthOf, Zenon
  <1> DEFINE tokens == SubSeq(unverified[l], 1, rows[l])
             rest1 == SubSeq(unverified[l], rows[l] + 1, Len(unverified[l]))
  <1>4. /\ tokens \in Texts /\ Len(tokens) = rows[l]
        /\ rest1 \in Texts /\ Len(rest1) = Len(unverified[l]) - rows[l]
        /\ rows[l] < Len(unverified[l]) => rest1[1] = unverified[l][rows[l] + 1]
        /\ rows[l] = Len(unverified[l]) => tokens = unverified[l]
    BY <1>2, <1>3, Prefixes, Suffixes, ZenonT(60)
  <1>5. /\ pc'[l] = "settled" /\ commit'[l] = [tokens |-> tokens, corrected |-> FALSE]
        /\ unverified'[l] = rest1
    BY <1>2, Zenon DEF settle_accept, LoopTyped, RoundTyped
  <1>6. Clean(tokens)
    <2>1. \A i \in 1..rows[l] : unverified[l][i] \notin Beyond
      BY <1>1, <1>2, <1>3, BlockClean
    <2> QED
      BY <1>2, <1>3, <2>1, CleanPrefix, ZenonT(60)
  <1>7. Len(verified[l]) + Len(unverified[l]) <= Budget /\ Clean(verified[l])
    BY <1>1, Zenon DEF CheckedOK
  <1> HIDE DEF tokens, rest1
  <1>8. Len(verified[l]) + Len(tokens) + Len(rest1) <= Budget
    <2>1. Budget \in Nat
      BY ConfigAssumption, Zenon
    <2>2. Len(verified[l]) + rows[l] + (Len(unverified[l]) - rows[l]) <= Budget
      BY <1>2, <1>3, <1>7, <2>1, Parted, Zenon
    <2> QED
      BY <1>4, <2>2, Zenon
  <1>9. CASE rows[l] = Len(unverified[l])
    <2>1. tokens = unverified[l] /\ rest1 = <<>> /\ unverified[l] # <<>>
      BY <1>1, <1>2, <1>3, <1>4, <1>9, LengthOf
    <2>2. Goes(l)
      BY Zenon DEF settle_accept
    <2>3. terminal_seen(l) \/ ~(room(l) > 0)
      BY <1>1, <1>9, <2>2, Zenon DEF LeadLasts
    <2>4. Last(unverified[l]) \in Terminal \/ ~(Budget - Len(verified[l]) - Len(unverified[l]) > 0)
      BY <2>3, Zenon DEF terminal_seen, room
    <2>5. Len(verified[l]) + Len(unverified[l]) = Budget \/ Last(unverified[l]) \in Terminal
      BY <1>2, <1>3, <1>7, <2>4, LastBlock, ZenonT(60)
    <2>6. Finishes(l, commit[l].tokens)'
      <3>1. commit'[l].tokens = unverified[l] /\ verified'[l] = verified[l]
        BY <1>1, <1>5, <2>1
      <3> QED
        BY <2>1, <2>5, <3>1, ZenonT(60) DEF Finishes
    <2>7. /\ pc'[l] = "settled" /\ unverified'[l] = <<>> /\ Clean(verified'[l])
          /\ Clean(commit'[l].tokens)
          /\ Len(verified'[l]) + Len(commit'[l].tokens) + Len(unverified'[l]) <= Budget
      <3>1. commit'[l].tokens = tokens /\ unverified'[l] = rest1 /\ verified'[l] = verified[l]
        BY <1>1, <1>5
      <3> QED
        BY <1>5, <1>6, <1>7, <1>8, <2>1, <3>1, ZenonT(60)
    <2>8. pc'[l] # "loop"
      BY <2>7, Zenon
    <2> QED
      BY <2>6, <2>7, <2>8, ZenonT(60) DEF CheckedOK
  <1>10. CASE rows[l] < Len(unverified[l])
    <2>1. rest1 # <<>>
      BY <1>3, <1>4, <1>10, LengthOf
    <2>2. rows[l] + 1 \in 1..Len(unverified[l]) /\ rows[l] + 1 > 1
      BY <1>1, <1>2, <1>3, <1>10, Positions, Zenon
    <2>3. unverified[l][rows[l] + 1] \notin Beyond
      <3>1. PICK i : i = rows[l] + 1
        BY Zenon
      <3>2. i \in 1..Len(unverified[l]) /\ i > 1 /\ i <= rows[l] + 1 /\ i \notin Rejected(l)
        BY <1>1, <1>2, <2>2, <3>1
      <3>3. unverified[l][i] \notin Beyond
        BY <3>2, Zenon DEF Rejected
      <3> QED
        BY <3>1, <3>3, Zenon
    <2>4. rest1[1] \notin Beyond
      BY <1>4, <1>10, <2>3, Zenon
    <2>5. /\ pc'[l] = "settled" /\ pc'[l] # "loop" /\ commit'[l].tokens = tokens
          /\ unverified'[l] = rest1 /\ verified'[l] = verified[l]
      BY <1>1, <1>5
    <2> QED
      BY <1>6, <1>7, <1>8, <2>1, <2>4, <2>5, ZenonT(60) DEF CheckedOK
  <1> QED
    BY <1>2, <1>3, <1>9, <1>10

(* A corrected block ends in the exact choice.                             *)
LEMMA CorrectChecked ==
  ASSUME IInv, NEW l \in Lanes, CheckedOK(l), settle_correct(l)
  PROVE  CheckedOK(l)'
  <1>1. pc[l] = "loop" /\ verified' = verified /\ Active(l)
    BY Zenon DEF settle_correct, Goes, loopVars, Active
  <1>2. /\ LoopTyped /\ RoundTyped /\ unverified[l] \in Texts /\ verified[l] \in Texts /\ rows[l] \in Nat
        /\ Len(unverified[l]) \in Nat /\ Len(verified[l]) \in Nat
    BY LengthOf, Zenon DEF IInv, TypeOK, LoopTyped, RoundTyped
  <1>3. PICK i \in Rejected(l), choice \in Exact \cap Drafts :
          /\ \A j \in Rejected(l) : i <= j
          /\ commit' = [commit EXCEPT ![l] =
              [tokens |-> Append(SubSeq(unverified[l], 1, i - 1), choice), corrected |-> TRUE]]
    BY Zenon DEF settle_correct
  <1> DEFINE tokens == Append(SubSeq(unverified[l], 1, i - 1), choice)
  <1>4. /\ pc'[l] = "settled" /\ commit'[l] = [tokens |-> tokens, corrected |-> TRUE]
        /\ unverified'[l] = <<>>
    BY <1>2, <1>3, ZenonT(60) DEF settle_correct, LoopTyped, RoundTyped
  <1>5. i \in Nat /\ i <= Len(unverified[l])
    BY RejectedWithin, Zenon
  <1>6. i - 1 \in 0..Len(unverified[l]) /\ i - 1 <= rows[l] + 1 /\ \A j \in Rejected(l) : i - 1 < j
    BY <1>3, RejectedWithin, Zenon
  <1>7. \A k \in 1..(i - 1) : unverified[l][k] \notin Beyond
    BY <1>1, <1>6, BlockClean, Zenon
  <1>8. Clean(tokens)
    BY <1>2, <1>6, <1>7, CleanPrefix, Zenon
  <1>9. Len(tokens) = i
    <2>1. SubSeq(unverified[l], 1, i - 1) \in Texts /\ Len(SubSeq(unverified[l], 1, i - 1)) = i - 1
      BY <1>2, <1>6, Prefixes, Zenon
    <2>2. choice \in Tokens
      BY Zenon DEF Tokens
    <2>3. Len(tokens) = (i - 1) + 1
      BY <2>1, <2>2, OneMore, Zenon
    <2> QED
      BY <1>5, <2>3
  <1>10. Len(verified[l]) + Len(unverified[l]) <= Budget /\ Clean(verified[l])
    BY <1>1, Zenon DEF CheckedOK
  <1> HIDE DEF tokens
  <1>11. Len(verified[l]) + Len(tokens) + Len(<<>>) <= Budget
    <2>1. Budget \in Nat /\ Len(<<>>) = 0
      BY ConfigAssumption, Nothing, Zenon
    <2>2. Len(verified[l]) + i + 0 <= Budget
      BY <1>2, <1>5, <1>10, <2>1, Parted, Zenon
    <2> QED
      BY <1>9, <2>1, <2>2, Zenon
  <1>12. /\ pc'[l] # "loop" /\ commit'[l].tokens = tokens /\ commit'[l].corrected = TRUE
         /\ verified'[l] = verified[l]
    BY <1>1, <1>4
  <1> QED
    BY <1>4, <1>8, <1>10, <1>11, <1>12, Zenon DEF CheckedOK

(* The lane goes on only with a token past the block, or a line head to    *)
(* check the next one.                                                     *)
LEMMA CommitAllChecked ==
  ASSUME IInv, NEW l \in Lanes, CheckedOK(l), commit_all(l)
  PROVE  CheckedOK(l)'
  <1> DEFINE tokens == commit[l].tokens
  <1>1. /\ pc[l] = "settled" /\ Active(l) /\ Publishes(l, tokens) /\ unverified' = unverified
        /\ tokens # <<>>
    BY Zenon DEF commit_all, Active, IInv, LaneOK, BlockOK
  <1>2. /\ LoopTyped /\ RoundTyped /\ unverified[l] \in Texts /\ verified[l] \in Texts
        /\ tokens \in Texts /\ head[l] \in Texts /\ commit[l].corrected \in BOOLEAN
    BY Zenon DEF IInv, TypeOK, LoopTyped, RoundTyped
  <1>3. verified'[l] = verified[l] \o tokens
    BY <1>1, <1>2, Zenon DEF Publishes, LoopTyped
  <1>4. pc'[l] = "ending" \/ (pc'[l] = "loop" /\ ~Finishes(l, tokens))
    BY <1>2, Zenon DEF commit_all, LoopTyped
  <1>5. /\ Clean(verified[l]) /\ Clean(tokens)
        /\ Len(verified[l]) + Len(tokens) + Len(unverified[l]) <= Budget
        /\ ~commit[l].corrected =>
             IF unverified[l] = <<>> THEN Finishes(l, tokens) ELSE unverified[l][1] \notin Beyond
    BY <1>1, Zenon DEF CheckedOK
  <1>6. commit[l].corrected => head'[l] # <<>>
    <2>1. ASSUME commit[l].corrected
          PROVE  head'[l] = head[l] \o tokens
      BY <1>2, <2>1, Zenon DEF commit_all, RoundTyped
    <2>2. Len(tokens) >= 1
      BY <1>1, <1>2, FirstOf
    <2>3. head[l] \o tokens # <<>>
      BY <1>2, <2>2, DraftedOn, Zenon
    <2> QED
      BY <2>1, <2>3, Zenon
  <1> HIDE DEF tokens
  <1>7. Clean(verified'[l])
    BY <1>2, <1>3, <1>5, CleanJoined, Zenon
  <1>8. Len(verified'[l]) + Len(unverified'[l]) <= Budget
    <2>1. Len(verified'[l]) = Len(verified[l]) + Len(tokens)
      BY <1>2, <1>3, Joined
    <2> QED
      BY <1>1, <1>5, <2>1, Zenon
  <1>9. (pc'[l] = "loop" /\ head'[l] = <<>>) => unverified'[l] # <<>> /\ unverified'[l][1] \notin Beyond
    BY <1>1, <1>2, <1>4, <1>5, <1>6, Zenon
  <1> QED
    BY <1>4, <1>7, <1>8, <1>9, Zenon DEF CheckedOK

(* A part of a checked block is checked.                                   *)
LEMMA CommitPartChecked ==
  ASSUME IInv, NEW l \in Lanes, CheckedOK(l), commit_part(l)
  PROVE  CheckedOK(l)'
  <1>1. pc[l] = "settled" /\ Active(l)
    BY Zenon DEF commit_part, Active
  <1>2. /\ LoopTyped /\ verified[l] \in Texts /\ commit[l].tokens \in Texts /\ early[l] \in {0, 1}
        /\ Len(commit[l].tokens) \in Nat
    BY LengthOf, Zenon DEF IInv, TypeOK, LoopTyped, RoundTyped
  <1>3. PICK n \in early[l]..(Len(commit[l].tokens) - 1) : Publishes(l, SubSeq(commit[l].tokens, 1, n))
    BY Zenon DEF commit_part
  <1>4. n \in 0..Len(commit[l].tokens)
    BY <1>2, ProperPart, Zenon
  <1>5. Clean(verified[l]) /\ Clean(commit[l].tokens)
    BY <1>1, Zenon DEF CheckedOK
  <1>6. SubSeq(commit[l].tokens, 1, n) \in Texts /\ Clean(SubSeq(commit[l].tokens, 1, n))
    <2>1. \A i \in 1..n : commit[l].tokens[i] \notin Beyond
      BY <1>2, <1>4, <1>5 DEF Clean
    <2> QED
      BY <1>2, <1>4, <2>1, Prefixes, CleanPrefix, ZenonT(60)
  <1>7. pc'[l] = "ending" /\ verified'[l] = verified[l] \o SubSeq(commit[l].tokens, 1, n)
    BY <1>2, <1>3, Zenon DEF commit_part, Publishes, LoopTyped
  <1>8. Clean(verified'[l])
    BY <1>2, <1>5, <1>6, <1>7, CleanJoined, Zenon
  <1> QED
    BY <1>7, <1>8, Zenon DEF CheckedOK

(* Every step keeps what is committed checked.                             *)
LEMMA CheckedStep ==
  ASSUME LeadLasts, IInv, Checked, [Next]_vars
  PROVE  Checked'
  <1> SUFFICES ASSUME NEW m \in Lanes
               PROVE  CheckedOK(m)'
    BY Zenon DEF Checked
  <1>1. CheckedOK(m) /\ LoopTyped /\ RoundTyped
    BY Zenon DEF Checked, IInv, TypeOK
  <1>2. CASE UNCHANGED vars
    <2>1. Keeps(m)
      BY <1>2, Zenon DEF Keeps, vars, loopVars, roundVars, poolVars
    <2> QED
      BY <1>1, <2>1, CheckedKept, Zenon
  <1>3. ASSUME NEW l \in Lanes, LaneStep(l) \/ run(l) \/ cancel(l)
        PROVE  CheckedOK(m)'
    <2>1. CASE m # l
      BY <1>1, <1>3, <2>1, OthersKeep, CheckedKept, Zenon
    <2>2. CASE m = l
      <3>1. CASE begin(l)
        <4>1. /\ pc'[l] = "loop" /\ verified'[l] = <<>> /\ unverified'[l] = <<>>
          BY <1>1, <3>1, Zenon DEF begin, LoopTyped, RoundTyped
        <4>2. Len(<<>>) = 0 /\ Budget \in Nat
          BY Nothing, ConfigAssumption, Zenon
        <4> QED
          BY <2>2, <4>1, <4>2 DEF CheckedOK, Clean
      <3>2. CASE draft(l)
        BY <1>1, <2>2, <3>2, DraftChecked, Zenon
      <3>3. CASE launch_async(l) \/ run(l) \/ cancel(l)
        <4>1. UNCHANGED <<pc, verified, unverified, head, commit>>
          BY <3>3, Zenon DEF launch_async, run, cancel, loopVars, roundVars
        <4> QED
          BY <1>1, <4>1, Zenon DEF CheckedOK, Active, Finishes
      <3>4. CASE settle_accept(l)
        BY <1>1, <2>2, <3>4, AcceptChecked, ZenonT(60)
      <3>5. CASE settle_correct(l)
        BY <1>1, <2>2, <3>5, CorrectChecked, Zenon
      <3>6. CASE settle_fail(l) \/ end_closed(l) \/ end_fail(l) \/ end_async(l)
        <4>1. pc'[l] \in {"failed", "idle"} /\ verified' = verified
          BY <1>1, <3>6 DEF settle_fail, end_closed, end_fail, end_async, Fail, LoopTyped, loopVars
        <4> QED
          BY <1>1, <2>2, <4>1, ZenonT(60) DEF CheckedOK, Active
      <3>7. CASE commit_all(l)
        BY <1>1, <2>2, <3>7, CommitAllChecked, Zenon
      <3>8. CASE commit_part(l)
        BY <1>1, <2>2, <3>8, CommitPartChecked, Zenon
      <3> QED
        BY <1>3, <3>1, <3>2, <3>3, <3>4, <3>5, <3>6, <3>7, <3>8, ZenonT(60) DEF LaneStep
    <2> QED
      BY <2>1, <2>2
  <1> QED
    BY <1>2, <1>3, Zenon DEF Next, rest

(* While no block is settled for want of lead, no token reaches the client *)
(* that the exact model would not have kept, whatever the allowance and    *)
(* the lead are.  Once one is, the next drafted token is checked by no row.*)
THEOREM PublishesVerified == Spec => VerifiedWhileLeadLasts
  <1>1. Init => Checked
    <2>1. Clean(<<>>)
      BY Nothing DEF Clean
    <2>2. ASSUME Init, NEW l \in Lanes
          PROVE  CheckedOK(l)
      <3>1. verified[l] = <<>> /\ pc[l] = "idle"
        BY <2>2, Zenon DEF Init
      <3> QED
        BY <2>1, <3>1, Zenon DEF CheckedOK, Active
    <2> QED
      BY <2>2, Zenon DEF Checked
  <1>2. IInv /\ Checked /\ LeadLasts /\ [Next]_vars => Checked'
    BY CheckedStep, Zenon
  <1>3. ASSUME IInv, Checked
        PROVE  OnlyVerifiedPublished
    <2> SUFFICES ASSUME NEW l \in Lanes
                 PROVE  Clean(Published(l))
      BY Zenon DEF OnlyVerifiedPublished, Clean
    <2>1. CheckedOK(l) /\ EarlyOK(l) /\ BlockOK(l) /\ early[l] \in {0, 1}
      BY <1>3, Zenon DEF IInv, Checked, LaneOK, TypeOK, LoopTyped
    <2>2. CASE ~Active(l) \/ early[l] # 1
      <3>1. Published(l) = verified[l]
        BY <2>1, <2>2, Zenon DEF Published
      <3> QED
        BY <2>1, <3>1, Zenon DEF CheckedOK
    <2>3. CASE Active(l) /\ early[l] = 1
      <3>1. Published(l) = <<First(l)>>
        BY <1>3, <2>3, PublishedIs, Zenon
      <3>2. First(l) \notin Beyond
        <4>1. head[l] = <<>> /\ pc[l] # "ending" /\ (pc[l] = "loop" => unverified[l] # <<>>)
          BY <2>1, <2>3, Zenon DEF EarlyOK
        <4>2. CASE pc[l] = "loop"
          BY <2>1, <2>3, <4>1, <4>2, Zenon DEF CheckedOK, First
        <4>3. CASE pc[l] = "settled"
          <5>1. commit[l].tokens \in Texts /\ commit[l].tokens # <<>>
            BY <1>3, <2>1, <4>3, Zenon DEF IInv, TypeOK, RoundTyped, BlockOK
          <5>2. 1 \in 1..Len(commit[l].tokens)
            BY <5>1, LengthOf
          <5> QED
            BY <2>1, <2>3, <4>3, <5>2, Zenon DEF CheckedOK, Clean, First
        <4> QED
          BY <2>3, <4>1, <4>2, <4>3, Zenon DEF Active
      <3> QED
        BY <3>1, <3>2 DEF Clean
    <2> QED
      BY <2>2, <2>3, Zenon
  <1> QED
    BY <1>1, <1>2, <1>3, Always, PTL DEF Spec, VerifiedWhileLeadLasts
============================================================================
