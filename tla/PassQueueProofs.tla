-------------------------- MODULE PassQueueProofs --------------------------
(* Proofs about the prompt-pass queue, for any finite set of lanes, any      *)
(* number of passes per request, and with or without CUDA failures.          *)
EXTENDS PassQueue, FiniteSetTheorems, TLAPS

Waiters(c) == {t \in Threads : pc[t] = "wait" /\ class[t] = c}
Releasers == {t \in Threads : Released(t)}

(* The inductive invariant: the checked invariants, and what ties the flags  *)
(* the code reads to the threads they speak for.                            *)
Flags ==
  /\ \A t \in Threads : Holding(t) => busy
  /\ \A t \in Threads : Released(t) => class[t] = Ingest

DeviceCovered == ~CreateFails => uncovered = {t \in Threads : pc[t] = "hold"}

IInv ==
  /\ TypeOK
  /\ CountersExact
  /\ Flags
  /\ OnePassAtATime
  /\ YieldKeepsItsTurn
  /\ StreakBound
  /\ NoLostWakeup
  /\ DeviceCovered

-----------------------------------------------------------------------------
(* What adding and removing one thread does to a count.                      *)
LEMMA Counting ==
  ASSUME NEW S, IsFiniteSet(S), NEW x
  PROVE  /\ Cardinality(S) \in Nat
         /\ x \in S => Cardinality(S) > 0 /\ Cardinality(S \ {x}) = Cardinality(S) - 1
         /\ x \notin S => Cardinality(S \cup {x}) = Cardinality(S) + 1
<1>1. Cardinality(S) \in Nat
  BY FS_CardinalityType
<1>2. ASSUME x \in S
      PROVE  Cardinality(S) > 0 /\ Cardinality(S \ {x}) = Cardinality(S) - 1
  <2>1. S # {}
    BY <1>2
  <2>2. Cardinality(S) # 0
    BY <2>1, FS_EmptySet
  <2>3. Cardinality(S \ {x}) = Cardinality(S) - 1
    BY <1>2, FS_RemoveElement
  <2>. QED BY <2>2, <2>3, <1>1
<1>3. ASSUME x \notin S PROVE Cardinality(S \cup {x}) = Cardinality(S) + 1
  BY <1>3, FS_AddElement
<1>. QED BY <1>1, <1>2, <1>3

(* The waiters of a class and the yielded ingestions are finite sets.        *)
LEMMA FiniteSides ==
  /\ \A c : IsFiniteSet(Waiters(c))
  /\ IsFiniteSet(Releasers)
BY ConfigAssumption, FS_Subset DEF Waiters, Releasers

(* The counters in terms of the sets they count.                             *)
LEMMA CountersRestated ==
  CountersExact <=> /\ \A c \in PassClass : waiting[c] = Cardinality(Waiters(c))
                    /\ yielding = Cardinality(Releasers)
BY DEF CountersExact, Waiters, Releasers

(* A thread that waits is counted; a thread that released is counted.        *)
LEMMA Counted ==
  ASSUME TypeOK, CountersExact, NEW t \in Threads
  PROVE  /\ pc[t] = "wait" => waiting[class[t]] > 0
         /\ Released(t) => yielding > 0
<1>1. ASSUME pc[t] = "wait" PROVE waiting[class[t]] > 0
  <2>1. t \in Waiters(class[t])
    BY <1>1 DEF Waiters
  <2>2. class[t] \in PassClass
    BY DEF TypeOK
  <2>. QED BY <2>1, <2>2, FiniteSides, CountersRestated, Counting, Zenon
<1>2. ASSUME Released(t) PROVE yielding > 0
  <2>1. t \in Releasers
    BY <1>2 DEF Releasers
  <2>. QED BY <2>1, FiniteSides, CountersRestated, Counting, Zenon
<1>. QED BY <1>1, <1>2

(* The invariant holds of a queue nobody has used yet.                       *)
LEMMA InitIInv == Init => IInv
<1> SUFFICES ASSUME Init PROVE IInv
  OBVIOUS
<1>1. TypeOK
  BY ConfigAssumption, Zenon DEF Init, TypeOK, PassClass, Ingest, Verify, First
<1>2. CountersExact
  <2>1. \A c : Waiters(c) = {}
    BY DEF Init, Waiters
  <2>2. Releasers = {}
    BY DEF Init, Releasers, Released
  <2>. QED BY <2>1, <2>2, FS_EmptySet, CountersRestated DEF Init
<1>. QED
  BY <1>1, <1>2 DEF IInv, Init, Flags, OnePassAtATime, YieldKeepsItsTurn, StreakBound,
     NoLostWakeup, DeviceCovered, Holding, Released, Sleepers, kVerifyStreak

-----------------------------------------------------------------------------
(* A grant keeps the types of what it changes.                               *)
LEMMA GrantType ==
  ASSUME TypeOK, NEW t \in Threads, NEW c \in PassClass,
         NEW w \in [PassClass -> Nat], Grant(t, c, w)
  PROVE  /\ busy' \in BOOLEAN /\ holder' \in PassClass
         /\ waiting' \in [PassClass -> Nat]
         /\ streak' \in Nat /\ yielding' \in Nat /\ owed' \in Nat
         /\ pc' \in [Threads -> {"idle", "wait", "enter", "hold", "notify",
                                 "yield", "pause", "retake", "failed"}]
BY DEF TypeOK, Grant, Longer, PassClass, Ingest, Verify, First, kVerifyStreak

(* So does the end of a yield.                                               *)
LEMMA RetakeType ==
  ASSUME TypeOK, CountersExact, NEW t \in Threads, Released(t), Retake(t)
  PROVE  /\ busy' \in BOOLEAN /\ holder' \in PassClass
         /\ waiting' \in [PassClass -> Nat]
         /\ streak' \in Nat /\ yielding' \in Nat /\ owed' \in Nat
         /\ pc' \in [Threads -> {"idle", "wait", "enter", "hold", "notify",
                                 "yield", "pause", "retake", "failed"}]
         /\ uncovered' \subseteq Threads
<1>1. yielding > 0
  BY Counted
<1>. QED BY <1>1 DEF TypeOK, Retake, PassClass, Ingest

(* So does the recording of the pass's event.                                *)
LEMMA RecordType ==
  ASSUME TypeOK, NEW t \in Threads, Record(t)
  PROVE  event' \in BOOLEAN /\ uncovered' \subseteq Threads
<1>1. CASE event' = TRUE /\ uncovered' = uncovered \ {t}
  BY <1>1 DEF TypeOK
<1>2. CASE UNCHANGED <<event, uncovered>>
  BY <1>2 DEF TypeOK
<1>. QED BY <1>1, <1>2, Zenon DEF Record

(* A step keeps the types: a count is only taken down by a thread it counts. *)
LEMMA TypeStep ==
  ASSUME TypeOK, CountersExact, [Next]_vars
  PROVE  TypeOK'
<1> USE DEF Sleepers, notify_all, VerifyWaiting
<1>1. ASSUME NEW t \in Threads, NEW c \in PassClass, lock(t, c) PROVE TypeOK'
  <2>1. /\ class' \in [Threads -> PassClass] /\ awake' \subseteq Threads
        /\ left' \in [Threads -> Nat] /\ event' \in BOOLEAN /\ uncovered' \subseteq Threads
    BY <1>1, ConfigAssumption DEF TypeOK, lock, NextPass, PassClass, Ingest, Verify, First
  <2>2. CASE Grant(t, c, waiting)
    <3>1. waiting \in [PassClass -> Nat]
      BY DEF TypeOK
    <3>. QED BY <3>1, <2>1, <2>2, GrantType DEF TypeOK
  <2>3. CASE /\ waiting' = [waiting EXCEPT ![c] = @ + 1]
             /\ pc' = [pc EXCEPT ![t] = "wait"]
             /\ UNCHANGED <<busy, holder, streak, yielding, owed>>
    BY <2>1, <2>3 DEF TypeOK
  <2>. QED BY <1>1, <2>2, <2>3 DEF lock
<1>2. ASSUME NEW t \in Threads, lock_wake(t) PROVE TypeOK'
  <2>1. CASE Grant(t, class[t], [waiting EXCEPT ![class[t]] = @ - 1])
    <3>1. class[t] \in PassClass
      BY DEF TypeOK
    <3>2. waiting[class[t]] > 0
      BY <1>2, Counted DEF lock_wake
    <3>3. [waiting EXCEPT ![class[t]] = @ - 1] \in [PassClass -> Nat]
      BY <3>1, <3>2 DEF TypeOK
    <3>. QED BY <1>2, <2>1, <3>1, <3>3, GrantType, Zenon DEF lock_wake, TypeOK
  <2>2. CASE UNCHANGED <<queue, pc>>
    BY <1>2, <2>2 DEF TypeOK, lock_wake, queue
  <2>. QED BY <1>2, <2>1, <2>2 DEF lock_wake
<1>3. ASSUME NEW t \in Threads, enter(t) PROVE TypeOK'
  BY <1>3 DEF TypeOK, enter, queue
<1>4. ASSUME NEW t \in Threads, unlock(t) PROVE TypeOK'
  <2>1. event' \in BOOLEAN /\ uncovered' \subseteq Threads
    BY <1>4, RecordType DEF unlock
  <2>2. busy' \in BOOLEAN
    BY <1>4, Zenon DEF unlock
  <2>3. awake' \subseteq Threads
    BY <1>4 DEF TypeOK, unlock
  <2>4. /\ holder' \in PassClass /\ waiting' \in [PassClass -> Nat]
        /\ streak' \in Nat /\ yielding' \in Nat /\ owed' \in Nat
        /\ class' \in [Threads -> PassClass] /\ left' \in [Threads -> Nat]
    BY <1>4 DEF TypeOK, unlock
  <2>5. pc' \in [Threads -> {"idle", "wait", "enter", "hold", "notify",
                            "yield", "pause", "retake", "failed"}]
    BY <1>4 DEF TypeOK, unlock
  <2>. QED BY <2>1, <2>2, <2>3, <2>4, <2>5 DEF TypeOK
<1>5. ASSUME NEW t \in Threads, unlock_notify(t) PROVE TypeOK'
  BY <1>5 DEF TypeOK, unlock_notify, queue
<1>6. ASSUME NEW t \in Threads, yield(t) PROVE TypeOK'
  <2>1. event' \in BOOLEAN /\ uncovered' \subseteq Threads
    BY <1>6, RecordType DEF yield, Release
  <2>2. busy' \in BOOLEAN
    BY <1>6, Zenon DEF yield, Release
  <2>3. awake' \subseteq Threads
    BY <1>6 DEF TypeOK, yield, Release
  <2>4. /\ holder' \in PassClass /\ waiting' \in [PassClass -> Nat]
        /\ streak' \in Nat /\ yielding' \in Nat /\ owed' \in Nat
        /\ class' \in [Threads -> PassClass] /\ left' \in [Threads -> Nat]
    BY <1>6 DEF TypeOK, yield, Release, PassClass, Verify, First
  <2>5. pc' \in [Threads -> {"idle", "wait", "enter", "hold", "notify",
                            "yield", "pause", "retake", "failed"}]
    BY <1>6 DEF TypeOK, yield
  <2>. QED BY <2>1, <2>2, <2>3, <2>4, <2>5 DEF TypeOK
<1>7. ASSUME NEW t \in Threads, yield_wake(t) PROVE TypeOK'
  BY <1>7, RetakeType DEF TypeOK, yield_wake, queue, Released
<1>8. ASSUME NEW t \in Threads, pause(t) PROVE TypeOK'
  <2>1. event' \in BOOLEAN /\ uncovered' \subseteq Threads
    BY <1>8, RecordType DEF pause, Release
  <2>2. busy' \in BOOLEAN
    BY <1>8, Zenon DEF pause, Release
  <2>3. awake' \subseteq Threads
    BY <1>8 DEF TypeOK, pause, Release
  <2>4. /\ holder' \in PassClass /\ waiting' \in [PassClass -> Nat]
        /\ streak' \in Nat /\ yielding' \in Nat /\ owed' \in Nat
        /\ class' \in [Threads -> PassClass] /\ left' \in [Threads -> Nat]
    BY <1>8 DEF TypeOK, pause, Release
  <2>5. pc' \in [Threads -> {"idle", "wait", "enter", "hold", "notify",
                            "yield", "pause", "retake", "failed"}]
    BY <1>8 DEF TypeOK, pause
  <2>. QED BY <2>1, <2>2, <2>3, <2>4, <2>5 DEF TypeOK
<1>9. ASSUME NEW t \in Threads, pause_over(t) PROVE TypeOK'
  <2>1. CASE Retake(t)
    BY <1>9, <2>1, RetakeType DEF TypeOK, pause_over, Released
  <2>2. CASE pc' = [pc EXCEPT ![t] = "retake"] /\ UNCHANGED <<queue, uncovered>>
    BY <1>9, <2>2 DEF TypeOK, pause_over, queue
  <2>. QED BY <1>9, <2>1, <2>2 DEF pause_over
<1>10. ASSUME NEW t \in Threads, pause_wake(t) PROVE TypeOK'
  BY <1>10, RetakeType DEF TypeOK, pause_wake, queue, Released
<1>11. CASE UNCHANGED vars
  BY <1>11 DEF TypeOK, vars, queue
<1>. QED
  BY <1>1, <1>2, <1>3, <1>4, <1>5, <1>6, <1>7, <1>8, <1>9, <1>10, <1>11 DEF Next

-----------------------------------------------------------------------------
(* The counters after a step, from what the step does to the sets they count. *)
LEMMA CountersSame ==
  ASSUME CountersExact, \A c \in PassClass : waiting'[c] = waiting[c], yielding' = yielding,
         \A c \in PassClass : Waiters(c)' = Waiters(c), Releasers' = Releasers
  PROVE  CountersExact'
BY DEF CountersExact, Waiters, Releasers

(* A yield adds its thread to the yielded ingestions.                        *)
LEMMA ReleaseCounts ==
  ASSUME CountersExact, NEW t \in Threads, ~Released(t), waiting' = waiting,
         yielding' = yielding + 1,
         \A c \in PassClass : Waiters(c)' = Waiters(c), Releasers' = Releasers \cup {t}
  PROVE  CountersExact'
<1>1. Cardinality(Releasers \cup {t}) = Cardinality(Releasers) + 1
  BY FiniteSides, Counting DEF Releasers
<1>. QED BY <1>1, Zenon DEF CountersExact, Waiters, Releasers

(* The end of a yield takes its thread off them.                             *)
LEMMA RetakeCounts ==
  ASSUME TypeOK, CountersExact, NEW t \in Threads, Released(t), Retake(t),
         UNCHANGED class
  PROVE  CountersExact'
<1>1. Cardinality(Releasers \ {t}) = Cardinality(Releasers) - 1
  BY FiniteSides, Counting DEF Releasers
<1>2. Releasers' = Releasers \ {t}
  BY DEF TypeOK, Releasers, Released, Retake
<1>3. \A c \in PassClass : Waiters(c)' = Waiters(c)
  BY DEF TypeOK, Waiters, Released, Retake
<1>. QED BY <1>1, <1>2, <1>3 DEF CountersExact, Waiters, Releasers, Retake

(* A step keeps the counters exact.                                          *)
LEMMA CountersStep ==
  ASSUME TypeOK, CountersExact, [Next]_vars
  PROVE  CountersExact'
<1>1. ASSUME NEW t \in Threads, NEW c \in PassClass, lock(t, c) PROVE CountersExact'
  <2>1. Releasers' = Releasers
    BY <1>1 DEF TypeOK, lock, Grant, Releasers, Released
  <2>2. CASE Grant(t, c, waiting)
    <3>1. \A k \in PassClass : Waiters(k)' = Waiters(k)
      BY <1>1, <2>2 DEF TypeOK, lock, Grant, Waiters
    <3>. QED BY <2>1, <2>2, <3>1, CountersSame DEF Grant
  <2>3. CASE /\ waiting' = [waiting EXCEPT ![c] = @ + 1]
             /\ pc' = [pc EXCEPT ![t] = "wait"]
             /\ UNCHANGED <<busy, holder, streak, yielding, owed>>
    <3>1. t \notin Waiters(c)
      BY <1>1 DEF lock, Waiters
    <3>2. Waiters(c)' = Waiters(c) \cup {t}
      BY <1>1, <2>3 DEF TypeOK, lock, Waiters
    <3>3. \A k \in PassClass \ {c} : Waiters(k)' = Waiters(k)
      BY <1>1, <2>3 DEF TypeOK, lock, Waiters
    <3>4. Cardinality(Waiters(c) \cup {t}) = Cardinality(Waiters(c)) + 1
      BY <3>1, FiniteSides, Counting
    <3>5. /\ waiting'[c] = waiting[c] + 1
          /\ \A k \in PassClass \ {c} : waiting'[k] = waiting[k]
      BY <2>3 DEF TypeOK
    <3>. QED BY <2>1, <2>3, <3>2, <3>3, <3>4, <3>5, ZenonT(60) DEF CountersExact, Waiters, Releasers
  <2>. QED BY <1>1, <2>2, <2>3 DEF lock
<1>2. ASSUME NEW t \in Threads, lock_wake(t) PROVE CountersExact'
  <2>1. CASE Grant(t, class[t], [waiting EXCEPT ![class[t]] = @ - 1])
    <3>0. PICK c \in PassClass : c = class[t]
      BY DEF TypeOK
    <3>1. t \in Waiters(c)
      BY <1>2, <3>0 DEF TypeOK, lock_wake, Waiters
    <3>2. Waiters(c)' = Waiters(c) \ {t}
      BY <1>2, <2>1, <3>0 DEF TypeOK, lock_wake, Grant, Waiters
    <3>3. \A k \in PassClass \ {c} : Waiters(k)' = Waiters(k)
      BY <1>2, <2>1, <3>0 DEF TypeOK, lock_wake, Grant, Waiters
    <3>4. Cardinality(Waiters(c) \ {t}) = Cardinality(Waiters(c)) - 1
      BY <3>1, FiniteSides, Counting
    <3>5. /\ waiting'[c] = waiting[c] - 1
          /\ \A k \in PassClass \ {c} : waiting'[k] = waiting[k]
      BY <3>0, <2>1 DEF TypeOK, Grant
    <3>6. Releasers' = Releasers /\ yielding' = yielding
      BY <1>2, <2>1 DEF TypeOK, lock_wake, Grant, Releasers, Released
    <3>7. \A k \in PassClass : waiting'[k] = Cardinality(Waiters(k)')
      BY <3>2, <3>3, <3>4, <3>5, CountersRestated
    <3>. QED BY <3>6, <3>7, Zenon DEF CountersExact, Waiters, Releasers
  <2>2. CASE UNCHANGED <<queue, pc>>
    BY <1>2, <2>2, CountersSame DEF lock_wake, queue, Waiters, Releasers, Released
  <2>. QED BY <1>2, <2>1, <2>2 DEF lock_wake
<1>3. ASSUME NEW t \in Threads, enter(t) PROVE CountersExact'
  <2>1. Releasers' = Releasers /\ \A k \in PassClass : Waiters(k)' = Waiters(k)
    BY <1>3 DEF TypeOK, enter, Releasers, Released, Waiters
  <2>. QED BY <1>3, <2>1, CountersSame DEF enter, queue
<1>4. ASSUME NEW t \in Threads, unlock(t) PROVE CountersExact'
  <2>1. Releasers' = Releasers /\ \A k \in PassClass : Waiters(k)' = Waiters(k)
    BY <1>4 DEF TypeOK, unlock, Releasers, Released, Waiters
  <2>. QED BY <1>4, <2>1, CountersSame DEF unlock
<1>5. ASSUME NEW t \in Threads, unlock_notify(t) PROVE CountersExact'
  <2>1. Releasers' = Releasers /\ \A k \in PassClass : Waiters(k)' = Waiters(k)
    BY <1>5 DEF TypeOK, unlock_notify, Releasers, Released, Waiters
  <2>. QED BY <1>5, <2>1, CountersSame DEF unlock_notify, queue
<1>6. ASSUME NEW t \in Threads, yield(t) PROVE CountersExact'
  <2>1. /\ Releasers' = Releasers \cup {t} /\ ~Released(t)
        /\ \A k \in PassClass : Waiters(k)' = Waiters(k)
    BY <1>6 DEF TypeOK, yield, Release, Releasers, Released, Waiters
  <2>. QED BY <1>6, <2>1, ReleaseCounts DEF yield, Release
<1>7. ASSUME NEW t \in Threads, yield_wake(t) PROVE CountersExact'
  <2>1. CASE Retake(t)
    BY <1>7, <2>1, RetakeCounts DEF yield_wake, Released
  <2>2. CASE UNCHANGED <<queue, pc, uncovered>>
    BY <1>7, <2>2, CountersSame DEF yield_wake, queue, Waiters, Releasers, Released
  <2>. QED BY <1>7, <2>1, <2>2 DEF yield_wake
<1>8. ASSUME NEW t \in Threads, pause(t) PROVE CountersExact'
  <2>1. /\ Releasers' = Releasers \cup {t} /\ ~Released(t)
        /\ \A k \in PassClass : Waiters(k)' = Waiters(k)
    BY <1>8 DEF TypeOK, pause, Release, Releasers, Released, Waiters
  <2>. QED BY <1>8, <2>1, ReleaseCounts DEF pause, Release
<1>9. ASSUME NEW t \in Threads, pause_over(t) PROVE CountersExact'
  <2>1. CASE Retake(t)
    BY <1>9, <2>1, RetakeCounts DEF pause_over, Released
  <2>2. CASE pc' = [pc EXCEPT ![t] = "retake"] /\ UNCHANGED <<queue, uncovered>>
    <3>1. Releasers' = Releasers /\ \A k \in PassClass : Waiters(k)' = Waiters(k)
      BY <1>9, <2>2 DEF TypeOK, pause_over, Releasers, Released, Waiters
    <3>. QED BY <2>2, <3>1, CountersSame DEF queue
  <2>. QED BY <1>9, <2>1, <2>2 DEF pause_over
<1>10. ASSUME NEW t \in Threads, pause_wake(t) PROVE CountersExact'
  <2>1. CASE Retake(t)
    BY <1>10, <2>1, RetakeCounts DEF pause_wake, Released
  <2>2. CASE UNCHANGED <<queue, pc, uncovered>>
    BY <1>10, <2>2, CountersSame DEF pause_wake, queue, Waiters, Releasers, Released
  <2>. QED BY <1>10, <2>1, <2>2 DEF pause_wake
<1>11. CASE UNCHANGED vars
  BY <1>11, CountersSame DEF vars, queue, Waiters, Releasers, Released
<1>. QED
  BY <1>1, <1>2, <1>3, <1>4, <1>5, <1>6, <1>7, <1>8, <1>9, <1>10, <1>11 DEF Next

-----------------------------------------------------------------------------
Exclusive == Flags /\ OnePassAtATime /\ YieldKeepsItsTurn

(* When no ingestion is yielded, no thread is between release and retake.    *)
LEMMA NobodyReleased ==
  ASSUME TypeOK, CountersExact, yielding = 0
  PROVE  \A t \in Threads : ~Released(t)
BY Counted DEF TypeOK

(* A pass that is granted finds the queue free, hence nobody holding it, and  *)
(* an ingestion that is granted finds nobody that has handed it over.         *)
LEMMA GrantExclusive ==
  ASSUME TypeOK, CountersExact, Exclusive, NEW t \in Threads, NEW c \in PassClass, NEW w,
         ~Released(t), MayRun(c), Grant(t, c, w),
         class' = [class EXCEPT ![t] = c]
  PROVE  Exclusive'
<1>1. \A s \in Threads : ~Holding(s)
  BY DEF Exclusive, Flags, MayRun
<1>2. c = Ingest => \A s \in Threads : ~Released(s)
  BY NobodyReleased DEF MayRun, Ingest, Verify, First
<1>3. Flags'
  BY DEF TypeOK, Exclusive, Flags, Grant, Holding, Released
<1>4. OnePassAtATime'
  BY <1>1 DEF TypeOK, OnePassAtATime, Grant, Holding
<1>5. YieldKeepsItsTurn'
  BY <1>1, <1>2 DEF TypeOK, Exclusive, YieldKeepsItsTurn, Grant, Holding, Released
<1>. QED BY <1>3, <1>4, <1>5 DEF Exclusive

(* An ingestion that takes its turn back is alone in its pass.               *)
LEMMA RetakeExclusive ==
  ASSUME TypeOK, Exclusive, NEW t \in Threads, Released(t), ~busy, Retake(t),
         UNCHANGED class
  PROVE  Exclusive'
<1>1. \A s \in Threads : ~Holding(s)
  BY DEF Exclusive, Flags
<1>2. \A s \in Threads \ {t} : ~Released(s)
  BY DEF Exclusive, YieldKeepsItsTurn
<1>3. Flags'
  BY DEF TypeOK, Exclusive, Flags, Retake, Holding, Released
<1>4. OnePassAtATime'
  BY <1>1 DEF TypeOK, OnePassAtATime, Retake, Holding
<1>5. YieldKeepsItsTurn'
  BY <1>1, <1>2 DEF TypeOK, YieldKeepsItsTurn, Retake, Holding, Released
<1>. QED BY <1>3, <1>4, <1>5 DEF Exclusive

(* A release leaves no two threads in a pass.                                *)
LEMMA ReleaseExclusive ==
  ASSUME TypeOK, Exclusive, NEW t \in Threads, pc[t] = "hold", class[t] = Ingest,
         Release(t), NEW p \in {"yield", "pause"}, pc' = [pc EXCEPT ![t] = p]
  PROVE  Exclusive'
<1>1. \A s \in Threads \ {t} : ~Holding(s) /\ ~Released(s)
  BY DEF Exclusive, OnePassAtATime, YieldKeepsItsTurn, Holding
<1>2. \A s \in Threads : ~(pc'[s] \in {"enter", "hold"})
  BY <1>1 DEF TypeOK, Holding
<1>3. \A s \in Threads \ {t} : ~(pc'[s] \in {"yield", "pause", "retake"})
  BY <1>1 DEF TypeOK, Released
<1>4. class' = class
  BY DEF Release
<1>5. Flags'
  BY <1>2, <1>3, <1>4 DEF Flags, Holding, Released
<1>6. OnePassAtATime'
  BY <1>2 DEF OnePassAtATime, Holding
<1>7. YieldKeepsItsTurn'
  BY <1>2, <1>3, <1>4 DEF YieldKeepsItsTurn, Holding, Released
<1>. QED BY <1>5, <1>6, <1>7 DEF Exclusive

(* A step keeps the queue exclusive.                                          *)
LEMMA ExclusiveStep ==
  ASSUME TypeOK, CountersExact, Exclusive, [Next]_vars
  PROVE  Exclusive'
<1>1. ASSUME NEW t \in Threads, NEW c \in PassClass, lock(t, c) PROVE Exclusive'
  <2>1. CASE MayRun(c) /\ Grant(t, c, waiting)
    BY <1>1, <2>1, GrantExclusive, ZenonT(60) DEF lock, Released
  <2>2. CASE pc' = [pc EXCEPT ![t] = "wait"] /\ UNCHANGED busy
    BY <1>1, <2>2 DEF TypeOK, lock, Exclusive, Flags, OnePassAtATime, YieldKeepsItsTurn,
       Holding, Released
  <2>. QED BY <1>1, <2>1, <2>2 DEF lock
<1>2. ASSUME NEW t \in Threads, lock_wake(t) PROVE Exclusive'
  <2>0. class[t] \in PassClass /\ class' = [class EXCEPT ![t] = class[t]] /\ ~Released(t)
    BY <1>2 DEF TypeOK, lock_wake, Released
  <2>1. CASE MayRun(class[t]) /\ Grant(t, class[t], [waiting EXCEPT ![class[t]] = @ - 1])
    BY <2>0, <2>1, GrantExclusive, ZenonT(60)
  <2>2. CASE UNCHANGED <<queue, pc>>
    BY <1>2, <2>2 DEF lock_wake, queue, Exclusive, Flags, OnePassAtATime, YieldKeepsItsTurn,
       Holding, Released
  <2>. QED BY <1>2, <2>1, <2>2 DEF lock_wake
<1>3. ASSUME NEW t \in Threads, enter(t) PROVE Exclusive'
  BY <1>3 DEF TypeOK, enter, queue, Exclusive, Flags, OnePassAtATime, YieldKeepsItsTurn,
     Holding, Released
<1>4. ASSUME NEW t \in Threads, unlock(t) PROVE Exclusive'
  <2>1. \A s \in Threads \ {t} : ~Holding(s)
    BY <1>4 DEF unlock, Exclusive, OnePassAtATime, Holding
  <2>. QED BY <1>4, <2>1 DEF TypeOK, unlock, Exclusive, Flags, OnePassAtATime,
          YieldKeepsItsTurn, Holding, Released
<1>5. ASSUME NEW t \in Threads, unlock_notify(t) PROVE Exclusive'
  BY <1>5 DEF TypeOK, unlock_notify, queue, Exclusive, Flags, OnePassAtATime,
     YieldKeepsItsTurn, Holding, Released
<1>6. ASSUME NEW t \in Threads, yield(t) PROVE Exclusive'
  BY <1>6, ReleaseExclusive, Zenon DEF yield
<1>7. ASSUME NEW t \in Threads, yield_wake(t) PROVE Exclusive'
  <2>1. CASE ~busy /\ Retake(t)
    BY <1>7, <2>1, RetakeExclusive DEF yield_wake, Released
  <2>2. CASE UNCHANGED <<queue, pc, uncovered>>
    BY <1>7, <2>2 DEF yield_wake, queue, Exclusive, Flags, OnePassAtATime, YieldKeepsItsTurn,
       Holding, Released
  <2>. QED BY <1>7, <2>1, <2>2 DEF yield_wake
<1>8. ASSUME NEW t \in Threads, pause(t) PROVE Exclusive'
  BY <1>8, ReleaseExclusive, Zenon DEF pause
<1>9. ASSUME NEW t \in Threads, pause_over(t) PROVE Exclusive'
  <2>1. CASE ~busy /\ Retake(t)
    BY <1>9, <2>1, RetakeExclusive DEF pause_over, Released
  <2>2. CASE pc' = [pc EXCEPT ![t] = "retake"] /\ UNCHANGED <<queue, uncovered>>
    BY <1>9, <2>2 DEF TypeOK, pause_over, queue, Exclusive, Flags, OnePassAtATime,
       YieldKeepsItsTurn, Holding, Released
  <2>. QED BY <1>9, <2>1, <2>2 DEF pause_over
<1>10. ASSUME NEW t \in Threads, pause_wake(t) PROVE Exclusive'
  <2>1. CASE ~busy /\ Retake(t)
    BY <1>10, <2>1, RetakeExclusive DEF pause_wake, Released
  <2>2. CASE UNCHANGED <<queue, pc, uncovered>>
    BY <1>10, <2>2 DEF pause_wake, queue, Exclusive, Flags, OnePassAtATime, YieldKeepsItsTurn,
       Holding, Released
  <2>. QED BY <1>10, <2>1, <2>2 DEF pause_wake
<1>11. CASE UNCHANGED vars
  BY <1>11 DEF vars, queue, Exclusive, Flags, OnePassAtATime, YieldKeepsItsTurn,
     Holding, Released
<1>. QED
  BY <1>1, <1>2, <1>3, <1>4, <1>5, <1>6, <1>7, <1>8, <1>9, <1>10, <1>11 DEF Next

-----------------------------------------------------------------------------
(* Nobody overtakes a waiting ingestion twice: a verification is granted past *)
(* one only with an unused streak, and taking the queue back resets it.       *)
LEMMA GrantStreak ==
  ASSUME TypeOK, StreakBound, NEW t \in Threads, NEW c \in PassClass,
         NEW w \in [PassClass -> Nat], w[Ingest] <= waiting[Ingest],
         MayRun(c), Grant(t, c, w)
  PROVE  StreakBound'
<1>1. ASSUME yielding = 0 PROVE streak' <= kVerifyStreak
  <2>1. CASE c = Verify
    BY <1>1, <2>1 DEF TypeOK, MayRun, Grant, Longer, kVerifyStreak, PassClass, Ingest, Verify, First
  <2>2. CASE c = Ingest
    BY <1>1, <2>2 DEF TypeOK, Grant, kVerifyStreak, Ingest, Verify, First
  <2>3. CASE c = First
    BY <1>1, <2>3 DEF TypeOK, StreakBound, Grant, kVerifyStreak, Ingest, Verify, First
  <2>. QED BY <2>1, <2>2, <2>3 DEF PassClass
<1>. QED BY <1>1, Zenon DEF StreakBound, Grant, kVerifyStreak

(* Every step keeps the bound on the streak of verifications.                *)
LEMMA StreakStep ==
  ASSUME TypeOK, CountersExact, StreakBound, [Next]_vars
  PROVE  StreakBound'
<1>1. ASSUME NEW t \in Threads, NEW c \in PassClass, lock(t, c) PROVE StreakBound'
  <2>1. CASE MayRun(c) /\ Grant(t, c, waiting)
    <3>1. waiting \in [PassClass -> Nat] /\ waiting[Ingest] <= waiting[Ingest]
      BY DEF TypeOK, PassClass
    <3>. QED BY <2>1, <3>1, GrantStreak
  <2>2. CASE UNCHANGED <<streak, yielding>>
    BY <2>2 DEF StreakBound, kVerifyStreak
  <2>. QED BY <1>1, <2>1, <2>2 DEF lock
<1>2. ASSUME NEW t \in Threads, lock_wake(t) PROVE StreakBound'
  <2>1. CASE MayRun(class[t]) /\ Grant(t, class[t], [waiting EXCEPT ![class[t]] = @ - 1])
    <3>1. class[t] \in PassClass
      BY DEF TypeOK
    <3>2. waiting[class[t]] > 0
      BY <1>2, Counted DEF lock_wake
    <3>3. /\ [waiting EXCEPT ![class[t]] = @ - 1] \in [PassClass -> Nat]
          /\ [waiting EXCEPT ![class[t]] = @ - 1][Ingest] <= waiting[Ingest]
      BY <3>1, <3>2 DEF TypeOK, PassClass
    <3>. QED BY <2>1, <3>1, <3>3, GrantStreak, Zenon
  <2>2. CASE UNCHANGED <<queue, pc>>
    BY <2>2 DEF queue, StreakBound, kVerifyStreak
  <2>. QED BY <1>2, <2>1, <2>2 DEF lock_wake
<1>3. ASSUME NEW t \in Threads,
             enter(t) \/ unlock(t) \/ unlock_notify(t) \/ yield(t) \/ pause(t)
      PROVE  StreakBound'
  BY <1>3 DEF TypeOK, StreakBound, kVerifyStreak, queue, enter, unlock, unlock_notify,
     yield, pause, Release
<1>4. ASSUME NEW t \in Threads, yield_wake(t) \/ pause_over(t) \/ pause_wake(t)
      PROVE  StreakBound'
  BY <1>4 DEF StreakBound, kVerifyStreak, queue, yield_wake, pause_over, pause_wake, Retake
<1>5. CASE UNCHANGED vars
  BY <1>5 DEF StreakBound, kVerifyStreak, vars, queue
<1>. QED
  BY <1>1, <1>2, <1>3, <1>4, <1>5 DEF Next

(* Without creation failures, exactly the pass that holds the queue has work  *)
(* enqueued that prompt_pass_done does not cover.                             *)
LEMMA DeviceStep ==
  ASSUME TypeOK, DeviceCovered, [Next]_vars
  PROVE  DeviceCovered'
<1> SUFFICES ASSUME ~CreateFails PROVE uncovered' = {t \in Threads : pc'[t] = "hold"}
  BY DEF DeviceCovered
<1>0. uncovered = {t \in Threads : pc[t] = "hold"}
  BY DEF DeviceCovered
<1>1. ASSUME NEW t \in Threads, NEW c \in PassClass, lock(t, c)
      PROVE  uncovered' = {s \in Threads : pc'[s] = "hold"}
  BY <1>0, <1>1 DEF TypeOK, lock, Grant
<1>2. ASSUME NEW t \in Threads, lock_wake(t)
      PROVE  uncovered' = {s \in Threads : pc'[s] = "hold"}
  BY <1>0, <1>2 DEF TypeOK, lock_wake, Grant
<1>3. ASSUME NEW t \in Threads, enter(t) \/ unlock_notify(t)
      PROVE  uncovered' = {s \in Threads : pc'[s] = "hold"}
  BY <1>0, <1>3 DEF TypeOK, enter, unlock_notify
<1>4. ASSUME NEW t \in Threads, unlock(t)
      PROVE  uncovered' = {s \in Threads : pc'[s] = "hold"}
  BY <1>0, <1>4 DEF TypeOK, unlock, Record
<1>5. ASSUME NEW t \in Threads, yield(t) \/ pause(t)
      PROVE  uncovered' = {s \in Threads : pc'[s] = "hold"}
  BY <1>0, <1>5 DEF TypeOK, yield, pause, Release, Record
<1>6. ASSUME NEW t \in Threads, yield_wake(t)
      PROVE  uncovered' = {s \in Threads : pc'[s] = "hold"}
  BY <1>0, <1>6 DEF TypeOK, yield_wake, Retake
<1>7. ASSUME NEW t \in Threads, pause_over(t) \/ pause_wake(t)
      PROVE  uncovered' = {s \in Threads : pc'[s] = "hold"}
  BY <1>0, <1>7 DEF TypeOK, pause_over, pause_wake, Retake
<1>8. CASE UNCHANGED vars
  BY <1>0, <1>8 DEF vars
<1>. QED
  BY <1>1, <1>2, <1>3, <1>4, <1>5, <1>6, <1>7, <1>8 DEF Next

-----------------------------------------------------------------------------
(* While the queue is held nobody's condition holds; and a thread about to    *)
(* call notify_all excuses every sleeper.                                     *)
LEMMA HeldNoCondition ==
  ASSUME busy' = TRUE
  PROVE  NoLostWakeup'
BY DEF NoLostWakeup, Condition, MayRun

(* While a thread is about to notify, no wake-up is lost.                    *)
LEMMA NotifierExcuses ==
  ASSUME NEW u \in Threads, pc'[u] = "notify"
  PROVE  NoLostWakeup'
BY DEF NoLostWakeup

(* More waiters make no condition true.                                       *)
LEMMA WaiterAddsNoCondition ==
  ASSUME TypeOK, NEW t \in Threads, NEW c \in PassClass, lock(t, c), ~MayRun(c),
         waiting' = [waiting EXCEPT ![c] = @ + 1], pc' = [pc EXCEPT ![t] = "wait"],
         UNCHANGED <<busy, holder, streak, yielding, owed>>
  PROVE  /\ ~Condition(t)'
         /\ \A s \in Threads \ {t} : Condition(s)' => Condition(s)
<1>0. class'[t] = c /\ \A s \in Threads \ {t} : class'[s] = class[s] /\ pc'[s] = pc[s]
  BY DEF TypeOK, lock
<1>1. \A k \in PassClass : waiting[k] \in Nat /\ waiting'[k] \in Nat /\ waiting'[k] >= waiting[k]
  BY DEF TypeOK
<1>2. \A k \in PassClass : k # c => waiting'[k] = waiting[k]
  BY DEF TypeOK
<1>3. \A k \in PassClass : MayRun(k)' => MayRun(k)
  BY <1>1 DEF MayRun, PassClass, Ingest, Verify, First
<1>4. ~MayRun(c)'
  BY <1>3
<1>5. ~Condition(t)'
  BY <1>0, <1>4 DEF TypeOK, Condition, MayRun
<1>6. VerifyWaiting' = 0 => VerifyWaiting = 0
  BY <1>1 DEF VerifyWaiting, PassClass
<1>7. ASSUME NEW s \in Threads \ {t}, Condition(s)' PROVE Condition(s)
  <2>1. class[s] \in PassClass
    BY DEF TypeOK
  <2>2. CASE pc[s] = "wait"
    BY <1>0, <1>3, <1>7, <2>1, <2>2 DEF Condition, MayRun
  <2>3. CASE pc[s] = "yield"
    BY <1>0, <1>6, <1>7, <2>3 DEF Condition
  <2>4. CASE pc[s] = "retake"
    BY <1>0, <1>7, <2>4 DEF Condition
  <2>. QED BY <1>0, <1>7, <2>2, <2>3, <2>4 DEF Condition
<1>. QED BY <1>5, <1>7

(* A step loses no wake-up.                                                   *)
LEMMA WakeStep ==
  ASSUME TypeOK, Exclusive, NoLostWakeup, [Next]_vars
  PROVE  NoLostWakeup'
<1>1. ASSUME NEW t \in Threads, NEW c \in PassClass, lock(t, c) PROVE NoLostWakeup'
  <2>1. CASE Grant(t, c, waiting)
    BY <2>1, HeldNoCondition DEF Grant
  <2>2. CASE /\ ~MayRun(c)
             /\ waiting' = [waiting EXCEPT ![c] = @ + 1]
             /\ pc' = [pc EXCEPT ![t] = "wait"]
             /\ UNCHANGED <<busy, holder, streak, yielding, owed>>
    <3>1. ~Condition(t)' /\ \A s \in Threads \ {t} : Condition(s)' => Condition(s)
      BY <1>1, <2>2, WaiterAddsNoCondition, ZenonT(60)
    <3>2. \A s \in Threads \ {t} : s \in Sleepers' \ awake' => s \in Sleepers \ awake
      BY <1>1, <2>2 DEF TypeOK, Sleepers, lock
    <3>3. \A u \in Threads : pc[u] = "notify" => pc'[u] = "notify"
      BY <1>1, <2>2 DEF TypeOK, lock
    <3>4. Sleepers' \subseteq Threads
      BY DEF Sleepers
    <3>. QED BY <3>1, <3>2, <3>3, <3>4 DEF NoLostWakeup
  <2>. QED BY <1>1, <2>1, <2>2 DEF lock
<1>2. ASSUME NEW t \in Threads, lock_wake(t) PROVE NoLostWakeup'
  <2>1. CASE Grant(t, class[t], [waiting EXCEPT ![class[t]] = @ - 1])
    BY <2>1, HeldNoCondition DEF Grant
  <2>2. CASE ~MayRun(class[t]) /\ UNCHANGED <<queue, pc>>
    <3>1. \A s \in Threads : Condition(s)' <=> Condition(s)
      BY <1>2, <2>2 DEF lock_wake, queue, Condition, MayRun, VerifyWaiting
    <3>2. ~Condition(t)
      BY <1>2, <2>2 DEF lock_wake, Condition
    <3>. QED BY <1>2, <2>2, <3>1, <3>2 DEF lock_wake, NoLostWakeup, Sleepers
  <2>. QED BY <1>2, <2>1, <2>2 DEF lock_wake
<1>3. ASSUME NEW t \in Threads, enter(t) PROVE NoLostWakeup'
  <2>1. busy' = TRUE
    BY <1>3 DEF TypeOK, Exclusive, Flags, Holding, enter, queue
  <2>. QED BY <2>1, HeldNoCondition
<1>4. ASSUME NEW t \in Threads, unlock(t) PROVE NoLostWakeup'
  <2>1. pc'[t] = "notify"
    BY <1>4 DEF TypeOK, unlock
  <2>. QED BY <2>1, NotifierExcuses
<1>5. ASSUME NEW t \in Threads, unlock_notify(t) PROVE NoLostWakeup'
  BY <1>5 DEF TypeOK, unlock_notify, notify_all, Sleepers, NoLostWakeup
<1>6. ASSUME NEW t \in Threads, yield(t) PROVE NoLostWakeup'
  <2>1. Sleepers' \ awake' \subseteq {t}
    BY <1>6 DEF TypeOK, yield, Release, notify_all, Sleepers
  <2>2. owed' > 0 /\ VerifyWaiting' > 0 /\ pc'[t] = "yield"
    BY <1>6 DEF TypeOK, yield, Release, VerifyWaiting
  <2>3. ~Condition(t)'
    BY <2>2 DEF Condition
  <2>. QED BY <2>1, <2>3 DEF NoLostWakeup
<1>7. ASSUME NEW t \in Threads, yield_wake(t) PROVE NoLostWakeup'
  <2>1. CASE Retake(t)
    BY <2>1, HeldNoCondition DEF Retake
  <2>2. CASE ~(~busy /\ (owed = 0 \/ VerifyWaiting = 0)) /\ UNCHANGED <<queue, pc, uncovered>>
    <3>1. \A s \in Threads : Condition(s)' <=> Condition(s)
      BY <1>7, <2>2 DEF yield_wake, queue, Condition, MayRun, VerifyWaiting
    <3>2. ~Condition(t)
      BY <1>7, <2>2 DEF yield_wake, Condition
    <3>. QED BY <1>7, <2>2, <3>1, <3>2 DEF yield_wake, NoLostWakeup, Sleepers
  <2>. QED BY <1>7, <2>1, <2>2 DEF yield_wake
<1>8. ASSUME NEW t \in Threads, pause(t) PROVE NoLostWakeup'
  <2>1. Sleepers' \ awake' = {}
    BY <1>8 DEF TypeOK, pause, Release, notify_all, Sleepers
  <2>. QED BY <2>1 DEF NoLostWakeup
<1>9. ASSUME NEW t \in Threads, pause_over(t) PROVE NoLostWakeup'
  <2>1. busy' = TRUE
    BY <1>9 DEF TypeOK, pause_over, Retake, queue
  <2>. QED BY <2>1, HeldNoCondition
<1>10. ASSUME NEW t \in Threads, pause_wake(t) PROVE NoLostWakeup'
  <2>1. busy' = TRUE
    BY <1>10 DEF TypeOK, pause_wake, Retake, queue
  <2>. QED BY <2>1, HeldNoCondition
<1>11. CASE UNCHANGED vars
  BY <1>11 DEF vars, queue, NoLostWakeup, Sleepers, Condition, MayRun, VerifyWaiting
<1>. QED
  BY <1>1, <1>2, <1>3, <1>4, <1>5, <1>6, <1>7, <1>8, <1>9, <1>10, <1>11 DEF Next

-----------------------------------------------------------------------------
(* The invariant holds in every reachable state.                             *)
LEMMA Inductive == Spec => []IInv
<1>1. IInv /\ [Next]_vars => IInv'
  BY TypeStep, CountersStep, ExclusiveStep, StreakStep, WakeStep, DeviceStep
     DEF IInv, Exclusive
<1>. QED BY InitIInv, <1>1, PTL DEF Spec

(* The fields of the queue keep their types.                                  *)
THEOREM TypeCorrect == Spec => []TypeOK
<1>1. IInv => TypeOK
  BY DEF IInv
<1>. QED BY <1>1, Inductive, PTL

(* Two lanes are never in a prompt pass together, through every yield, pause  *)
(* and failure.                                                               *)
THEOREM Exclusion == Spec => []OnePassAtATime
<1>1. IInv => OnePassAtATime
  BY DEF IInv
<1>. QED BY <1>1, Inductive, PTL

(* An ingestion that handed the queue over has its turn back before any other *)
(* ingestion.                                                                 *)
THEOREM TurnKept == Spec => []YieldKeepsItsTurn
<1>1. IInv => YieldKeepsItsTurn
  BY DEF IInv
<1>. QED BY <1>1, Inductive, PTL

(* Outside a hand-over at most kVerifyStreak verification passes in a row      *)
(* overtake a waiting ingestion.                                              *)
THEOREM Alternation == Spec => []StreakBound
<1>1. IInv => StreakBound
  BY DEF IInv
<1>. QED BY <1>1, Inductive, PTL

(* waiting and yielding count exactly the threads they stand for.             *)
THEOREM CountersRight == Spec => []CountersExact
<1>1. IInv => CountersExact
  BY DEF IInv
<1>. QED BY <1>1, Inductive, PTL

(* A sleeper whose condition holds has a notify_all to come.                  *)
THEOREM WakeupsKept == Spec => []NoLostWakeup
<1>1. IInv => NoLostWakeup
  BY DEF IInv
<1>. QED BY <1>1, Inductive, PTL

(* When the event can be created, a pass enqueues only behind all the work of  *)
(* the passes before it.                                                      *)
THEOREM DeviceOrder == ASSUME ~CreateFails PROVE Spec => []DeviceOrdered
<1>1. IInv => DeviceOrdered
  BY DEF IInv, DeviceCovered, DeviceOrdered, OnePassAtATime, Holding
<1>. QED BY <1>1, Inductive, PTL
=============================================================================
