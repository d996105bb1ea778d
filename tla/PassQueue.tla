------------------------------ MODULE PassQueue ------------------------------
(***************************************************************************)
(* The queue of prompt passes (Impl::PassQueue, PromptPass, LinePassOrder  *)
(* in exl3_engine_core.cpp).  Passes share the model's prompt-scale pool,  *)
(* so one runs at a time, in three classes: prompt ingestions, verification *)
(* passes, and the first verification of a request.  An ingestion may hand *)
(* the queue over between two of its blocks (yield, pause).                *)
(*                                                                         *)
(* Every critical section of PassQueue::mutex is one action.  The          *)
(* condition variable is explicit: a waiting thread re-reads its condition *)
(* only when it is in awake, notify_all puts every waiter there, and a     *)
(* waiter that finds its condition false leaves it.                        *)
(*                                                                         *)
(* verify_done is only ever compared with a target fixed when a yield      *)
(* starts, so the model keeps the difference: owed.                        *)
(***************************************************************************)
EXTENDS Naturals, FiniteSets

CONSTANTS
  Threads,        \* the lanes; the passes of a lane's line worker follow its own
  FirstPasses,    \* first-verification passes of one request (1 exclusive, 3 on a line)
  VerifyPasses,   \* bound: later verification passes of one request
  CreateFails,    \* may cudaEventCreateWithFlags fail
  WaitFails       \* may cudaStreamWaitEvent fail when a pass enters

ASSUME ConfigAssumption ==
  /\ IsFiniteSet(Threads)
  /\ FirstPasses \in Nat /\ VerifyPasses \in Nat
  /\ CreateFails \in BOOLEAN /\ WaitFails \in BOOLEAN

Ingest == "kIngestPass"
Verify == "kVerifyPass"
First  == "kFirstVerifyPass"
PassClass == {Ingest, Verify, First}

kVerifyStreak == 1

VARIABLES
  busy, holder, waiting, streak, yielding,   \* the fields of PassQueue
  owed,       \* target - verify_done of the yield in progress, 0 once reached
  pc, class,  \* where each thread is, and the class of its last lock
  awake,      \* threads on the condition variable that must re-read their condition
  left,       \* verification passes the lane's request may still run
  event,      \* prompt_pass_done has been created
  uncovered   \* threads whose enqueued work prompt_pass_done does not cover

queue == <<busy, holder, waiting, streak, yielding, owed>>
vars == <<queue, pc, class, awake, left, event, uncovered>>

Init ==
  /\ busy = FALSE
  /\ holder = Ingest
  /\ waiting = [c \in PassClass |-> 0]
  /\ streak = 0
  /\ yielding = 0
  /\ owed = 0
  /\ pc = [t \in Threads |-> "idle"]
  /\ class = [t \in Threads |-> Verify]
  /\ awake = {}
  /\ left = [t \in Threads |-> 0]
  /\ event = FALSE
  /\ uncovered = {}

-----------------------------------------------------------------------------
(* Mutants of MayRun: a first verification does not look at busy; an         *)
(* ingestion does not look at yielding.                                      *)
MayRunUnchecked(c) ==
  \/ c = First
  \/ c # First /\ ~busy /\ waiting[First] = 0
MayRunPastYield(c) ==
  /\ ~busy
  /\ \/ c = First
     \/ c = Verify /\ waiting[First] = 0
     \/ c = Ingest /\ waiting[First] = 0 /\ waiting[Verify] = 0

(* The condition PassQueue::lock waits for.                                *)
MayRun(c) ==
  /\ ~busy
  /\ \/ c = First
     \/ /\ c = Verify
        /\ waiting[First] = 0
        /\ yielding > 0 \/ waiting[Ingest] = 0 \/ streak < kVerifyStreak
     \/ /\ c = Ingest
        /\ waiting[First] = 0
        /\ yielding = 0
        /\ waiting[Verify] = 0 \/ streak >= kVerifyStreak

(* streak is only compared with kVerifyStreak: the model stops counting one  *)
(* above it.                                                                 *)
Longer(n) == IF n > kVerifyStreak THEN n ELSE n + 1

(* Mutant of Grant: an ingestion does not end the streak.                   *)
GrantKeepsStreak(t, c, w) ==
  /\ waiting' = w
  /\ streak' = IF c = Verify /\ w[Ingest] > 0 THEN Longer(streak) ELSE streak
  /\ busy' = TRUE
  /\ holder' = c
  /\ pc' = [pc EXCEPT ![t] = "enter"]
  /\ UNCHANGED <<yielding, owed>>

(* What lock does once its condition holds; w is waiting without the caller. *)
Grant(t, c, w) ==
  /\ waiting' = w
  /\ streak' = CASE c = Verify -> IF w[Ingest] > 0 THEN Longer(streak) ELSE 0
                 [] c = Ingest -> 0
                 [] c = First  -> streak
  /\ busy' = TRUE
  /\ holder' = c
  /\ pc' = [pc EXCEPT ![t] = "enter"]
  /\ UNCHANGED <<yielding, owed>>

Sleepers == {t \in Threads : pc[t] \in {"wait", "yield", "retake"}}
notify_all == awake' = Sleepers

(* A request ingests its prompt, runs its first verifications, then         *)
(* verification passes until it ends; a request may end after any pass.     *)
NextPass(t, c) ==
  \/ c = Ingest
  \/ c = First /\ left[t] > VerifyPasses
  \/ c = Verify /\ left[t] \in 1..VerifyPasses

lock(t, c) ==
  /\ pc[t] = "idle"
  /\ NextPass(t, c)
  /\ class' = [class EXCEPT ![t] = c]
  /\ left' = [left EXCEPT ![t] = IF c = Ingest THEN FirstPasses + VerifyPasses ELSE @ - 1]
  /\ \/ MayRun(c) /\ Grant(t, c, waiting)
     \/ /\ ~MayRun(c)
        /\ waiting' = [waiting EXCEPT ![c] = @ + 1]
        /\ pc' = [pc EXCEPT ![t] = "wait"]
        /\ UNCHANGED <<busy, holder, streak, yielding, owed>>
  /\ UNCHANGED <<awake, event, uncovered>>

(* A notified waiter re-reads the condition of lock.                       *)
lock_wake(t) ==
  /\ pc[t] = "wait" /\ t \in awake
  /\ awake' = awake \ {t}
  /\ \/ /\ MayRun(class[t])
        /\ Grant(t, class[t], [waiting EXCEPT ![class[t]] = @ - 1])
     \/ ~MayRun(class[t]) /\ UNCHANGED <<queue, pc>>
  /\ UNCHANGED <<class, left, event, uncovered>>

(* The stream of the pass waits for prompt_pass_done; a failure throws out  *)
(* of the constructor (PromptPass) or of enter (LinePassOrder), after lock  *)
(* and before there is anything whose destructor would unlock.              *)
enter(t) ==
  /\ pc[t] = "enter"
  /\ \/ /\ pc' = [pc EXCEPT ![t] = "hold"]
        /\ uncovered' = uncovered \cup {t}
     \/ /\ WaitFails /\ event
        /\ pc' = [pc EXCEPT ![t] = "failed"]
        /\ UNCHANGED uncovered
  /\ UNCHANGED <<queue, class, awake, left, event>>

(* Record prompt_pass_done on the pass's stream, created if need be; when it *)
(* cannot be created the pass goes on without.                              *)
Record(t) ==
  \/ event' = TRUE /\ uncovered' = uncovered \ {t}
  \/ CreateFails /\ ~event /\ UNCHANGED <<event, uncovered>>

(* ~PromptPass / leave: record the event on the pass's stream, which waited *)
(* for the previous record, then unlock.  notify_all comes after the mutex  *)
(* is released.                                                             *)
unlock(t) ==
  /\ pc[t] = "hold"
  /\ Record(t)
  /\ busy' = FALSE
  /\ owed' = IF holder # Ingest /\ owed > 0 THEN owed - 1 ELSE owed
  /\ pc' = [pc EXCEPT ![t] = "notify"]
  /\ UNCHANGED <<holder, waiting, streak, yielding, class, awake, left>>

(* Mutant of unlock_notify: notify_one.                                     *)
UnlockNotifyOne(t) ==
  /\ pc[t] = "notify"
  /\ pc' = [pc EXCEPT ![t] = "idle"]
  /\ IF Sleepers \ awake = {} THEN UNCHANGED awake
     ELSE \E s \in Sleepers \ awake : awake' = awake \cup {s}
  /\ UNCHANGED <<queue, class, left, event, uncovered>>

unlock_notify(t) ==
  /\ pc[t] = "notify"
  /\ pc' = [pc EXCEPT ![t] = "idle"]
  /\ notify_all
  /\ UNCHANGED <<queue, class, left, event, uncovered>>

-----------------------------------------------------------------------------
(* Mutant of Release: no notify.                                            *)
ReleaseSilent(t) ==
  /\ busy' = FALSE
  /\ yielding' = yielding + 1
  /\ Record(t)
  /\ UNCHANGED <<holder, waiting, streak, class, left, awake>>

Release(t) ==
  /\ busy' = FALSE
  /\ yielding' = yielding + 1
  /\ Record(t)          \* by the prefill callback, before
  /\ notify_all
  /\ UNCHANGED <<holder, waiting, streak, class, left>>

(* Takes the queue back; the stream then waits for the last record.         *)
Retake(t) ==
  /\ yielding' = yielding - 1
  /\ busy' = TRUE
  /\ holder' = Ingest
  /\ streak' = 0
  /\ owed' = 0
  /\ pc' = [pc EXCEPT ![t] = "hold"]
  /\ uncovered' = uncovered \cup {t}
  /\ UNCHANGED waiting

VerifyWaiting == waiting[Verify] + waiting[First]

(* The prefill callback between two blocks: yield when verification waits.  *)
yield(t) ==
  /\ pc[t] = "hold" /\ class[t] = Ingest
  /\ VerifyWaiting > 0
  /\ Release(t)
  /\ owed' = VerifyWaiting
  /\ pc' = [pc EXCEPT ![t] = "yield"]

yield_wake(t) ==
  /\ pc[t] = "yield" /\ t \in awake
  /\ awake' = awake \ {t}
  /\ IF ~busy /\ (owed = 0 \/ VerifyWaiting = 0)
     THEN Retake(t)
     ELSE UNCHANGED <<queue, pc, uncovered>>
  /\ UNCHANGED <<class, left, event>>

(* Decode-priority policy: stay released until the other lanes decoded      *)
(* enough rounds or the limit passes.  The loop's timed waits read nothing  *)
(* of the queue.                                                            *)
pause(t) ==
  /\ pc[t] = "hold" /\ class[t] = Ingest
  /\ Release(t)
  /\ pc' = [pc EXCEPT ![t] = "pause"]
  /\ UNCHANGED owed

pause_over(t) ==
  /\ pc[t] = "pause"
  /\ \/ ~busy /\ Retake(t)
     \/ busy /\ pc' = [pc EXCEPT ![t] = "retake"] /\ UNCHANGED <<queue, uncovered>>
  /\ UNCHANGED <<class, awake, left, event>>

pause_wake(t) ==
  /\ pc[t] = "retake" /\ t \in awake
  /\ awake' = awake \ {t}
  /\ \/ ~busy /\ Retake(t)
     \/ busy /\ UNCHANGED <<queue, pc, uncovered>>
  /\ UNCHANGED <<class, left, event>>

Next ==
  \E t \in Threads :
    \/ \E c \in PassClass : lock(t, c)
    \/ lock_wake(t)
    \/ enter(t)
    \/ unlock(t)
    \/ unlock_notify(t)
    \/ yield(t)
    \/ yield_wake(t)
    \/ pause(t)
    \/ pause_over(t)
    \/ pause_wake(t)

Spec == Init /\ [][Next]_vars

(* A thread that can take a step of its own eventually takes it: it holds   *)
(* the mutex for a bounded time and a pause has a limit.  A pass ends,      *)
(* however often it yields: a prompt has finitely many blocks.  Nothing is  *)
(* assumed of the race between a yielded ingestion and arriving passes.     *)
ThreadStep(t) ==
  \/ lock_wake(t) \/ enter(t) \/ unlock_notify(t)
  \/ yield_wake(t) \/ pause_over(t) \/ pause_wake(t)

Fairness ==
  \A t \in Threads :
    /\ WF_vars(ThreadStep(t))
    /\ SF_vars(unlock(t))

FairSpec == Spec /\ Fairness

-----------------------------------------------------------------------------
Holding(t) == pc[t] \in {"enter", "hold"}
Released(t) == pc[t] \in {"yield", "pause", "retake"}

TypeOK ==
  /\ busy \in BOOLEAN
  /\ holder \in PassClass
  /\ waiting \in [PassClass -> Nat]
  /\ streak \in Nat
  /\ yielding \in Nat
  /\ owed \in Nat
  /\ pc \in [Threads -> {"idle", "wait", "enter", "hold", "notify",
                         "yield", "pause", "retake", "failed"}]
  /\ class \in [Threads -> PassClass]
  /\ awake \subseteq Threads
  /\ left \in [Threads -> Nat]
  /\ event \in BOOLEAN
  /\ uncovered \subseteq Threads

(* One pass at a time: two threads never hold the queue together, whatever   *)
(* yields and pauses hand it over in between (lock, yield, pause).           *)
OnePassAtATime ==
  \A s, t \in Threads : Holding(s) /\ Holding(t) => s = t

(* Device order: when a pass enqueues its work, the event its stream waited   *)
(* for covers every other pass's work, also the blocks an ingestion enqueued  *)
(* before it yielded (prompt_pass_done in PromptPass and the prefill yield).  *)
DeviceOrdered ==
  \A t \in Threads : pc[t] = "hold" => uncovered = {t}

(* An ingestion that handed the queue over takes it back ahead of every other *)
(* ingestion: no other one runs, or hands it over, until then (the yielding   *)
(* test of lock).                                                             *)
YieldKeepsItsTurn ==
  \A s, t \in Threads :
    Released(s) /\ s # t => ~Released(t) /\ ~(Holding(t) /\ class[t] = Ingest)

(* Alternation: outside a yield at most kVerifyStreak verification passes in a *)
(* row overtake the ingestions that wait (streak in lock, yield and pause).    *)
StreakBound == yielding = 0 => streak <= kVerifyStreak

(* The counters the conditions read are the threads they stand for.           *)
CountersExact ==
  /\ \A c \in PassClass :
       waiting[c] = Cardinality({t \in Threads : pc[t] = "wait" /\ class[t] = c})
  /\ yielding = Cardinality({t \in Threads : Released(t)})

Condition(t) ==
  \/ pc[t] = "wait" /\ MayRun(class[t])
  \/ pc[t] = "yield" /\ ~busy /\ (owed = 0 \/ VerifyWaiting = 0)
  \/ pc[t] = "retake" /\ ~busy

(* No lost wake-up: a thread asleep on the condition variable whose condition *)
(* holds has a notify_all still to come (unlock notifies after the mutex).    *)
NoLostWakeup ==
  \A t \in Sleepers \ awake :
    Condition(t) => \E u \in Threads : pc[u] = "notify"

(* A constructor that throws on the event wait leaves the queue locked.       *)
Stuck == \E t \in Threads : pc[t] = "failed"

(* Ingestions are not starved by verification passes: when one waits, or has  *)
(* yielded or paused for the passes that were waiting then, one runs again.   *)
IngestServed ==
  (waiting[Ingest] > 0 \/ yielding > 0) ~> ((busy /\ holder = Ingest) \/ Stuck)

(* Nor is a verification starved by ingestions or by first verifications.     *)
VerifyServed == waiting[Verify] > 0 ~> ((busy /\ holder = Verify) \/ Stuck)

=============================================================================
