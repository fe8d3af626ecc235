------------------------- MODULE SimpleTimerProofs -------------------------
(***************************************************************************)
(* The invariants of SimpleTimer for any number of slots, any width of the *)
(* clock and any set of delays: run() calls no empty slot, counts its      *)
(* calls, leaves no dead timer behind and is never early.                  *)
(***************************************************************************)
EXTENDS SimpleTimer, FiniteSetTheorems, TLAPS

(* setTimer leaves numRuns alone, so a free slot must already hold zero *)
FreeSlotsReset == \A i \in Slot : ~callbacks[i] => numRuns[i] = 0

IInv ==
  /\ TypeOK
  /\ CountsSlots
  /\ NoNullCall
  /\ NoZombie
  /\ RunsAreCalls
  /\ NeverEarly
  /\ FreeSlotsReset

(* The slots are finitely many, so the used ones are too. *)
LEMMA UsedFinite == IsFiniteSet(Slot) /\ IsFiniteSet(Used)
<1>1. IsFiniteSet(Slot)
  BY SimpleTimerAssumption, FS_Interval DEF Slot
<1>2. Used \subseteq Slot
  BY DEF Used
<1>3. QED BY <1>1, <1>2, FS_Subset

(* Filling a free slot and emptying a used one change the count by one. *)
LEMMA UsedAdd ==
  ASSUME TypeOK, CountsSlots, NEW i \in Slot, ~callbacks[i],
         callbacks' = [callbacks EXCEPT ![i] = TRUE],
         numTimers' = numTimers + 1
  PROVE  CountsSlots'
<1>1. Used' = Used \cup {i} /\ i \notin Used
  BY DEF Used, TypeOK
<1>2. Cardinality(Used') = Cardinality(Used) + 1
  BY <1>1, UsedFinite, FS_AddElement
<1>3. QED BY <1>2 DEF CountsSlots

LEMMA UsedRemove ==
  ASSUME TypeOK, CountsSlots, NEW i \in Slot, callbacks[i],
         callbacks' = [callbacks EXCEPT ![i] = FALSE],
         numTimers' = numTimers - 1
  PROVE  CountsSlots'
<1>1. Used' = Used \ {i} /\ i \in Used
  BY DEF Used, TypeOK
<1>2. Cardinality(Used') = Cardinality(Used) - 1
  BY <1>1, UsedFinite, FS_RemoveElement
<1>3. QED BY <1>2 DEF CountsSlots

(* numTimers stays in its range because it counts a subset of the slots. *)
LEMMA CountInRange ==
  ASSUME CountsSlots' PROVE numTimers' \in 0 .. MAX_TIMERS
<1>1. Cardinality(Slot) = MAX_TIMERS
  BY SimpleTimerAssumption, FS_Interval DEF Slot
<1>2. Used' \subseteq Slot
  BY DEF Used
<1>3. Cardinality(Used') <= MAX_TIMERS /\ Cardinality(Used') \in Nat
  BY <1>1, <1>2, UsedFinite, FS_Subset, FS_CardinalityType
<1>4. QED BY <1>3, SimpleTimerAssumption DEF CountsSlots

(* The unsigned operations stay in range and undo each other. *)
LEMMA Clock ==
  ASSUME NEW a \in Millis, NEW b \in Millis
  PROVE  /\ Plus(a, b) \in Millis
         /\ Minus(a, b) \in Millis
         /\ Minus(a, a) = 0
         /\ Minus(a, b) + 1 < Wrap => Minus(Plus(a, 1), b) = Minus(a, b) + 1
         /\ \A d \in Millis : d <= Minus(a, b) =>
              Minus(a, Plus(b, d)) = Minus(a, b) - d
BY SimpleTimerAssumption DEF Millis, Plus, Minus

LEMMA InitIInv == Init => IInv
<1> SUFFICES ASSUME Init PROVE IInv
  OBVIOUS
<1>1. TypeOK
  BY SimpleTimerAssumption
  DEF Init, TypeOK, Slot, Millis, DefCall, DEFCALL_DONTRUN
<1>2. Used = {}
  BY DEF Init, Used
<1>3. CountsSlots
  BY <1>2, FS_EmptySet DEF Init, CountsSlots
<1>4. NoNullCall
  BY DEF Init, NoNullCall, Pending
<1>5. QED
  BY <1>1, <1>2, <1>3, <1>4
  DEF IInv, NoZombie, RunsAreCalls, NeverEarly, Paced, FreeSlotsReset, Init

-----------------------------------------------------------------------------
(***************************************************************************)
(* Preservation, one lemma per group of actions.                           *)
(***************************************************************************)

(* setTimer: the slot is free, hence unmarked and with numRuns at zero. *)
LEMMA SetStep ==
  ASSUME IInv, NEW i \in Slot, NEW d \in Delays, NEW n \in Runs, Set(i, d, n)
  PROVE  IInv'
<1> USE DEF IInv, Set, SketchRuns, SetTimer, FirstFreeSlot
<1>1. ~callbacks[i] /\ numRuns[i] = 0
  BY DEF Used, FreeSlotsReset
<1>2. CountsSlots'
  BY <1>1, UsedAdd
<1>3. TypeOK'
  BY <1>2, CountInRange, SimpleTimerAssumption DEF TypeOK, Millis
<1>4. NoNullCall'
  BY DEF NoNullCall, Pending, TypeOK
<1>5. ~Pending(i)'
  BY <1>1 DEF NoNullCall, Pending, TypeOK
<1>6. NoZombie'
  BY <1>1, <1>5, SimpleTimerAssumption
  DEF NoZombie, TypeOK, Used, Pending, Finite, RUN_FOREVER
<1>7. RunsAreCalls'
  BY <1>1, <1>5 DEF RunsAreCalls, TypeOK, Used, Pending, Finite
<1>8. NeverEarly'
  BY Clock DEF NeverEarly, Paced, TypeOK, Used
<1>9. FreeSlotsReset'
  BY DEF FreeSlotsReset, TypeOK
<1>10. QED BY <1>2, <1>3, <1>4, <1>6, <1>7, <1>8, <1>9

(* deleteTimer, from the sketch or at the end of a timer's last run. *)
LEMMA DeleteStep ==
  ASSUME IInv, NEW i \in Slot, DeleteTimer(i), UNCHANGED millis,
         \/ UNCHANGED <<pc, pos, defcall>> /\ pc \in {"loop", "callback"}
         \/ /\ pc = "callback" /\ pc' = "calling" /\ i = pos
            /\ pos' = pos + 1 /\ defcall' = DEFCALL_DONTRUN
  PROVE  IInv'
<1> USE DEF IInv, DeleteTimer
<1>1. callbacks[i]
  BY DEF Used
<1>2. CountsSlots'
  BY <1>1, UsedRemove DEF TypeOK
<1>3. TypeOK'
  <2>1. pos' \in 0 .. MAX_TIMERS /\ (pc' = "callback" => pos' \in Slot)
    <3>1. CASE UNCHANGED <<pc, pos, defcall>>
      BY <3>1 DEF TypeOK
    <3>2. CASE pc' = "calling" /\ i = pos /\ pos' = pos + 1
      BY <3>2, SimpleTimerAssumption DEF Slot
    <3>3. QED BY <3>1, <3>2
  <2>2. numTimers' \in 0 .. MAX_TIMERS
    BY <1>2, CountInRange
  <2>3. QED
    BY <2>1, <2>2, SimpleTimerAssumption
    DEF TypeOK, Millis, DefCall, DEFCALL_DONTRUN
<1>4. \A j \in Slot : Pending(j)' <=> Pending(j) /\ j # i
  BY DEF Pending, TypeOK, Slot
<1>5. NoNullCall'
  BY <1>4 DEF NoNullCall, TypeOK
<1>6. NoZombie'
  BY <1>4, SimpleTimerAssumption DEF NoZombie, TypeOK, Used, Finite
<1>7. RunsAreCalls'
  BY <1>4 DEF RunsAreCalls, TypeOK, Used, Finite
<1>8. NeverEarly'
  BY DEF NeverEarly, Paced, TypeOK, Used
<1>9. FreeSlotsReset'
  BY DEF FreeSlotsReset, TypeOK
<1>10. QED BY <1>2, <1>3, <1>5, <1>6, <1>7, <1>8, <1>9

(* restartTimer, enable, disable, toggle leave counts and marks alone. *)
LEMMA AdjustStep ==
  ASSUME IInv, NEW i \in Slot,
         Restart(i) \/ Enable(i) \/ Disable(i) \/ Toggle(i)
  PROVE  IInv'
<1> USE DEF IInv, Restart, Enable, Disable, Toggle, SketchRuns, RestartTimer,
            SetEnabled
<1>1. TypeOK'
  <2>1. CASE Restart(i)
    BY <2>1 DEF TypeOK
  <2>2. CASE Enable(i) \/ Disable(i) \/ Toggle(i)
    <3>1. enabled' \in [Slot -> BOOLEAN]
      BY <2>2 DEF TypeOK
    <3>2. QED BY <2>2, <3>1 DEF TypeOK
  <2>3. QED BY <2>1, <2>2
<1>2. Used' = Used /\ CountsSlots'
  BY DEF CountsSlots, Used
<1>3. NoNullCall' /\ NoZombie' /\ RunsAreCalls' /\ FreeSlotsReset'
  BY <1>2 DEF NoNullCall, NoZombie, RunsAreCalls, FreeSlotsReset, Pending, Finite
<1>4. NeverEarly'
  BY <1>2, Clock DEF NeverEarly, Paced, TypeOK, Used
<1>5. QED BY <1>1, <1>2, <1>3, <1>4

(* The first pass marks a finite timer exactly when it counts a run. *)
LEMMA MarkStep == ASSUME IInv, RunMark PROVE IInv'
<1> USE DEF IInv, RunMark
<1>1. TypeOK'
  <2>1. toBeCalled' \in [Slot -> DefCall]
    BY DEF Mark, DefCall
  <2>2. \A i \in Slot : Plus(prev_millis[i], delays[i]) \in Millis
    BY Clock DEF TypeOK
  <2>3. prev_millis' \in [Slot -> Millis]
    BY <2>2 DEF TypeOK
  <2>4. lag' \in [Slot -> Int]
    BY DEF TypeOK, Millis
  <2>5. numRuns' \in [Slot -> Nat]
    BY DEF TypeOK
  <2>6. pos' \in 0 .. MAX_TIMERS
    BY SimpleTimerAssumption
  <2>7. QED BY <2>1, <2>3, <2>4, <2>5, <2>6 DEF TypeOK
<1>2. Used' = Used /\ CountsSlots'
  BY DEF CountsSlots, Used
<1>3. \A i \in Slot : Pending(i)' <=> Fires(i)
  BY DEF Pending, Mark, DEFCALL_DONTRUN, DEFCALL_RUNONLY, DEFCALL_RUNANDDEL,
         Slot
<1>4. NoNullCall'
  BY <1>3 DEF NoNullCall, Fires, Due
<1>5. \A i \in Slot : ~Pending(i)
  BY DEF Pending
<1>6. NoZombie'
  BY <1>2, <1>3, <1>5
  DEF NoZombie, TypeOK, Used, Finite, CountsRun, Fires, LastRun, Mark
<1>7. RunsAreCalls'
  BY <1>2, <1>3, <1>5 DEF RunsAreCalls, TypeOK, Used, Finite, CountsRun
<1>8. NeverEarly'
  <2> SUFFICES ASSUME NEW i \in Paced
               PROVE  lag'[i] >= 0 /\ Minus(millis', prev_millis'[i]) = lag'[i]
    BY <1>2 DEF NeverEarly, Paced
  <2>1. /\ i \in Slot /\ lag[i] >= 0 /\ Minus(millis, prev_millis[i]) = lag[i]
        /\ millis \in Millis /\ prev_millis[i] \in Millis /\ delays[i] \in Millis
        /\ lag[i] \in Int /\ delays[i] \in Int
    BY DEF NeverEarly, Paced, TypeOK, Used, Millis
  <2>2. CASE Due(i)
    <3>1. delays[i] <= lag[i]
      BY <2>1, <2>2 DEF Due
    <3>2. Minus(millis, Plus(prev_millis[i], delays[i])) = lag[i] - delays[i]
      BY <2>1, <3>1, Clock
    <3>3. QED BY <2>1, <2>2, <3>1, <3>2
  <2>3. CASE ~Due(i)
    BY <2>1, <2>3
  <2>4. QED BY <2>2, <2>3
<1>9. FreeSlotsReset'
  BY DEF FreeSlotsReset, TypeOK, CountsRun, Fires, Due
<1>10. QED BY <1>1, <1>2, <1>4, <1>6, <1>7, <1>8, <1>9

(* One turn of the second pass: a marked call becomes a made one. *)
LEMMA DispatchStep == ASSUME IInv, Dispatch PROVE IInv'
<1> USE DEF IInv, Dispatch, slots
<1>1. pos \in Slot
  BY SimpleTimerAssumption DEF TypeOK, Slot
<1>2. TypeOK'
  <2>1. pos' \in 0 .. MAX_TIMERS /\ (pc' = "callback" => pos' \in Slot)
    <3>1. \/ pos' = pos + 1 /\ pc' = "calling"
          \/ pos' = pos /\ pc' = "callback"
      OBVIOUS
    <3>2. MAX_TIMERS \in Nat /\ pos \in 0 .. MAX_TIMERS - 1
      BY <1>1, SimpleTimerAssumption DEF Slot
    <3>3. QED BY ONLY <3>1, <3>2 DEF Slot
  <2>2. calls' \in [Slot -> Nat] /\ defcall' \in DefCall
    BY <1>1 DEF TypeOK
  <2>3. QED BY <2>1, <2>2 DEF TypeOK
<1>3. Used' = Used /\ CountsSlots'
  BY DEF CountsSlots, Used
<1>4. \A i \in Slot : Pending(i)' <=> Pending(i) /\ i # pos
  <2>1. CASE toBeCalled[pos] = DEFCALL_DONTRUN
    BY <1>1, <2>1, SimpleTimerAssumption DEF Pending, Slot
  <2>2. CASE toBeCalled[pos] # DEFCALL_DONTRUN
    BY <1>1, <2>2, SimpleTimerAssumption DEF Pending, Slot
  <2>3. QED BY <2>1, <2>2
<1>5. NoNullCall'
  BY <1>4 DEF NoNullCall
<1>6. NoZombie'
  <2>1. Pending(pos) => pc' = "callback" /\ pos' = pos /\ defcall' = toBeCalled[pos]
    BY DEF Pending
  <2>2. pc # "callback"
    OBVIOUS
  <2>3. QED BY <1>1, <1>3, <1>4, <2>1, <2>2 DEF NoZombie, Finite, Used
<1>7. RunsAreCalls'
  BY <1>1, <1>3, <1>4 DEF RunsAreCalls, TypeOK, Finite, Pending, Used
<1>8. NeverEarly' /\ FreeSlotsReset'
  BY <1>3 DEF NeverEarly, Paced, FreeSlotsReset
<1>9. QED BY <1>2, <1>3, <1>5, <1>6, <1>7, <1>8

(* The callback returns; a timer that has had its last run is deleted. *)
LEMMA ReturnStep == ASSUME IInv, Return PROVE IInv'
<1> USE DEF IInv, Return
<1>1. CASE defcall = DEFCALL_RUNANDDEL /\ pos \in Used
  BY <1>1, DeleteStep DEF TypeOK
<1>2. CASE ~(defcall = DEFCALL_RUNANDDEL /\ pos \in Used)
  <2> USE <1>2 DEF slots
  <2>1. TypeOK'
    BY SimpleTimerAssumption DEF TypeOK, Slot, DefCall
  <2>2. Used' = Used /\ CountsSlots'
    BY DEF CountsSlots, Used
  <2>3. \A i \in Slot : Pending(i)' <=> Pending(i)
    BY SimpleTimerAssumption DEF Pending, TypeOK, Slot
  <2>4. NoNullCall' /\ RunsAreCalls' /\ NeverEarly' /\ FreeSlotsReset'
    BY <2>2, <2>3
    DEF NoNullCall, RunsAreCalls, NeverEarly, Paced, FreeSlotsReset, Finite, Used
  <2>5. NoZombie'
    BY <2>2, <2>3 DEF NoZombie, Finite, Used
  <2>6. QED BY <2>1, <2>2, <2>4, <2>5
<1>3. QED BY <1>1, <1>2

LEMMA EndStep == ASSUME IInv, RunEnd PROVE IInv'
<1> USE DEF IInv, RunEnd, slots
<1>1. TypeOK'
  BY SimpleTimerAssumption DEF TypeOK
<1>2. Used' = Used /\ CountsSlots'
  BY DEF CountsSlots, Used
<1>3. \A i \in Slot : ~Pending(i) /\ ~Pending(i)'
  BY SimpleTimerAssumption DEF Pending, Slot
<1>4. QED
  BY <1>1, <1>2, <1>3
  DEF NoNullCall, NoZombie, RunsAreCalls, NeverEarly, Paced, FreeSlotsReset, Finite, Used

(* Time passes; no timer is so late that the clock comes round to it. *)
LEMMA TickStep == ASSUME IInv, Tick PROVE IInv'
<1> USE DEF IInv, Tick
<1>1. 1 < Wrap \/ Paced = {}
  BY SimpleTimerAssumption DEF NeverEarly, Paced, Used, TypeOK
<1>2. Plus(millis, 1) \in Millis
  BY SimpleTimerAssumption DEF Plus, Millis, TypeOK
<1>3. TypeOK'
  BY <1>2 DEF TypeOK
<1>4. Used' = Used /\ CountsSlots'
  BY DEF CountsSlots, Used
<1>5. NoNullCall' /\ NoZombie' /\ RunsAreCalls' /\ FreeSlotsReset'
  BY <1>4 DEF NoNullCall, NoZombie, RunsAreCalls, FreeSlotsReset, Pending, Finite
<1>6. NeverEarly'
  BY <1>4, Clock, SimpleTimerAssumption DEF NeverEarly, Paced, TypeOK, Used
<1>7. QED BY <1>3, <1>4, <1>5, <1>6

(* Every step of the program preserves the inductive invariant. *)
LEMMA StepIInv == IInv /\ [Next]_vars => IInv'
<1> SUFFICES ASSUME IInv, [Next]_vars PROVE IInv'
  OBVIOUS
<1>1. CASE Run
  BY <1>1, MarkStep, DispatchStep, ReturnStep, EndStep DEF Run
<1>2. ASSUME NEW i \in Slot, Delete(i) PROVE IInv'
  BY <1>2, DeleteStep DEF Delete, SketchRuns
<1>3. CASE Sketch
  BY <1>2, <1>3, SetStep, AdjustStep DEF Sketch
<1>4. CASE Tick
  BY <1>4, TickStep
<1>5. CASE UNCHANGED vars
  BY <1>5
  DEF vars, slots, IInv, TypeOK, CountsSlots, NoNullCall, NoZombie, RunsAreCalls,
      NeverEarly, Paced, FreeSlotsReset, Pending, Finite, Used
<1>6. QED BY <1>1, <1>3, <1>4, <1>5 DEF Next

-----------------------------------------------------------------------------
(* Every variable of the pool keeps its type. *)
THEOREM TypeCorrect == Spec => []TypeOK
<1>1. IInv => TypeOK
  BY DEF IInv
<1>2. QED BY <1>1, InitIInv, StepIInv, PTL DEF Spec

(* run() never calls through an empty slot, and numTimers is exact. *)
THEOREM PoolSafe == Spec => []PoolSound
<1>1. IInv => PoolSound
  BY DEF IInv, PoolSound
<1>2. QED BY <1>1, InitIInv, StepIInv, PTL DEF Spec

(* Runs are counted exactly and an exhausted timer is always on its way out. *)
THEOREM CountedRuns == Spec => []RunsCounted
<1>1. IInv => RunsCounted
  BY DEF IInv, RunsCounted
<1>2. QED BY <1>1, InitIInv, StepIInv, PTL DEF Spec

(* No call is early and no period is lost or stretched, across any wrap of *)
(* the clock, as long as run() keeps up to within MaxStall.                *)
THEOREM OnSchedule == Spec => []NeverEarly
<1>1. IInv => NeverEarly
  BY DEF IInv
<1>2. QED BY <1>1, InitIInv, StepIInv, PTL DEF Spec
=============================================================================
