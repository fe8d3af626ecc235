---------------------------- MODULE SimpleTimer ----------------------------
(***************************************************************************)
(* The software timer pool of src/web/SimpleTimer.cpp: MAX_TIMERS slots, a *)
(* sketch that sets, deletes, restarts, enables and disables timers, and   *)
(* run(), which the sketch calls from loop().  run() works in two passes:  *)
(* the first marks the slots that are due, the second calls the marked     *)
(* callbacks one by one.  A callback may itself operate on the pool while  *)
(* the second pass is under way; that is where the order of steps matters. *)
(*                                                                         *)
(* millis() is an unsigned counter that wraps at Wrap.  lag and calls are  *)
(* history variables: they are written with the code's variables and read  *)
(* only by the properties.                                                 *)
(***************************************************************************)
EXTENDS Integers, FiniteSets

CONSTANTS
  MAX_TIMERS,   (* number of slots                                         *)
  Wrap,         (* millis() counts modulo Wrap (2^32 on the ESP32)         *)
  Delays,       (* the delays a sketch uses, in milliseconds               *)
  Runs,         (* the values of n a sketch passes to setTimer             *)
  MaxStall,     (* run() is called often enough that no timer falls more   *)
                (* than MaxStall milliseconds behind                       *)
  UserOps       (* the operations the sketch uses besides setTimer         *)

RUN_FOREVER == 0

DEFCALL_DONTRUN   == 0
DEFCALL_RUNONLY   == 1
DEFCALL_RUNANDDEL == 2

AllUserOps == {"delete", "restart", "enable", "disable", "toggle"}

ASSUME SimpleTimerAssumption ==
  /\ MAX_TIMERS \in Nat \ {0}
  /\ Wrap \in Nat \ {0}
  /\ MaxStall \in 0 .. Wrap - 1
  /\ Delays \subseteq 0 .. Wrap - 1
  /\ Runs \subseteq Nat
  /\ UserOps \subseteq AllUserOps

Slot    == 0 .. MAX_TIMERS - 1
Millis  == 0 .. Wrap - 1
DefCall == {DEFCALL_DONTRUN, DEFCALL_RUNONLY, DEFCALL_RUNANDDEL}

VARIABLES
  millis,       (* the clock                                               *)
  callbacks,    (* callbacks[i]: is a callback stored in slot i?           *)
  prev_millis, delays, maxNumRuns, numRuns, enabled, toBeCalled, numTimers,
  pc,           (* "loop": outside run(); "calling": in the second pass    *)
                (* between two slots; "callback": in the callback of pos   *)
  pos,          (* the index i of the second pass                          *)
  defcall,      (* the value the switch read from toBeCalled[pos]          *)
  lag,          (* real time since prev_millis[i], which never wraps;      *)
                (* kept for timers with a delay                            *)
  calls         (* calls made for the timer now in slot i, at most 1 for   *)
                (* one that runs forever                                   *)

slots == <<callbacks, prev_millis, delays, maxNumRuns, numRuns, enabled,
           toBeCalled, numTimers, lag, calls>>
vars  == <<slots, millis, pc, pos, defcall>>

(***************************************************************************)
(* Unsigned arithmetic on the clock.                                       *)
(***************************************************************************)
PlusUnbounded(a, b) == a + b   \* defect: the clock does not wrap
Plus(a, b)  == IF a + b >= Wrap THEN a + b - Wrap ELSE a + b
Minus(a, b) == IF a >= b THEN a - b ELSE a - b + Wrap

Used         == {i \in Slot : callbacks[i]}
Paced        == {i \in Used : delays[i] > 0}   \* delay 0: due at every run()
Finite(i)    == maxNumRuns[i] # RUN_FOREVER
LastRunUncounted(i) ==   \* defect: tested before the run is counted
  Finite(i) /\ numRuns[i] >= maxNumRuns[i]
FirstRun(i) ==           \* defect: the comparison with n the wrong way round
  Finite(i) /\ numRuns[i] + 1 <= maxNumRuns[i]
LastRun(i)   == Finite(i) /\ numRuns[i] + 1 >= maxNumRuns[i]

Init ==
  /\ millis \in Millis
  /\ callbacks = [i \in Slot |-> FALSE]
  /\ prev_millis = [i \in Slot |-> millis]
  /\ delays = [i \in Slot |-> 0]
  /\ maxNumRuns = [i \in Slot |-> 0]
  /\ numRuns = [i \in Slot |-> 0]
  /\ enabled = [i \in Slot |-> FALSE]
  /\ toBeCalled \in [Slot -> DefCall]  \* the constructor leaves it unset
  /\ numTimers = 0
  /\ pc = "loop" /\ pos = 0 /\ defcall = DEFCALL_DONTRUN
  /\ lag = [i \in Slot |-> 0]
  /\ calls = [i \in Slot |-> 0]

-----------------------------------------------------------------------------
(***************************************************************************)
(* Operations of the sketch, from loop() or from inside a callback.        *)
(***************************************************************************)
SketchRuns == pc \in {"loop", "callback"} /\ UNCHANGED <<millis, pc, pos, defcall>>

FirstSlotUntested(i) ==  \* defect: the slot itself is not tested
  numTimers < MAX_TIMERS /\ i \in Slot /\ \A j \in 0 .. i - 1 : j \in Used

(* findFirstFreeSlot(): none when the pool is full *)
FirstFreeSlot(i) ==
  /\ numTimers < MAX_TIMERS
  /\ i \in Slot \ Used
  /\ \A j \in 0 .. i - 1 : j \in Used

(* setTimer(d, f, n); numRuns and toBeCalled are left as they are *)
SetTimer(i, d, n) ==
  /\ FirstFreeSlot(i)
  /\ delays' = [delays EXCEPT ![i] = d]
  /\ callbacks' = [callbacks EXCEPT ![i] = TRUE]
  /\ maxNumRuns' = [maxNumRuns EXCEPT ![i] = n]
  /\ enabled' = [enabled EXCEPT ![i] = TRUE]
  /\ prev_millis' = [prev_millis EXCEPT ![i] = millis]
  /\ numTimers' = numTimers + 1
  /\ lag' = [lag EXCEPT ![i] = 0]
  /\ calls' = [calls EXCEPT ![i] = 0]
  /\ UNCHANGED <<numRuns, toBeCalled>>

(* deleteTimer(i) on a slot in use; on a free one it does nothing *)
DeleteTimer(i) ==
  /\ numTimers # 0
  /\ i \in Used
  /\ callbacks' = [callbacks EXCEPT ![i] = FALSE]
  /\ enabled' = [enabled EXCEPT ![i] = FALSE]
  /\ toBeCalled' = [toBeCalled EXCEPT ![i] = DEFCALL_DONTRUN]
  /\ delays' = [delays EXCEPT ![i] = 0]
  /\ numRuns' = [numRuns EXCEPT ![i] = 0]
  /\ numTimers' = numTimers - 1
  /\ lag' = [lag EXCEPT ![i] = 0]
  /\ calls' = [calls EXCEPT ![i] = 0]
  /\ UNCHANGED <<prev_millis, maxNumRuns>>

RestartTimer(i) ==
  /\ prev_millis' = [prev_millis EXCEPT ![i] = millis]
  /\ lag' = [lag EXCEPT ![i] = 0]
  /\ UNCHANGED <<callbacks, delays, maxNumRuns, numRuns, enabled, toBeCalled,
                 numTimers, calls>>

SetEnabled(i, b) ==
  /\ enabled' = [enabled EXCEPT ![i] = b]
  /\ UNCHANGED <<callbacks, prev_millis, delays, maxNumRuns, numRuns,
                 toBeCalled, numTimers, lag, calls>>

Set(i, d, n) == SketchRuns /\ SetTimer(i, d, n)
Delete(i)  == "delete" \in UserOps /\ SketchRuns /\ DeleteTimer(i)
Restart(i) == "restart" \in UserOps /\ SketchRuns /\ RestartTimer(i)
Enable(i)  == "enable" \in UserOps /\ SketchRuns /\ SetEnabled(i, TRUE)
Disable(i) == "disable" \in UserOps /\ SketchRuns /\ SetEnabled(i, FALSE)
Toggle(i)  == "toggle" \in UserOps /\ SketchRuns /\ SetEnabled(i, ~enabled[i])

-----------------------------------------------------------------------------
(***************************************************************************)
(* run(): the first pass, atomic because nothing else touches the pool     *)
(* while it marks the slots against one reading of the clock.              *)
(***************************************************************************)
DueAfterDeadline(i) ==   \* defect: compares instants, not a difference
  callbacks[i] /\ millis >= Plus(prev_millis[i], delays[i])
DueEvenIfEmpty(i) ==     \* defect: empty slots are not jumped over
  Minus(millis, prev_millis[i]) >= delays[i]
Due(i)   == callbacks[i] /\ Minus(millis, prev_millis[i]) >= delays[i]
Fires(i) == Due(i) /\ enabled[i] /\ (Finite(i) => numRuns[i] < maxNumRuns[i])

CountsEveryPeriod(i) == Due(i) /\ Finite(i)  \* defect: disabled timers too
CountsRun(i) == Fires(i) /\ Finite(i)

Mark(i) ==
  IF ~Fires(i) THEN DEFCALL_DONTRUN
  ELSE IF LastRun(i) THEN DEFCALL_RUNANDDEL ELSE DEFCALL_RUNONLY

RunMark ==
  /\ pc = "loop"
  /\ pc' = "calling" /\ pos' = 0
  /\ toBeCalled' = [i \in Slot |-> Mark(i)]
  /\ prev_millis' = [i \in Slot |->
       IF Due(i) THEN Plus(prev_millis[i], delays[i]) ELSE prev_millis[i]]
  /\ lag' = [i \in Slot |-> IF Due(i) THEN lag[i] - delays[i] ELSE lag[i]]
  /\ numRuns' = [i \in Slot |->
       IF CountsRun(i) THEN numRuns[i] + 1 ELSE numRuns[i]]
  /\ UNCHANGED <<callbacks, delays, maxNumRuns, enabled, numTimers, calls,
                 millis, defcall>>

(***************************************************************************)
(* run(): one turn of the second pass, up to the call of the callback.     *)
(***************************************************************************)
Dispatch ==
  /\ pc = "calling" /\ pos < MAX_TIMERS
  /\ IF toBeCalled[pos] = DEFCALL_DONTRUN
     THEN /\ pos' = pos + 1
          /\ UNCHANGED <<slots, pc, defcall>>
     ELSE /\ pc' = "callback"
          /\ defcall' = toBeCalled[pos]
          /\ calls' = [calls EXCEPT ![pos] = IF Finite(pos) THEN @ + 1 ELSE 1]
          /\ UNCHANGED <<callbacks, prev_millis, delays, maxNumRuns, numRuns,
                         enabled, toBeCalled, numTimers, lag, pos>>
  /\ UNCHANGED millis

(* The callback returns; after the last run the timer is deleted *)
Return ==
  /\ pc = "callback"
  /\ pc' = "calling" /\ pos' = pos + 1 /\ defcall' = DEFCALL_DONTRUN
  /\ IF defcall = DEFCALL_RUNANDDEL /\ pos \in Used
     THEN DeleteTimer(pos) ELSE UNCHANGED slots
  /\ UNCHANGED millis

RunEnd ==
  /\ pc = "calling" /\ pos = MAX_TIMERS
  /\ pc' = "loop" /\ pos' = 0
  /\ UNCHANGED <<slots, millis, defcall>>

(* One millisecond passes, at any point of the program *)
Tick ==
  /\ \A i \in Paced : lag[i] < MaxStall
  /\ millis' = Plus(millis, 1)
  /\ lag' = [i \in Slot |-> IF i \in Paced THEN lag[i] + 1 ELSE lag[i]]
  /\ UNCHANGED <<callbacks, prev_millis, delays, maxNumRuns, numRuns, enabled,
                 toBeCalled, numTimers, calls, pc, pos, defcall>>

Run == RunMark \/ Dispatch \/ Return \/ RunEnd

Sketch ==
  \E i \in Slot :
    \/ \E d \in Delays, n \in Runs : Set(i, d, n)
    \/ Delete(i)
    \/ Restart(i)
    \/ Enable(i)
    \/ Disable(i)
    \/ Toggle(i)

Next == Run \/ Sketch \/ Tick

Spec == Init /\ [][Next]_vars

(* loop() keeps calling run(), callbacks return, and time passes *)
Fairness == WF_vars(Run) /\ WF_vars(Tick)
FairSpec == Spec /\ Fairness

-----------------------------------------------------------------------------
(* Every variable holds a value its C++ type and its use allow. *)
TypeOK ==
  /\ millis \in Millis
  /\ callbacks \in [Slot -> BOOLEAN]
  /\ prev_millis \in [Slot -> Millis]
  /\ delays \in [Slot -> Millis]
  /\ maxNumRuns \in [Slot -> Nat]
  /\ numRuns \in [Slot -> Nat]
  /\ enabled \in [Slot -> BOOLEAN]
  /\ toBeCalled \in [Slot -> DefCall]
  /\ numTimers \in 0 .. MAX_TIMERS
  /\ pc \in {"loop", "calling", "callback"}
  /\ pos \in 0 .. MAX_TIMERS
  /\ pc = "callback" => pos \in Slot
  /\ defcall \in DefCall
  /\ lag \in [Slot -> Int]
  /\ calls \in [Slot -> Nat]

(* numTimers, which setTimer tests and getNumTimers reports, is the number *)
(* of slots that hold a callback, whatever sketch and callbacks do.        *)
CountsSlots == numTimers = Cardinality(Used)

(* The call of the timer in slot i is marked and still to be made *)
Pending(i) ==
  /\ toBeCalled[i] # DEFCALL_DONTRUN
  /\ \/ pc = "calling" /\ i >= pos
     \/ pc = "callback" /\ i > pos

(* The second pass of run() never calls through the null pointer of a slot *)
(* that a callback emptied after the first pass had marked it.             *)
NoNullCall == \A i \in Slot : Pending(i) => callbacks[i]

(* A finite timer that has used up its runs is about to be deleted: it     *)
(* never stays behind as a slot that is in use and will never be called.   *)
NoZombie ==
  \A i \in Used :
    Finite(i) /\ numRuns[i] >= maxNumRuns[i] =>
      \/ Pending(i) /\ toBeCalled[i] = DEFCALL_RUNANDDEL
      \/ pc = "callback" /\ i = pos /\ defcall = DEFCALL_RUNANDDEL

(* numRuns counts the calls made for the timer that is in the slot now,    *)
(* never those of an earlier timer of the slot or of a skipped period.     *)
RunsAreCalls ==
  \A i \in Used :
    Finite(i) => numRuns[i] = calls[i] + IF Pending(i) THEN 1 ELSE 0

(* The k-th call never comes before k delays have passed since the timer   *)
(* was set or restarted, and the schedule does not drift, also when        *)
(* millis() wraps: the distance run() computes is the real one.            *)
NeverEarly ==
  \A i \in Paced : lag[i] >= 0 /\ Minus(millis, prev_millis[i]) = lag[i]

(* run() removes a timer in the slot of the callback that returns.         *)
Removed(i) == callbacks[i] /\ ~callbacks'[i] /\ pc' # pc
CalledNTimes(i) == Finite(i) /\ calls[i] = maxNumRuns[i]

(* SimpleTimer.h:58-61: "call function f every d milliseconds for n times":*)
(* run() removes a timer only after it called it n times.                  *)
RemovedAfterNCalls == [][\A i \in Slot : Removed(i) => CalledNTimes(i)]_vars

(* So it does unless the last callback of a timer deleted it and another   *)
(* timer was set in its slot, which is the only way that run() comes to    *)
(* remove a timer it has not called.                                       *)
RemovedUnlessReplaced ==
  [][\A i \in Slot : Removed(i) => CalledNTimes(i) \/ calls[i] = 0]_vars

(* Every finite timer comes to its last call and frees its slot, provided  *)
(* the sketch does not disable or restart it again and again.              *)
FiniteTimersEnd ==
  \A i \in Slot : \/ []<>(i \notin Used \/ ~Finite(i) \/ ~enabled[i])
                  \/ []<><<Restart(i)>>_vars

(* The pool is sound: its variables have their types, its counter counts   *)
(* its slots, and the second pass of run() has something to call.          *)
PoolSound == TypeOK /\ CountsSlots /\ NoNullCall

(* Runs are counted: numRuns is the number of calls of the timer that is   *)
(* in the slot, and who has used his up leaves.                            *)
RunsCounted == NoZombie /\ RunsAreCalls

(* A finite timer is called n times, and then it is removed.               *)
EndsAfterNCalls == RemovedUnlessReplaced /\ FiniteTimersEnd
=============================================================================
