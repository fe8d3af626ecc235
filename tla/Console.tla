------------------------------ MODULE Console ------------------------------
(***************************************************************************)
(* GO.update() of src/odroid_go.cpp and what it keeps: a debounced button  *)
(* or joystick axis (utility/Button.cpp), the speaker's deadline           *)
(* (utility/Speaker.cpp) and the battery's cutoff (utility/battery.cpp).   *)
(*                                                                         *)
(* millis() moves on between any two steps, and the sketch may let any     *)
(* time pass between two updates.  The eight buttons of the console share  *)
(* nothing, so one, of either kind, stands for them; a pin is looked at    *)
(* only where it is read, and may be anything there.  Real time is kept    *)
(* beside the clock in ages, which stop counting at one turn of the clock. *)
(***************************************************************************)
EXTENDS Integers

CONSTANTS
  CLOCK,      (* millis() wraps at CLOCK: 2^32                             *)
  dbTime,     (* DEBOUNCE_MS                                               *)
  Durations   (* durations a sketch gives to tone()                        *)

ASSUME ConsoleAssumption ==
  /\ CLOCK \in Nat /\ CLOCK > 1 /\ dbTime \in 0 .. CLOCK - 1
  /\ Durations \subseteq 0 .. CLOCK - 1

VARIABLES
  millis,
  at,         (* the next statement of update(), "loop" outside of it      *)
  button,     (* a Button object; kind: the function update() reads it by; *)
              (* age, held: history, the real time since the state changed,*)
              (* now and when it was last read                             *)
  speaker,    (* on, _count and whether a tone sounds; history: what tone()*)
              (* was asked for, its age, its age when update() last looked,*)
              (* and whether the clock has wrapped under the deadline      *)
  protect     (* _enable_protection of the battery                         *)

vars == <<millis, at, button, speaker, protect>>

Axis == {"NONE", "HALF", "FULL"}

(* unsigned arithmetic on the clock *)
PlusUnbounded(a, b) == a + b   \* defect: the clock does not wrap
Plus(a, b)  == IF a + b >= CLOCK THEN a + b - CLOCK ELSE a + b
Minus(a, b) == IF a >= b THEN a - b ELSE a - b + CLOCK

Capped(age) == IF age = CLOCK THEN CLOCK ELSE age + 1

(* the constructor's digitalRead may give anything: for an axis at rest it *)
(* is low, and inverted that is pressed                                    *)
Created ==
  [kind : {"read", "readAxis"}, state : BOOLEAN, changed : {FALSE}, axis : {"NONE"},
   time : {0}, lastChange : {0}, age : {0}, held : {0}]

Quiet == [on |-> FALSE, count |-> 0, sounds |-> FALSE,
          asked |-> 0, age |-> 0, seen |-> 0, wrapped |-> FALSE]

Init ==
  /\ millis = 0 /\ at = "loop"
  /\ button \in Created /\ speaker = Quiet /\ protect = FALSE

Tick ==
  /\ at # "asleep"
  /\ millis' = Plus(millis, 1)
  /\ button' = [button EXCEPT !.age = Capped(@)]
  /\ speaker' = [speaker EXCEPT !.age = IF speaker.on THEN Capped(@) ELSE 0,
                                !.wrapped = @ \/ (speaker.on /\ millis' = 0)]
  /\ UNCHANGED <<at, protect>>

-----------------------------------------------------------------------------
(* update(), statement by statement *)
BouncingUntil == millis < Plus(button.lastChange, dbTime)   \* defect: compares times
Bouncing == Minus(millis, button.lastChange) < dbTime

ChangedAtLastRead == button.time   \* defect: the time of the read before
ChangedAt == millis

(* what read() and readAxis() do with the inverted value of the pin *)
Debounced(pinVal) ==
  IF Bouncing \/ pinVal = button.state
  THEN [button EXCEPT !.time = millis, !.changed = FALSE, !.held = button.age]
  ELSE [button EXCEPT !.time = millis, !.changed = TRUE, !.held = 0,
                      !.state = pinVal, !.lastChange = ChangedAt, !.age = 0]

Read ==
  /\ at = "read" /\ button.kind = "read"
  /\ \E pinVal \in BOOLEAN : button' = Debounced(pinVal)
  /\ at' = "speaker"
  /\ UNCHANGED <<millis, speaker, protect>>

(* _axis is set before the debounce, _state after it *)
ReadAxis ==
  /\ at = "read" /\ button.kind = "readAxis"
  /\ \E val \in Axis : button' = [Debounced(val # "NONE") EXCEPT !.axis = val]
  /\ at' = "speaker"
  /\ UNCHANGED <<millis, speaker, protect>>

PastAtDeadline == millis >= speaker.count   \* defect: >= for >
PastLater == millis > speaker.count + 1   \* defect: one tick late
Past == millis > speaker.count

UpdateSpeaker ==
  /\ at = "speaker" /\ at' = "battery"
  /\ speaker' = IF speaker.on /\ Past THEN Quiet ELSE [speaker EXCEPT !.seen = speaker.age]
  /\ UNCHANGED <<millis, button, protect>>

(* the cell may be at BATTERY_CUTOFF *)
UpdateBattery ==
  /\ at = "battery"
  /\ \/ at' = "loop"
     \/ protect /\ at' = "asleep"
  /\ UNCHANGED <<millis, button, speaker, protect>>

(* deep sleep ends in a reset *)
Wake ==
  /\ at = "asleep" /\ at' = "loop"
  /\ millis' = 0
  /\ button' \in {b \in Created : b.kind = button.kind}
  /\ speaker' = Quiet /\ protect' = FALSE

-----------------------------------------------------------------------------
(* The sketch, between two updates *)
Update == at = "loop" /\ at' = "read" /\ UNCHANGED <<millis, button, speaker, protect>>

(* tone(frequency, duration), and beep() *)
ToneFor(duration) ==
  /\ at = "loop"
  /\ speaker' = [on |-> TRUE, count |-> Plus(millis, duration), sounds |-> TRUE,
                 asked |-> duration, age |-> 0, seen |-> 0,
                 wrapped |-> millis + duration >= CLOCK]
  /\ UNCHANGED <<millis, at, button, protect>>

(* tone(frequency) and mute() leave the deadline alone *)
Tone(sounds) ==
  /\ at = "loop"
  /\ speaker' = [speaker EXCEPT !.sounds = sounds]
  /\ UNCHANGED <<millis, at, button, protect>>

SetProtection(enable) ==
  /\ at = "loop"
  /\ protect' = enable
  /\ UNCHANGED <<millis, at, button, speaker>>

Next ==
  \/ Tick \/ Update \/ Read \/ ReadAxis \/ UpdateSpeaker \/ UpdateBattery \/ Wake
  \/ \E duration \in Durations : ToneFor(duration)
  \/ \E on \in BOOLEAN : Tone(on) \/ SetProtection(on)

Spec == Init /\ [][Next]_vars

-----------------------------------------------------------------------------
Ms == 0 .. CLOCK - 1

(* Types; the times of button and speaker are clock values. *)
TypeOK ==
  /\ millis \in Ms /\ at \in {"loop", "read", "speaker", "battery", "asleep"}
  /\ button \in [kind : {"read", "readAxis"}, state : BOOLEAN, changed : BOOLEAN,
                 axis : Axis, time : Ms, lastChange : Ms, age : 0 .. CLOCK, held : 0 .. CLOCK]
  /\ speaker \in [on : BOOLEAN, count : Ms, sounds : BOOLEAN, asked : {0} \cup Durations,
                  age : 0 .. CLOCK, seen : 0 .. CLOCK, wrapped : BOOLEAN]
  /\ protect \in BOOLEAN

(* Button.cpp debounces: two changes of a button's state are DEBOUNCE_MS   *)
(* apart in real time, whatever the clock does and however long the sketch *)
(* has not called update().                                                *)
DebouncedApart ==
  [][button'.state # button.state => button.age >= dbTime \/ at = "asleep"]_vars

(* pressedFor(ms) and releasedFor(ms) tell the truth: a button said to     *)
(* have been in its state for ms milliseconds was, when it was last read,  *)
(* across wraps of the clock.                                              *)
HeldFor == Minus(button.time, button.lastChange) <= button.held

(* Unless the clock wraps under the deadline, update() cuts no timed tone  *)
(* short: _count and millis() are whole milliseconds, so a tone has lasted *)
(* its duration only when more than that many ticks have passed.           *)
TonePlays ==
  [][speaker.on /\ ~speaker'.on =>
       speaker.age > speaker.asked \/ speaker.wrapped \/ at = "asleep"]_vars

(* Unless the clock wraps under the deadline, no update() that finds the   *)
(* duration over leaves the deadline pending.                              *)
ToneStops == speaker.on /\ ~speaker.wrapped => speaker.seen <= speaker.asked
(* Buttons are debounced: no bounce is a change, and no hold is made up.   *)
BounceFree == DebouncedApart /\ []HeldFor

(* A tone lasts as long as it was asked to: no shorter, no longer.         *)
ToneTimed == TonePlays /\ []ToneStops
=============================================================================
