--------------------------- MODULE ConsoleProofs ---------------------------
(***************************************************************************)
(* The invariants of Console for any width of the clock, any debounce time *)
(* and any set of durations.  No time kept by a button runs ahead of real  *)
(* time, so no test on it succeeds early; a deadline is in step with real  *)
(* time for as long as the clock has not wrapped under it.                 *)
(***************************************************************************)
EXTENDS Console, TLAPS

(* the time a button believes to have passed is at most the time that has *)
NotAhead == Minus(millis, button.lastChange) <= button.age

(* a deadline that has not wrapped is as far away as the tone has to go *)
InStep ==
  speaker.on /\ ~speaker.wrapped =>
    /\ speaker.count - millis = speaker.asked - speaker.age
    /\ speaker.age <= millis

IInv == TypeOK /\ NotAhead /\ HeldFor /\ InStep /\ ToneStops

(* Unsigned operations stay in range, and one tick adds at most one. *)
LEMMA Clock ==
  ASSUME NEW a \in Ms, NEW b \in Ms
  PROVE  /\ Plus(a, b) \in Ms /\ Minus(a, b) \in Ms /\ Minus(a, a) = 0
         /\ Plus(a, 1) \in Ms
         /\ Minus(Plus(a, 1), b) <= Minus(a, b) + 1
         /\ Minus(a, b) < CLOCK
BY ConsoleAssumption DEF Ms, Plus, Minus

(* What a tone is asked for is a number, and zero is every kind of time. *)
LEMMA Numbers ==
  ASSUME TypeOK
  PROVE  /\ speaker.count \in Int /\ speaker.asked \in Int /\ speaker.age \in Int
         /\ millis \in Int
<1>1. speaker.count \in Ms /\ speaker.age \in 0 .. CLOCK /\ millis \in Ms
  BY DEF TypeOK
<1>2. speaker.asked \in {0} \cup Durations
  BY DEF TypeOK
<1>3. \A d \in Durations : d \in 0 .. CLOCK - 1
  BY ConsoleAssumption
<1>4. speaker.asked = 0 \/ speaker.asked \in 0 .. CLOCK - 1
  BY <1>2, <1>3
<1>5. QED BY <1>1, <1>4, ConsoleAssumption DEF Ms

LEMMA Zero == 0 \in Ms /\ 0 \in 0 .. CLOCK
BY ConsoleAssumption DEF Ms

(* The state of a reset is well typed. *)
LEMMA Reset ==
  ASSUME millis' = 0, at' = "loop", button' \in Created, speaker' = Quiet, protect' = FALSE
  PROVE  TypeOK'
<1>1. button' \in [kind : {"read", "readAxis"}, state : BOOLEAN, changed : BOOLEAN,
                   axis : Axis, time : Ms, lastChange : Ms, age : 0 .. CLOCK, held : 0 .. CLOCK]
  BY Zero DEF Created, Axis
<1>2. speaker' \in [on : BOOLEAN, count : Ms, sounds : BOOLEAN, asked : {0} \cup Durations,
                    age : 0 .. CLOCK, seen : 0 .. CLOCK, wrapped : BOOLEAN]
  BY Zero DEF Quiet
<1>3. QED BY <1>1, <1>2, Zero DEF TypeOK

LEMMA InitIInv == Init => IInv
<1> SUFFICES ASSUME Init PROVE IInv
  OBVIOUS
<1>1. TypeOK
  <2>1. button \in [kind : {"read", "readAxis"}, state : BOOLEAN, changed : BOOLEAN,
                    axis : Axis, time : Ms, lastChange : Ms, age : 0 .. CLOCK, held : 0 .. CLOCK]
    BY Zero DEF Init, Created, Axis
  <2>2. speaker \in [on : BOOLEAN, count : Ms, sounds : BOOLEAN, asked : {0} \cup Durations,
                     age : 0 .. CLOCK, seen : 0 .. CLOCK, wrapped : BOOLEAN]
    BY Zero DEF Init, Quiet
  <2>3. QED BY <2>1, <2>2, Zero DEF Init, TypeOK
<1>2. button.age = 0 /\ button.held = 0 /\ button.time = 0 /\ button.lastChange = 0
  BY DEF Init, Created
<1>3. NotAhead /\ HeldFor
  BY <1>2 DEF Init, NotAhead, HeldFor, Minus
<1>4. QED BY <1>1, <1>3 DEF Init, IInv, InStep, ToneStops, Quiet

-----------------------------------------------------------------------------
LEMMA TickStep == ASSUME IInv, Tick PROVE IInv'
<1> USE DEF IInv, TypeOK
<1>1. millis' \in Ms /\ Minus(millis', button.lastChange) <= Minus(millis, button.lastChange) + 1
      /\ Minus(millis', button.lastChange) < CLOCK
  BY Clock DEF Tick
<1>2. Capped(button.age) \in 0 .. CLOCK /\ Capped(speaker.age) \in 0 .. CLOCK
  BY ConsoleAssumption DEF Capped
<1>3. button' = [button EXCEPT !.age = Capped(@)]
  BY DEF Tick
<1>4. TypeOK'
  <2>1. button' \in [kind : {"read", "readAxis"}, state : BOOLEAN, changed : BOOLEAN,
                     axis : Axis, time : Ms, lastChange : Ms, age : 0 .. CLOCK, held : 0 .. CLOCK]
    BY <1>2, <1>3
  <2>2. (speaker.wrapped \/ (speaker.on /\ millis' = 0)) \in BOOLEAN
    OBVIOUS
  <2>3. (IF speaker.on THEN Capped(speaker.age) ELSE 0) \in 0 .. CLOCK
    BY <1>2, ConsoleAssumption
  <2>4. speaker' = [speaker EXCEPT !.age = IF speaker.on THEN Capped(speaker.age) ELSE 0,
                                   !.wrapped = speaker.wrapped \/ (speaker.on /\ millis' = 0)]
    BY DEF Tick
  <2>5. speaker' \in [on : BOOLEAN, count : Ms, sounds : BOOLEAN, asked : {0} \cup Durations,
                      age : 0 .. CLOCK, seen : 0 .. CLOCK, wrapped : BOOLEAN]
    BY <2>2, <2>3, <2>4
  <2>6. QED BY <1>1, <2>1, <2>5 DEF Tick
<1>5. NotAhead'
  BY <1>1, <1>2, <1>3, ConsoleAssumption DEF NotAhead, Capped, Ms, Minus
<1>6. HeldFor'
  BY <1>3 DEF HeldFor, Minus
<1>7. InStep' /\ ToneStops'
  <2> SUFFICES ASSUME speaker'.on, ~speaker'.wrapped PROVE InStep' /\ ToneStops'
    BY DEF InStep, ToneStops
  <2>1. speaker.on /\ ~speaker.wrapped /\ millis' # 0
    BY DEF Tick
  <2>2. millis' = millis + 1
    BY <2>1, ConsoleAssumption DEF Tick, Plus, Ms
  <2>3. speaker.age < CLOCK /\ speaker'.age = speaker.age + 1
    BY <2>1, ConsoleAssumption DEF InStep, Tick, Capped, Ms
  <2>4. speaker'.count = speaker.count /\ speaker'.asked = speaker.asked /\ speaker'.seen = speaker.seen
    BY DEF Tick
  <2>5. speaker.count \in Int /\ speaker.asked \in Int /\ speaker.age \in Int /\ millis \in Int
    BY Numbers
  <2>6. InStep'
    BY <2>1, <2>2, <2>3, <2>4, <2>5 DEF InStep
  <2>7. QED BY <2>1, <2>4, <2>6 DEF ToneStops
<1>8. QED BY <1>4, <1>5, <1>6, <1>7

(* read() and readAxis(): what is noted is the age at the read. *)
LEMMA DebouncedStep ==
  ASSUME IInv, NEW pinVal \in BOOLEAN, NEW b, b = Debounced(pinVal)
  PROVE  /\ b \in [kind : {"read", "readAxis"}, state : BOOLEAN, changed : BOOLEAN,
                   axis : Axis, time : Ms, lastChange : Ms, age : 0 .. CLOCK, held : 0 .. CLOCK]
         /\ Minus(millis, b.lastChange) <= b.age
         /\ Minus(b.time, b.lastChange) <= b.held
         /\ b.state # button.state => button.age >= dbTime
<1> USE DEF IInv, TypeOK
<1>0. 0 \in 0 .. CLOCK /\ millis \in Ms
  BY ConsoleAssumption
<1>1. CASE Bouncing \/ pinVal = button.state
  <2>1. b = [button EXCEPT !.time = millis, !.changed = FALSE, !.held = button.age]
    BY <1>1 DEF Debounced
  <2>2. QED BY <2>1, <1>0 DEF NotAhead
<1>2. CASE ~(Bouncing \/ pinVal = button.state)
  <2>1. b = [button EXCEPT !.time = millis, !.changed = TRUE, !.held = 0,
                           !.state = pinVal, !.lastChange = millis, !.age = 0]
    BY <1>2 DEF Debounced, ChangedAt
  <2>2. Minus(millis, millis) = 0
    BY <1>0, Clock
  <2>3. button.age >= dbTime
    BY <1>2, Clock, ConsoleAssumption DEF Bouncing, NotAhead, Ms
  <2>4. b.lastChange = millis /\ b.time = millis /\ b.age = 0 /\ b.held = 0
    BY <2>1
  <2>5. b \in [kind : {"read", "readAxis"}, state : BOOLEAN, changed : BOOLEAN,
               axis : Axis, time : Ms, lastChange : Ms, age : 0 .. CLOCK, held : 0 .. CLOCK]
    BY <2>1, <1>0
  <2>6. QED BY <2>2, <2>3, <2>4, <2>5
<1>3. QED BY <1>1, <1>2

LEMMA ReadStep ==
  ASSUME IInv, Read \/ ReadAxis
  PROVE  IInv' /\ (button'.state # button.state => button.age >= dbTime)
<1>1. PICK pinVal \in BOOLEAN, val \in Axis :
        button' \in {Debounced(pinVal), [Debounced(pinVal) EXCEPT !.axis = val]}
  BY DEF Read, ReadAxis, Axis
<1> DEFINE b == Debounced(pinVal)
<1>2. /\ b \in [kind : {"read", "readAxis"}, state : BOOLEAN, changed : BOOLEAN,
                axis : Axis, time : Ms, lastChange : Ms, age : 0 .. CLOCK, held : 0 .. CLOCK]
      /\ Minus(millis, b.lastChange) <= b.age
      /\ Minus(b.time, b.lastChange) <= b.held
      /\ b.state # button.state => button.age >= dbTime
  BY DebouncedStep
<1>3. button' \in {b, [b EXCEPT !.axis = val]}
  BY <1>1
<1> HIDE DEF b
<1>4. /\ button'.lastChange = b.lastChange /\ button'.age = b.age /\ button'.time = b.time
      /\ button'.held = b.held /\ button'.state = b.state
  BY <1>2, <1>3
<1>5. button' \in [kind : {"read", "readAxis"}, state : BOOLEAN, changed : BOOLEAN,
                   axis : Axis, time : Ms, lastChange : Ms, age : 0 .. CLOCK, held : 0 .. CLOCK]
  BY <1>2, <1>3
<1>6. /\ millis' = millis /\ speaker' = speaker /\ protect' = protect
      /\ at' = "speaker"
  BY DEF Read, ReadAxis
<1>7. TypeOK'
  BY <1>5, <1>6 DEF IInv, TypeOK
<1>8. NotAhead' /\ HeldFor'
  BY <1>2, <1>4, <1>6 DEF NotAhead, HeldFor, Minus
<1>9. InStep' /\ ToneStops'
  BY <1>6 DEF IInv, InStep, ToneStops
<1>10. QED BY <1>2, <1>4, <1>7, <1>8, <1>9 DEF IInv

LEMMA SpeakerStep ==
  ASSUME IInv, UpdateSpeaker
  PROVE  IInv' /\ (speaker.on /\ ~speaker'.on => speaker.age > speaker.asked \/ speaker.wrapped)
<1> USE DEF IInv, TypeOK
<1>1. millis' = millis /\ button' = button /\ protect' = protect /\ at' = "battery"
  BY DEF UpdateSpeaker
<1>2. NotAhead' /\ HeldFor'
  BY <1>1 DEF NotAhead, HeldFor, Minus
<1>3. speaker.count \in Int /\ speaker.asked \in Int /\ speaker.age \in Int /\ millis \in Int
  BY Numbers
<1>4. CASE speaker.on /\ Past
  <2>1. speaker' = Quiet
    BY <1>4 DEF UpdateSpeaker
  <2>2. TypeOK'
    BY <1>1, <2>1, Zero DEF Quiet
  <2>3. speaker.age > speaker.asked \/ speaker.wrapped
    BY <1>3, <1>4 DEF Past, InStep
  <2>4. QED BY <1>2, <2>1, <2>2, <2>3 DEF InStep, ToneStops, Quiet
<1>5. CASE ~(speaker.on /\ Past)
  <2>1. speaker' = [speaker EXCEPT !.seen = speaker.age]
    BY <1>5 DEF UpdateSpeaker
  <2>2. TypeOK'
    BY <1>1, <2>1
  <2>3. InStep'
    BY <1>1, <2>1 DEF InStep
  <2>4. ToneStops'
    BY <1>3, <1>5, <2>1 DEF ToneStops, InStep, Past
  <2>5. speaker'.on = speaker.on
    BY <2>1
  <2>6. QED BY <1>2, <2>2, <2>3, <2>4, <2>5
<1>6. QED BY <1>4, <1>5

LEMMA ToneStep ==
  ASSUME IInv, NEW duration \in Durations, ToneFor(duration)
  PROVE  IInv' /\ speaker'.on
<1> USE DEF IInv, TypeOK
<1>1. duration \in Ms /\ millis \in Ms
  BY ConsoleAssumption DEF Ms
<1>2. Plus(millis, duration) \in Ms /\ (millis + duration >= CLOCK) \in BOOLEAN
  <2>1. Plus(millis, duration) \in Ms
    BY ONLY <1>1, Clock
  <2>2. QED BY <2>1
<1>3. /\ millis' = millis /\ button' = button /\ at' = at /\ protect' = protect
      /\ speaker' = [on |-> TRUE, count |-> Plus(millis, duration), sounds |-> TRUE,
                     asked |-> duration, age |-> 0, seen |-> 0,
                     wrapped |-> millis + duration >= CLOCK]
  BY DEF ToneFor
<1>4. TypeOK'
  <2>1. speaker' \in [on : BOOLEAN, count : Ms, sounds : BOOLEAN, asked : {0} \cup Durations,
                      age : 0 .. CLOCK, seen : 0 .. CLOCK, wrapped : BOOLEAN]
    BY <1>2, <1>3, Zero
  <2>2. QED BY <1>3, <2>1
<1>5. NotAhead' /\ HeldFor'
  BY <1>3 DEF NotAhead, HeldFor, Minus
<1>6. InStep' /\ ToneStops'
  <2>1. millis \in Int /\ 0 <= millis /\ duration \in Int /\ 0 <= duration
    BY <1>1, ConsoleAssumption DEF Ms
  <2>2. /\ speaker'.wrapped = (millis + duration >= CLOCK) /\ speaker'.asked = duration
        /\ speaker'.count = Plus(millis, duration) /\ speaker'.age = 0 /\ speaker'.seen = 0
    BY <1>3
  <2>3. ~speaker'.wrapped => speaker'.count = millis + duration
    BY <2>1, <2>2, ConsoleAssumption DEF Plus
  <2>4. QED BY <1>3, <2>1, <2>2, <2>3 DEF InStep, ToneStops
<1>7. QED BY <1>3, <1>4, <1>5, <1>6

(* The other steps of update() and of the sketch, and the reset. *)
LEMMA OtherStep ==
  ASSUME IInv,
         \/ UpdateBattery \/ Update \/ Wake \/ UNCHANGED vars
         \/ \E on \in BOOLEAN : Tone(on) \/ SetProtection(on)
  PROVE  IInv' /\ (at = "asleep" \/ (button'.state = button.state /\ speaker'.on = speaker.on))
<1> USE DEF IInv, TypeOK
<1>1. CASE UpdateBattery \/ Update \/ UNCHANGED vars \/ \E on \in BOOLEAN : SetProtection(on)
  <2>1. /\ millis' = millis /\ button' = button /\ speaker' = speaker
        /\ protect' \in BOOLEAN /\ at' \in {"loop", "read", "speaker", "battery", "asleep"}
    BY <1>1 DEF UpdateBattery, Update, SetProtection, vars
  <2>2. QED BY <2>1 DEF NotAhead, HeldFor, InStep, ToneStops, Minus
<1>2. ASSUME NEW on \in BOOLEAN, Tone(on) PROVE IInv' /\ button' = button /\ speaker'.on = speaker.on
  <2>1. /\ millis' = millis /\ button' = button /\ protect' = protect /\ at' = at
        /\ speaker' = [speaker EXCEPT !.sounds = on]
    BY <1>2 DEF Tone
  <2>2. TypeOK'
    BY <2>1
  <2>3. InStep' /\ ToneStops'
    BY <2>1 DEF InStep, ToneStops
  <2>4. QED BY <2>1, <2>2, <2>3 DEF NotAhead, HeldFor, Minus
<1>3. CASE Wake
  <2>1. /\ at = "asleep" /\ at' = "loop" /\ millis' = 0 /\ button' \in Created
        /\ speaker' = Quiet /\ protect' = FALSE
    BY <1>3 DEF Wake
  <2>2. TypeOK'
    BY <2>1, Reset
  <2>3. button'.age = 0 /\ button'.held = 0 /\ button'.time = 0 /\ button'.lastChange = 0
    BY <2>1 DEF Created
  <2>4. NotAhead' /\ HeldFor'
    BY <2>1, <2>3 DEF NotAhead, HeldFor, Minus
  <2>5. QED BY <2>1, <2>2, <2>4 DEF InStep, ToneStops, Quiet
<1>4. QED BY <1>1, <1>2, <1>3

LEMMA StepIInv ==
  ASSUME IInv, [Next]_vars
  PROVE  /\ IInv'
         /\ button'.state # button.state => button.age >= dbTime \/ at = "asleep"
         /\ speaker.on /\ ~speaker'.on =>
              speaker.age > speaker.asked \/ speaker.wrapped \/ at = "asleep"
<1>1. CASE Tick
  <2>1. button'.state = button.state /\ speaker'.on = speaker.on
    BY <1>1 DEF Tick, IInv, TypeOK
  <2>2. QED BY <1>1, <2>1, TickStep
<1>2. CASE Read \/ ReadAxis
  <2>1. speaker' = speaker
    BY <1>2 DEF Read, ReadAxis
  <2>2. QED BY <1>2, <2>1, ReadStep
<1>3. CASE UpdateSpeaker
  <2>1. button' = button
    BY <1>3 DEF UpdateSpeaker
  <2>2. QED BY <1>3, <2>1, SpeakerStep
<1>4. ASSUME NEW duration \in Durations, ToneFor(duration)
      PROVE  IInv' /\ speaker'.on /\ button' = button
  <2>1. button' = button
    BY <1>4 DEF ToneFor
  <2>2. QED BY <1>4, <2>1, ToneStep
<1>5. CASE \/ UpdateBattery \/ Update \/ Wake \/ UNCHANGED vars
           \/ \E on \in BOOLEAN : Tone(on) \/ SetProtection(on)
  BY <1>5, OtherStep
<1>6. QED BY <1>1, <1>2, <1>3, <1>4, <1>5 DEF Next

-----------------------------------------------------------------------------
(* Clock values stay clock values, for every width of the clock. *)
THEOREM TypeCorrect == Spec => []TypeOK
<1>1. IInv => TypeOK
  BY DEF IInv
<1>2. QED BY <1>1, InitIInv, StepIInv, PTL DEF Spec

(* A button's state holds for the debounce time, and pressedFor() and      *)
(* releasedFor() never exaggerate.                                         *)
THEOREM Debounces == Spec => BounceFree
<1>1. IInv => HeldFor
  BY DEF IInv
<1>2. IInv /\ [Next]_vars =>
        [button'.state # button.state => button.age >= dbTime \/ at = "asleep"]_vars
  BY StepIInv
<1>3. QED BY <1>1, <1>2, InitIInv, StepIInv, PTL DEF Spec, DebouncedApart, BounceFree

(* A tone under whose deadline the clock does not wrap lasts its duration  *)
(* and ends with the first update() after it.                              *)
THEOREM TonesOnTime == Spec => ToneTimed
<1>1. IInv => ToneStops
  BY DEF IInv
<1>2. IInv /\ [Next]_vars =>
        [speaker.on /\ ~speaker'.on =>
           speaker.age > speaker.asked \/ speaker.wrapped \/ at = "asleep"]_vars
  BY StepIInv
<1>3. QED BY <1>1, <1>2, InitIInv, StepIInv, PTL DEF Spec, TonePlays, ToneTimed
=============================================================================
