-------------------------- MODULE IrReceiverProofs --------------------------
(***************************************************************************)
(* For every buffer size and gap length: the interrupt stays inside the    *)
(* buffer, a frame is held while it is read, no reader passes its end, and *)
(* marks and spaces alternate, with interrupts allowed between any two     *)
(* accesses of the main program.                                           *)
(***************************************************************************)
EXTENDS IrReceiver, TLAPS

(* A frame is read only in STOP, which the interrupt does not leave *)
StoppedWhileRead == Reading => rcvstate = "STOP"

(* Outside resume() an idle receiver holds no entries *)
IdleIsEmpty == rcvstate = "IDLE" /\ pc # "resuming" => rawlen = 0

(* From the moment it is taken the snapshot covers recorded entries only *)
SnapshotCovered ==
  pc \in {"snapshot", "check", "decoding", "result"} => results.rawlen <= rawlen

IInv == TypeOK /\ StoppedWhileRead /\ IdleIsEmpty /\ SnapshotCovered

IrParams ==
  [rcvstate : {"NONE", "IDLE", "MARK", "SPACE", "STOP", "OVERFLOW"},
   rawlen : 0 .. RAWBUF, timer : 0 .. TimerCap, pure : BOOLEAN,
   overflow : BOOLEAN,
   rawbuf : [0 .. RAWBUF - 1 -> {"none", "space", "mark", "mixed"}]]

(* What recording one width does to a record with room for it. *)
LEMMA RecordType ==
  ASSUME NEW p \in IrParams, ~Full(p), NEW w \in {"space", "mark", "mixed"},
         NEW next \in {"MARK", "SPACE"}
  PROVE  /\ Record(p, w, next) \in IrParams
         /\ Record(p, w, next).rawlen = p.rawlen + 1
         /\ Record(p, w, next).rcvstate = next
<1>1. p.rawlen \in 0 .. RAWBUF - 1 /\ p.rawlen + 1 \in 0 .. RAWBUF
  BY IrAssumption DEF Full, IrParams
<1>2. [p.rawbuf EXCEPT ![p.rawlen] = w]
        \in [0 .. RAWBUF - 1 -> {"none", "space", "mark", "mixed"}]
  BY DEF IrParams
<1>3. 0 \in 0 .. TimerCap
  BY IrAssumption DEF TimerCap
<1>4. QED BY <1>1, <1>2, <1>3 DEF Record, IrParams

(* What one sample does: it keeps the types, leaves a stopped receiver     *)
(* stopped with its buffer untouched, and shortens the buffer only when a  *)
(* new frame starts from IDLE.                                             *)
LEMMA SampleFacts ==
  ASSUME NEW p \in IrParams, NEW irdata \in {"MARK", "SPACE"}
  PROVE  LET q == Sample(p, irdata)
         IN /\ q \in IrParams
            /\ p.rcvstate = "STOP" =>
                 q.rcvstate = "STOP" /\ q.rawbuf = p.rawbuf /\ q.rawlen = p.rawlen
            /\ q.rcvstate = "IDLE" => p.rcvstate = "IDLE" /\ q.rawlen = p.rawlen
            /\ p.rawlen <= q.rawlen \/ p.rcvstate = "IDLE"
<1> DEFINE t == Min(p.timer + 1, TimerCap)
           r == [p EXCEPT !.timer = t,
                          !.rcvstate = IF Full(p) THEN "OVERFLOW" ELSE @]
<1>1. t \in 0 .. TimerCap /\ 0 \in 0 .. TimerCap
  BY IrAssumption DEF Min, TimerCap, IrParams
<1>2. /\ r \in IrParams /\ r.rawbuf = p.rawbuf /\ r.rawlen = p.rawlen
      /\ r.rcvstate = IF Full(p) THEN "OVERFLOW" ELSE p.rcvstate
  BY <1>1 DEF IrParams
<1> HIDE DEF r
<1>3. r.rcvstate # "OVERFLOW" => ~Full(r)
  BY <1>2 DEF Full
<1>4. CASE r.rcvstate = "IDLE"
  <2> DEFINE e == [r EXCEPT !.overflow = FALSE, !.rawlen = 0]
  <2>1. Sample(p, irdata) = IdleTick(r, irdata)
    BY <1>4 DEF Sample, r
  <2>2. e \in IrParams /\ ~Full(e) /\ e.rawlen = 0
    <3>1. 0 \in 0 .. RAWBUF /\ ~(0 >= RAWBUF)
      BY IrAssumption
    <3>2. QED BY <1>2, <3>1 DEF IrParams, Full
  <2>3. Record(e, Width(r), "MARK") \in IrParams
         /\ Record(e, Width(r), "MARK").rcvstate = "MARK"
    BY <2>2, RecordType DEF Width
  <2>4. [r EXCEPT !.timer = 0, !.pure = TRUE] \in IrParams
    BY <1>1, <1>2 DEF IrParams
  <2>5. QED BY <1>2, <1>4, <2>1, <2>3, <2>4 DEF IdleTick, IrParams
<1>5. CASE r.rcvstate = "MARK"
  <2>1. Sample(p, irdata) = MarkTick(r, irdata)
    BY <1>5 DEF Sample, r
  <2>2. QED
    BY <1>2, <1>3, <1>5, <2>1, RecordType DEF MarkTick, IrParams
<1>6. CASE r.rcvstate = "SPACE"
  <2>1. Sample(p, irdata) = SpaceTick(r, irdata)
    BY <1>6 DEF Sample, r
  <2>2. /\ Record(r, Width(r), "MARK") \in IrParams
        /\ Record(r, Width(r), "MARK").rawlen = r.rawlen + 1
        /\ Record(r, Width(r), "MARK").rcvstate = "MARK"
    BY <1>2, <1>3, <1>6, RecordType DEF Width
  <2>3. QED BY <1>2, <1>6, <2>1, <2>2 DEF SpaceTick, IrParams
<1>7. CASE r.rcvstate = "STOP"
  <2>1. Sample(p, irdata) = StopTick(r, irdata)
    BY <1>7 DEF Sample, r
  <2>2. [r EXCEPT !.timer = 0, !.pure = TRUE] \in IrParams
    BY <1>1, <1>2 DEF IrParams
  <2>3. QED BY <1>2, <1>7, <2>1, <2>2 DEF StopTick, IrParams
<1>8. CASE r.rcvstate = "OVERFLOW"
  <2>1. Sample(p, irdata) = OverflowTick(r, irdata)
    BY <1>8 DEF Sample, r
  <2> DEFINE b == r.pure /\ irdata = "SPACE"
  <2>2. b \in BOOLEAN
    OBVIOUS
  <2> HIDE DEF b
  <2>3. [r EXCEPT !.overflow = TRUE, !.rcvstate = "STOP", !.pure = b] \in IrParams
    BY <1>2, <2>2 DEF IrParams
  <2>4. OverflowTick(r, irdata)
          = [r EXCEPT !.overflow = TRUE, !.rcvstate = "STOP", !.pure = b]
    BY DEF OverflowTick, b
  <2>5. QED BY <1>2, <1>8, <2>1, <2>3, <2>4 DEF IrParams
<1>9. CASE r.rcvstate = "NONE"
  BY <1>2, <1>9 DEF Sample, r, IrParams
<1>10. QED BY <1>2, <1>4, <1>5, <1>6, <1>7, <1>8, <1>9 DEF IrParams

LEMMA InitIInv == Init => IInv
<1> SUFFICES ASSUME Init PROVE IInv
  OBVIOUS
<1>1. irparams.rawbuf \in [0 .. RAWBUF - 1 -> {"none", "space", "mark", "mixed"}]
  BY DEF Init
<1>2. irparams.rawlen \in 0 .. RAWBUF /\ irparams.timer \in 0 .. TimerCap
  BY IrAssumption DEF Init, TimerCap
<1>3. TypeOK
  BY <1>1, <1>2 DEF Init, TypeOK
<1>4. QED
  BY <1>3 DEF Init, IInv, StoppedWhileRead, Reading, IdleIsEmpty, SnapshotCovered,
              rawlen, rcvstate

LEMMA StepIInv == IInv /\ [Next]_vars => IInv'
<1> SUFFICES ASSUME IInv, [Next]_vars PROVE IInv'
  OBVIOUS
<1> USE DEF IInv, StoppedWhileRead, Reading, IdleIsEmpty, SnapshotCovered,
            rawlen, rcvstate
<1>1. ASSUME NEW irdata \in {"MARK", "SPACE"}, ISR(irdata) PROVE IInv'
  <2>1. irparams \in IrParams
    BY DEF TypeOK, IrParams
  <2>2. TypeOK'
    BY <1>1, <2>1, SampleFacts DEF ISR, TypeOK, IrParams
  <2>3. QED
    BY <1>1, <2>1, <2>2, SampleFacts DEF ISR, TypeOK, IrParams
<1>2. CASE DecodeRawlen \/ DecodeOverflow
  BY <1>2 DEF DecodeRawlen, DecodeOverflow, TypeOK
<1>3. CASE DecodeCheck
  BY <1>3 DEF DecodeCheck, Stopped, TypeOK
<1>4. CASE DecodeAccept \/ DecodeReject \/ Use \/ EnableAgain
  BY <1>4 DEF DecodeAccept, DecodeReject, Use, EnableAgain, TypeOK
<1>5. CASE ResumeState
  BY <1>5 DEF ResumeState, ResumedState, TypeOK
<1>6. CASE ResumeRawlen
  BY <1>6, IrAssumption DEF ResumeRawlen, ResumedRawlen, TypeOK
<1>7. CASE UNCHANGED vars
  BY <1>7 DEF vars, TypeOK
<1>8. QED
  BY <1>1, <1>2, <1>3, <1>4, <1>5, <1>6, <1>7 DEF Next, Main

-----------------------------------------------------------------------------
(* The interrupt never writes outside rawbuf and every field keeps its type. *)
THEOREM TypeCorrect == Spec => []TypeOK
<1>1. IInv => TypeOK
  BY DEF IInv
<1>2. QED BY <1>1, InitIInv, StepIInv, PTL DEF Spec

(* decode()'s unlocked snapshot never covers more than was recorded. *)
THEOREM SnapshotSafe == Spec => []ReadsRecorded
<1>1. IInv => ReadsRecorded
  BY DEF IInv, SnapshotCovered, ReadsRecorded, Reading
<1>2. QED BY <1>1, InitIInv, StepIInv, PTL DEF Spec

(* While decoders or the sketch read the frame, nothing changes it. *)
THEOREM FrameHeld == Spec => HeldFrame
<1>1. IInv /\ [Next]_vars => [Reading => UNCHANGED <<rawbuf, rawlen>>]_vars
  <2> SUFFICES ASSUME IInv, Next, Reading PROVE UNCHANGED <<rawbuf, rawlen>>
    OBVIOUS
  <2> USE DEF IInv, Reading, StoppedWhileRead, rawlen, rawbuf, rcvstate
  <2>1. ASSUME NEW irdata \in {"MARK", "SPACE"}, ISR(irdata)
        PROVE UNCHANGED <<rawbuf, rawlen>>
    <3>1. irparams \in IrParams
      BY DEF TypeOK, IrParams
    <3>2. QED BY <2>1, <3>1, SampleFacts DEF ISR
  <2>2. CASE Main \/ EnableAgain
    BY <2>2
    DEF Main, EnableAgain, DecodeRawlen, DecodeOverflow, DecodeCheck, DecodeAccept,
        DecodeReject, Use, ResumeState, ResumeRawlen
  <2>3. QED BY <2>1, <2>2 DEF Next
<1>2. QED BY <1>1, InitIInv, StepIInv, PTL DEF Spec, HeldFrame
-----------------------------------------------------------------------------
(* A record whose entries alternate and whose state agrees with the number *)
(* of them: a mark is timed after an odd number of entries, a space after  *)
(* an even one.                                                            *)
MarksAreOdd(p) == \A k \in 0 .. p.rawlen - 1 : p.rawbuf[k] = "mark" <=> k % 2 = 1
InPhase(p) ==
  /\ MarksAreOdd(p)
  /\ p.rcvstate = "MARK" => p.rawlen % 2 = 1
  /\ p.rcvstate = "SPACE" => p.rawlen % 2 = 0

AltInv == ~torn => InPhase(irparams)

(* Recording the width that is due keeps the record in phase. *)
LEMMA RecordInPhase ==
  ASSUME NEW p \in IrParams, ~Full(p), MarksAreOdd(p),
         NEW w \in {"space", "mark", "mixed"}, w = "mark" <=> p.rawlen % 2 = 1,
         NEW next \in {"MARK", "SPACE"}, next = "MARK" <=> p.rawlen % 2 = 0
  PROVE  InPhase(Record(p, w, next))
<1> DEFINE q == Record(p, w, next)
<1>1. p.rawlen \in 0 .. RAWBUF - 1
  BY IrAssumption DEF Full, IrParams
<1>2. /\ q.rawlen = p.rawlen + 1 /\ q.rcvstate = next
      /\ q.rawbuf = [p.rawbuf EXCEPT ![p.rawlen] = w]
  BY DEF Record, IrParams
<1> HIDE DEF q
<1>3. ASSUME NEW k \in 0 .. q.rawlen - 1
      PROVE  q.rawbuf[k] = "mark" <=> k % 2 = 1
  <2>1. CASE k = p.rawlen
    BY <1>1, <1>2, <2>1 DEF IrParams
  <2>2. CASE k # p.rawlen
    <3>1. k \in 0 .. p.rawlen - 1 /\ k \in 0 .. RAWBUF - 1
      BY <1>1, <1>2, <2>2, IrAssumption
    <3>2. q.rawbuf[k] = p.rawbuf[k]
      BY <1>2, <2>2, <3>1 DEF IrParams
    <3>3. QED BY <3>1, <3>2 DEF MarksAreOdd
  <2>3. QED BY <2>1, <2>2
<1>4. (next = "MARK" => q.rawlen % 2 = 1) /\ (next = "SPACE" => q.rawlen % 2 = 0)
  BY <1>1, <1>2, IrAssumption
<1>5. QED BY <1>2, <1>3, <1>4 DEF InPhase, MarksAreOdd, q

(* One sample keeps a record in phase, whatever the line and the state. *)
LEMMA SampleInPhase ==
  ASSUME NEW p \in IrParams, NEW irdata \in {"MARK", "SPACE"}, InPhase(p)
  PROVE  InPhase(Sample(p, irdata))
<1> DEFINE t == Min(p.timer + 1, TimerCap)
           r == [p EXCEPT !.timer = t,
                          !.rcvstate = IF Full(p) THEN "OVERFLOW" ELSE @]
<1>1. t \in 0 .. TimerCap /\ 0 \in 0 .. TimerCap
  BY IrAssumption DEF Min, TimerCap, IrParams
<1>2. /\ r \in IrParams /\ r.rawbuf = p.rawbuf /\ r.rawlen = p.rawlen
      /\ r.rcvstate = IF Full(p) THEN "OVERFLOW" ELSE p.rcvstate
  BY <1>1 DEF IrParams
<1> HIDE DEF r
<1>3. r.rcvstate # "OVERFLOW" => ~Full(r)
  BY <1>2 DEF Full
<1>4. InPhase(r) /\ MarksAreOdd(r)
  BY <1>2 DEF InPhase, MarksAreOdd
<1>5. Width(r) \in {"space", "mark", "mixed"} /\ Width(r) # "mark"
  BY DEF Width
<1>6. InPhase([r EXCEPT !.timer = 0, !.pure = TRUE])
  BY <1>2, <1>4 DEF InPhase, MarksAreOdd, IrParams
<1>7. CASE r.rcvstate = "IDLE"
  <2> DEFINE e == [r EXCEPT !.overflow = FALSE, !.rawlen = 0]
  <2>1. Sample(p, irdata) = IdleTick(r, irdata)
    BY <1>7 DEF Sample, r
  <2>2. e \in IrParams /\ ~Full(e) /\ e.rawlen = 0
    <3>1. 0 \in 0 .. RAWBUF /\ ~(0 >= RAWBUF)
      BY IrAssumption
    <3>2. QED BY <1>2, <3>1 DEF IrParams, Full
  <2>3. MarksAreOdd(e) /\ e.rawlen % 2 = 0 /\ e.rawlen % 2 # 1
    BY <2>2 DEF MarksAreOdd
  <2>4. InPhase(Record(e, Width(r), "MARK"))
    <3> HIDE DEF e
    <3>1. QED BY <1>5, <2>2, <2>3, RecordInPhase
  <2>5. QED BY <1>4, <1>6, <2>1, <2>4 DEF IdleTick
<1>8. CASE r.rcvstate = "MARK"
  <2>1. Sample(p, irdata) = MarkTick(r, irdata)
    BY <1>8 DEF Sample, r
  <2>2. r.rawlen % 2 = 1 /\ r.rawlen % 2 # 0
    BY <1>4, <1>8 DEF InPhase
  <2>3. InPhase(Record(r, "mark", "SPACE"))
    BY <1>2, <1>3, <1>4, <1>8, <2>2, RecordInPhase
  <2>4. QED BY <1>4, <2>1, <2>3 DEF MarkTick
<1>9. CASE r.rcvstate = "SPACE"
  <2>1. Sample(p, irdata) = SpaceTick(r, irdata)
    BY <1>9 DEF Sample, r
  <2>2. r.rawlen % 2 = 0 /\ r.rawlen % 2 # 1
    BY <1>4, <1>9 DEF InPhase
  <2>3. InPhase(Record(r, Width(r), "MARK"))
    BY <1>2, <1>3, <1>4, <1>5, <1>9, <2>2, RecordInPhase
  <2>4. InPhase([r EXCEPT !.rcvstate = "STOP"])
    BY <1>2, <1>4 DEF InPhase, MarksAreOdd, IrParams
  <2>5. QED BY <1>4, <2>1, <2>3, <2>4 DEF SpaceTick
<1>10. CASE r.rcvstate = "STOP"
  <2>1. Sample(p, irdata) = StopTick(r, irdata)
    BY <1>10 DEF Sample, r
  <2>2. QED BY <1>4, <1>6, <2>1 DEF StopTick
<1>11. CASE r.rcvstate = "OVERFLOW"
  <2>1. Sample(p, irdata) = OverflowTick(r, irdata)
    BY <1>11 DEF Sample, r
  <2>2. InPhase(OverflowTick(r, irdata))
    BY <1>2, <1>4 DEF OverflowTick, InPhase, MarksAreOdd, IrParams
  <2>3. QED BY <2>1, <2>2
<1>12. CASE r.rcvstate = "NONE"
  BY <1>4, <1>12 DEF Sample, r
<1>13. QED BY <1>2, <1>7, <1>8, <1>9, <1>10, <1>11, <1>12 DEF IrParams

LEMMA StepAltInv == IInv /\ AltInv /\ [Next]_vars => AltInv'
<1> SUFFICES ASSUME IInv, AltInv, [Next]_vars, ~torn' PROVE InPhase(irparams)'
  BY DEF AltInv
<1>1. irparams \in IrParams /\ 0 \in 0 .. RAWBUF
  BY IrAssumption DEF IInv, TypeOK, IrParams
<1>2. ASSUME NEW irdata \in {"MARK", "SPACE"}, ISR(irdata) PROVE InPhase(irparams)'
  <2>1. InPhase(irparams)
    BY <1>2 DEF ISR, AltInv
  <2>2. InPhase(Sample(irparams, irdata))
    BY <1>1, <2>1, SampleInPhase
  <2>3. QED BY <1>2, <2>2 DEF ISR
<1>3. CASE \/ DecodeRawlen \/ DecodeOverflow \/ DecodeCheck \/ DecodeAccept
           \/ DecodeReject \/ Use \/ EnableAgain \/ UNCHANGED vars
  BY <1>3 DEF DecodeRawlen, DecodeOverflow, DecodeCheck, DecodeAccept, DecodeReject,
              Use, EnableAgain, vars, AltInv
<1>4. CASE ResumeState
  BY <1>1, <1>4 DEF ResumeState, ResumedState, AltInv, InPhase, MarksAreOdd, IrParams
<1>5. CASE ResumeRawlen
  <2>1. irparams'.rawlen = 0 /\ irparams'.rcvstate = "IDLE"
    BY <1>1, <1>5 DEF ResumeRawlen, ResumedRawlen, rcvstate, IrParams
  <2>2. QED BY <2>1 DEF InPhase, MarksAreOdd
<1>6. QED BY <1>2, <1>3, <1>4, <1>5 DEF Next, Main

(* Marks are where the decoders look for them, at the odd entries, for any *)
(* buffer size and however interrupts, overflows and calls of resume()     *)
(* fall, as long as no interrupt came between the two stores of resume().  *)
THEOREM Alternates == Spec => []Alternating
<1>1. Init => AltInv
  <2> SUFFICES ASSUME Init PROVE InPhase(irparams)
    BY DEF AltInv
  <2>1. QED BY DEF Init, InPhase, MarksAreOdd
<1>2. AltInv => Alternating
  BY DEF AltInv, Alternating, InPhase, MarksAreOdd, rawlen, rawbuf
<1>3. QED BY <1>1, <1>2, InitIInv, StepIInv, StepAltInv, PTL DEF Spec
=============================================================================
