----------------------------- MODULE IrReceiver -----------------------------
(***************************************************************************)
(* The infrared receiver of src/sensors/ir: the timer interrupt IRTimer    *)
(* (IRremote.cpp), which samples the detector every 50us and records the   *)
(* widths of spaces and marks in irparams, and the main program's side of  *)
(* it (irRecv.cpp), where decode() and resume() read and write irparams    *)
(* with interrupts enabled.                                                *)
(*                                                                         *)
(* The interrupt may come between any two accesses of the main program, so *)
(* ISR is one atomic step and decode() and resume() are several.  A width  *)
(* is abstracted to what was measured: "space" or "mark", or "mixed" for a *)
(* width during which the detector saw both.                               *)
(***************************************************************************)
EXTENDS Integers

CONSTANTS
  RAWBUF,        (* entries of rawbuf                                      *)
  GAP_TICKS,     (* ticks of space that separate two transmissions         *)
  MinSamples     (* entries decodeHash asks for                            *)

ASSUME IrAssumption ==
  /\ RAWBUF \in Nat \ {0}
  /\ GAP_TICKS \in Nat \ {0}
  /\ MinSamples \in Nat

(* The timer is followed up to the first value past every comparison *)
TimerCap == GAP_TICKS + 1

VARIABLES
  irparams,   (* the shared record; pure: the line was at SPACE throughout *)
              (* what timer counts so far, apart from a mark being timed   *)
  results,    (* decode_results: the snapshot decode() hands to the sketch *)
  pc,         (* where the main program is                                 *)
  torn        (* history: the last resume() dropped an entry recorded      *)
              (* between its two stores                                    *)

vars == <<irparams, results, pc, torn>>

rawlen   == irparams.rawlen
rcvstate == irparams.rcvstate
rawbuf   == irparams.rawbuf

(* Static memory is zero, which is no state of the receiver.  enableIRIn() *)
(* has started the timer and comes to its two stores, which are the ones   *)
(* of resume(); interrupts may come before and between them.               *)
Init ==
  /\ irparams = [rcvstate |-> "NONE", rawlen |-> 0, timer |-> 0, pure |-> TRUE,
                 overflow |-> FALSE, rawbuf |-> [k \in 0 .. RAWBUF - 1 |-> "none"]]
  /\ results = [rawlen |-> 0, overflow |-> FALSE]
  /\ pc = "resume"
  /\ torn = FALSE

-----------------------------------------------------------------------------
(***************************************************************************)
(* The interrupt: one sample of the detector.                              *)
(***************************************************************************)
Min(a, b) == IF a < b THEN a ELSE b

(* rawbuf[rawlen++] = timer; timer = 0; rcvstate = next *)
Record(p, width, next) ==
  [p EXCEPT !.rawbuf = [@ EXCEPT ![p.rawlen] = width], !.rawlen = @ + 1,
            !.timer = 0, !.pure = TRUE, !.rcvstate = next]

Width(p) == IF p.pure THEN "space" ELSE "mixed"

GapEnded(p, irdata) == irdata = "MARK" /\ p.timer >= GAP_TICKS

IdleTick(p, irdata) ==
  IF irdata = "SPACE" THEN p
  ELSE IF ~GapEnded(p, irdata) THEN [p EXCEPT !.timer = 0, !.pure = TRUE]
  ELSE Record([p EXCEPT !.overflow = FALSE, !.rawlen = 0], Width(p), "MARK")

MarkTick(p, irdata) ==
  IF irdata = "SPACE" THEN Record(p, "mark", "SPACE") ELSE p

SpaceTickStays(p, irdata) ==  \* defect: the state does not follow the line
  IF irdata = "MARK" THEN Record(p, Width(p), "SPACE")
  ELSE IF p.timer > GAP_TICKS THEN [p EXCEPT !.rcvstate = "STOP"] ELSE p
SpaceTick(p, irdata) ==
  IF irdata = "MARK" THEN Record(p, Width(p), "MARK")
  ELSE IF p.timer > GAP_TICKS THEN [p EXCEPT !.rcvstate = "STOP"] ELSE p

RestartingStop(p, irdata) ==  \* defect: the next frame is not held back
  IdleTick(p, irdata)
StopTick(p, irdata) ==
  IF irdata = "MARK" THEN [p EXCEPT !.timer = 0, !.pure = TRUE] ELSE p

OverflowTick(p, irdata) ==
  [p EXCEPT !.overflow = TRUE, !.rcvstate = "STOP",
            !.pure = @ /\ irdata = "SPACE"]

PastTheEnd(p) == p.rawlen > RAWBUF   \* defect: one entry too late
Full(p) == p.rawlen >= RAWBUF

Sample(p, irdata) ==
  LET q == [p EXCEPT !.timer = Min(@ + 1, TimerCap),
                     !.rcvstate = IF Full(p) THEN "OVERFLOW" ELSE @]
  IN CASE q.rcvstate = "NONE"     -> q
       [] q.rcvstate = "IDLE"     -> IdleTick(q, irdata)
       [] q.rcvstate = "MARK"     -> MarkTick(q, irdata)
       [] q.rcvstate = "SPACE"    -> SpaceTick(q, irdata)
       [] q.rcvstate = "STOP"     -> StopTick(q, irdata)
       [] q.rcvstate = "OVERFLOW" -> OverflowTick(q, irdata)

ISR(irdata) ==
  /\ irparams' = Sample(irparams, irdata)
  /\ UNCHANGED <<results, pc, torn>>

-----------------------------------------------------------------------------
(***************************************************************************)
(* The main program: decode(), the sketch's use of its results, resume().  *)
(***************************************************************************)
DecodeRawlen ==
  /\ pc = "loop" /\ pc' = "snapshot"
  /\ results' = [results EXCEPT !.rawlen = rawlen]
  /\ UNCHANGED <<irparams, torn>>

DecodeOverflow ==
  /\ pc = "snapshot" /\ pc' = "check"
  /\ results' = [results EXCEPT !.overflow = irparams.overflow]
  /\ UNCHANGED <<irparams, torn>>

Stopped == rcvstate = "STOP"

DecodeCheck ==
  /\ pc = "check" /\ pc' = IF Stopped THEN "decoding" ELSE "loop"
  /\ UNCHANGED <<irparams, results, torn>>

(* A protocol's decoder accepts what it reads, or decodeHash does *)
DecodeAccept ==
  /\ pc = "decoding" /\ pc' = "result"
  /\ UNCHANGED <<irparams, results, torn>>

(* No decoder accepts and the samples are too few for the hash *)
DecodeReject ==
  /\ pc = "decoding" /\ results.rawlen < MinSamples
  /\ pc' = "resume"
  /\ UNCHANGED <<irparams, results, torn>>

(* The sketch has used the results and calls resume() *)
Use ==
  /\ pc = "result" /\ pc' = "resume"
  /\ UNCHANGED <<irparams, results, torn>>

(* ... or calls enableIRIn() again, to receive after it has sent *)
EnableAgain ==
  /\ pc = "loop" /\ pc' = "resume"
  /\ UNCHANGED <<irparams, results, torn>>

ResumesNothing ==            \* defect: only the first call starts the state machine
  IF rcvstate = "NONE" THEN "IDLE" ELSE rcvstate
ResumedState == "IDLE"

KeptRawlen == rawlen         \* defect: the old frame's length stays
ResumedRawlen == 0

ResumeState ==
  /\ pc = "resume" /\ pc' = "resuming"
  /\ irparams' = [irparams EXCEPT !.rcvstate = ResumedState]
  /\ UNCHANGED <<results, torn>>

ResumeRawlen ==
  /\ pc = "resuming" /\ pc' = "loop"
  /\ irparams' = [irparams EXCEPT !.rawlen = ResumedRawlen]
  /\ torn' = (rcvstate # "IDLE")
  /\ UNCHANGED results

Main == \/ DecodeRawlen \/ DecodeOverflow \/ DecodeCheck \/ DecodeAccept
        \/ DecodeReject \/ Use \/ ResumeState \/ ResumeRawlen

Next == Main \/ EnableAgain \/ \E irdata \in {"MARK", "SPACE"} : ISR(irdata)

Spec == Init /\ [][Next]_vars

(* loop() keeps calling decode(), and what the interrupt does never stops it *)
FairSpec == Spec /\ WF_vars(Main)
-----------------------------------------------------------------------------
(* The record and the snapshot keep their types; the interrupt, which      *)
(* writes rawbuf[rawlen], stays inside the buffer.                         *)
TypeOK ==
  /\ irparams \in
       [rcvstate : {"NONE", "IDLE", "MARK", "SPACE", "STOP", "OVERFLOW"},
        rawlen : 0 .. RAWBUF, timer : 0 .. TimerCap, pure : BOOLEAN,
        overflow : BOOLEAN,
        rawbuf : [0 .. RAWBUF - 1 -> {"none", "space", "mark", "mixed"}]]
  /\ results \in [rawlen : 0 .. RAWBUF, overflow : BOOLEAN]
  /\ pc \in {"loop", "snapshot", "check", "decoding", "result", "resume", "resuming"}
  /\ torn \in BOOLEAN

Reading == pc \in {"decoding", "result"}

(* A frame is held: while decoders and sketch read rawbuf, no interrupt    *)
(* writes it, although decode() takes no lock.                             *)
HeldFrame == [][Reading => UNCHANGED <<rawbuf, rawlen>>]_vars

(* The length decode() took before it looked at rcvstate may be stale, but *)
(* it never reaches past the entries of the frame that is read with it.    *)
ReadsRecorded == Reading => results.rawlen <= rawlen

(* Spaces are at the even positions and marks at the odd ones, where the   *)
(* decoders expect them (they start at offset 1 with a mark), through      *)
(* overflows, gaps and every resume() that was not torn.                   *)
Alternating ==
  ~torn => \A k \in 0 .. rawlen - 1 : rawbuf[k] = "mark" <=> k % 2 = 1

(* IRremote.cpp:117: "Widths of alternating SPACE, MARK are recorded in    *)
(* rawbuf", whenever the interrupt comes.                                  *)
AlwaysAlternating ==
  \A k \in 0 .. rawlen - 1 : rawbuf[k] = "mark" <=> k % 2 = 1

(* IRremote.cpp:120: "First entry is the SPACE between transmissions"      *)
FirstEntryIsSpace == rawlen > 0 => rawbuf[0] = "space"

(* IRremote.h:160: results.overflow is "true iff IR raw code too long"     *)
OverflowReported == pc = "result" => results.overflow = irparams.overflow

(* The receiver never stays stopped: each frame is given up or used, and   *)
(* listening starts again.                                                 *)
ListensAgain == rcvstate = "STOP" ~> rcvstate = "IDLE"
=============================================================================
