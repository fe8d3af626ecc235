------------------------------- MODULE I2cBus -------------------------------
(***************************************************************************)
(* What the I2C driver promises of the wires, whatever it does with        *)
(* command lists, FIFOs and interrupts: the bytes of a transaction cross   *)
(* the bus in the order of the queue, each once.  A transaction may be     *)
(* given up at any point, and then another begins.                         *)
(***************************************************************************)
EXTENDS I2cCommands

VARIABLES
  queue,   (* the transfers of the transaction *)
  bus      (* what has crossed the bus of it   *)

Init == bus = <<>>

Transfer ==
  /\ Len(bus') > Len(bus)
  /\ SubSeq(bus', 1, Len(bus)) = bus
  /\ LET stream == Stream(queue)
     IN Len(bus') <= Len(stream) /\ SubSeq(stream, 1, Len(bus')) = bus'

Begin == bus' = <<>>

Next == Transfer \/ Begin

Spec == Init /\ [][Next]_<<queue, bus>>
=============================================================================
