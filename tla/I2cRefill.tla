----------------------------- MODULE I2cRefill -----------------------------
(***************************************************************************)
(* fillCmdQueue against a controller that executes what it wrote: the      *)
(* queue is turned into one command list after the other, each refill      *)
(* going on where the last one stopped, and the controller runs a list up  *)
(* to STOP, or to END, where it asks for more.                             *)
(*                                                                         *)
(* All queues of up to MaxEntries transfers are tried; only the last one   *)
(* sends STOP, since i2cWrite and i2cRead process the queue at a STOP.     *)
(***************************************************************************)
EXTENDS I2cCommands

CONSTANTS
  MaxEntries,       (* most transfers in a queue                           *)
  LongestTransfer,  (* most data bytes of a transfer                       *)
  Addresses         (* device addresses a sketch uses                      *)

VARIABLES
  addr,    (* the address of the device                                    *)
  dq,      (* the queue, with the flags of fillCmdQueue                    *)
  cmd,     (* commands the controller has left                             *)
  moved,   (* address and data bytes moved, per entry                      *)
  wire,    (* what crossed the bus                                         *)
  phase    (* "fill", "run" or "done"                                      *)

refillVars == <<addr, dq, cmd, moved, wire, phase>>

Lengths == 0 .. LongestTransfer
Transfers(stop) == {NewEntry(m, r, n, stop) : m \in {0}, r \in {1, 2}, n \in Lengths}
                   \union {NewEntry(1, 1, n, stop) : n \in Lengths}
Queues ==
  {K \in UNION {[1 .. k -> UNION {Transfers(stop) : stop \in BOOLEAN}] : k \in 1 .. MaxEntries} :
     \A q \in 1 .. Len(K) : K[q].stop <=> q = Len(K)}

RefillInit ==
  /\ addr \in Addresses
  /\ dq \in Queues
  /\ cmd = <<>> /\ wire = <<>> /\ phase = "fill"
  /\ moved = [q \in 1 .. Len(dq) |-> 0]

(* The first call by i2cProcQueue and every END interrupt *)
Fill ==
  /\ phase = "fill"
  /\ LET filled == FillCmdQueue(dq, 1)
     IN dq' = filled.dq /\ cmd' = filled.cmd
  /\ phase' = "run"
  /\ UNCHANGED <<addr, moved, wire>>

(* The controller executes a command *)
Move ==
  /\ phase = "run" /\ cmd # <<>> /\ Head(cmd).op \in {"READ", "WRITE"}
  /\ LET c == Head(cmd)
     IN /\ wire' = wire \o [k \in 1 .. c.n |-> ByteToken(dq[c.q], c.q, moved[c.q] + k, c.nak)]
        /\ moved' = [moved EXCEPT ![c.q] = @ + c.n]
  /\ cmd' = Tail(cmd)
  /\ UNCHANGED <<addr, dq, phase>>

Start ==
  /\ phase = "run" /\ cmd # <<>> /\ Head(cmd).op = "RSTART"
  /\ wire' = Append(wire, Token("start", Head(cmd).q, 0))
  /\ cmd' = Tail(cmd)
  /\ UNCHANGED <<addr, dq, moved, phase>>

Stop ==
  /\ phase = "run" /\ cmd # <<>> /\ Head(cmd).op = "STOP"
  /\ wire' = Append(wire, Token("stop", Head(cmd).q, 0))
  /\ phase' = "done"
  /\ UNCHANGED <<addr, dq, cmd, moved>>

End ==
  /\ phase = "run" /\ cmd # <<>> /\ Head(cmd).op = "END"
  /\ phase' = "fill"
  /\ UNCHANGED <<addr, dq, cmd, moved, wire>>

Finished == phase = "done" /\ UNCHANGED refillVars

RefillNext == Fill \/ Move \/ Start \/ Stop \/ End \/ Finished

RefillSpec == RefillInit /\ [][RefillNext]_refillVars

RefillWires == INSTANCE I2cBus WITH queue <- dq, bus <- wire
-----------------------------------------------------------------------------
(* Every byte is on the bus once and in order, wherever the lists are cut  *)
(* (esp32-hal-i2c.c:281 "ALL CMD queues must be terminated with either END *)
(* or STOP").                                                              *)
InOrder == [][RefillWires!Transfer]_wire

(* esp32-hal-i2c.c:294: "START cannot proceed END", and a list is never    *)
(* longer than the registers.                                              *)
ListFits ==
  /\ Len(cmd) <= LAST + 1
  /\ \A k \in 1 .. Len(cmd) - 1 : cmd[k + 1].op = "END" => cmd[k].op # "RSTART"

(* When the controller has seen STOP, the whole queue has crossed.         *)
AllMoved == phase = "done" => wire = Stream(dq)

(* Refilling comes to an end: every list moves the transaction on, so that *)
(* a finite queue needs finitely many END interrupts.                      *)
ListMoves ==
  [][Fill => \E k \in 1 .. Len(cmd') : cmd'[k].op \in {"RSTART", "STOP"} \/ cmd'[k].n > 0]_refillVars

(* A queue of any transfers goes through a short list: no list is too long *)
(* or separates START from what follows it, and nothing is left behind.    *)
WholeQueue == ListFits /\ AllMoved

(* And it goes in order, every refill a step forward.                      *)
MovesInOrder == InOrder /\ ListMoves

(* esp32-hal-i2c.c:892 "convert address field to required I2C format": the *)
(* ten bit form is 11110, two address bits and R/W, then eight bits.       *)
TenBitFormat ==
  IsTenBit(addr) => ConvertedAddr(addr, 0)
                      = <<240 + 2 * ((addr \div 256) % 4), addr % 256>>
=============================================================================
