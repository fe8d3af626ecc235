# Verification of the ODROID-GO Arduino library

TLA+ models of the board library under `src/`, TLC configurations that check them on small
instances, and TLAPS proofs that carry the most important results over to every instance.
Line numbers below refer to files under `src/src/` unless a longer path is given.

Contents: [the system](#the-system), [the modules](#the-modules), [how each module
corresponds to the code](#modules-and-code), [the runs](#the-runs),
[fairness](#fairness), [the proofs](#the-proofs), [what the checks
found](#where-the-code-and-its-comments-disagree), [what is left out](#not-modelled),
[plan](#plan).

## The system

A sketch (an Arduino program: `setup()` once, `loop()` for ever) links against a set of mostly
independent parts. One task runs the sketch; beside it run interrupt handlers and, on the
ESP32, the FreeRTOS daemon that carries out what handlers defer. `millis()` and `micros()` are
unsigned and wrap.

| Component | State it keeps | Operations | Interacts with | What is hard | What makes it correct |
|---|---|---|---|---|---|
| **SimpleTimer** `web/SimpleTimer.cpp` | `MAX_TIMERS` slots (callback, period, last time, runs, enabled, mark), `numTimers` | `setTimer/Interval/Timeout`, `deleteTimer`, `restartTimer`, `enable`, `disable`, `toggle`, `run` | `millis()`; callbacks into the sketch, which call back into the pool | `run` marks in one pass and calls in a second; callbacks change the pool in between; slots are reused; the clock wraps | never calls an emptied slot, counts runs exactly, never early, frees every finished slot, removes only what ran n times |
| **Infrared receiver** `sensors/ir/irRecv.cpp`, `IRremote.cpp` | `irparams` shared with the 50 us interrupt (`rcvstate`, `rawbuf`, `rawlen`, `timer`, `overflow`), `decode_results` | `enableIRIn`, `decode`, `resume`; the interrupt `IRTimer` | interrupt and main program share `irparams` without a lock | every interleaving of the interrupt with `decode` and `resume`; the buffer's end; the gap that ends a frame | stays inside `rawbuf`, holds a frame while it is read, alternating entries, never deaf for ever |
| **I2C driver** `sensors/esp32-hal-i2c.c` | queue `dq`, `queuePos`, `byteCnt`, `stage`, `exitCode`, event groups, the controller's registers | `i2cWrite/Read`, `i2cAddQueue*`, `i2cProcQueue`, `i2cFlush`, `i2cInit`; the handler `i2c_isr_handler_default` | controller, FreeRTOS daemon, other devices on the bus | FIFO and command list smaller than the transfer, refilled by interrupts; results read from several places; timeouts racing the handler; retry | bytes cross in order, once; OK means all moved; each group says what happened to its transfer; every transfer ends |
| **TwoWire** `sensors/Wire.cpp` | buffers with read, write and queue indices | `begin`, `beginTransmission`, `write`, `endTransmission`, `requestFrom`, `read`, `available` | gives the driver pointers into its buffers, used only at a STOP | several queued transfers share a buffer; failure resets some indices and not others | no index leaves a buffer; what is sent is what was written; `read` gives the last request |
| **Console** `odroid_go.cpp`, `utility/Button.cpp`, `Speaker.cpp`, `battery.cpp` | debounced state and times of each button, speaker deadline, battery protection | `GO.update()`, `wasPressed` and friends, `tone`, `beep`, `mute`, `setProtection` | `millis()`, pins, deep sleep | clock wraps, and rare updates | debounced changes, true hold times, tones as long as asked |
| **WebSocket server** `web/WebSocketsServer.cpp` | slots of clients, each with its connection, a status and what its request said | `loop`, `newClient`, `handleHeader`, `clientDisconnect`, `sendTXT`, `broadcastTXT`, `disconnect`, events | TCP, the sketch's callback, which calls back into the server | callbacks raised in the middle of a search or a read; connections that end on one side first; slots that are used again | every connection in one slot, the events of a slot are sessions, slots come back |
| **WebSocket client** `web/WebSocketsClient.cpp` | its connection and status, the time of the last failure | `loop` (connect, handshake, frames), `sendTXT`, `disconnect`, events | TCP, the server | reconnection timing, answers that come late or never | it holds itself connected only if the server does |
| **WebSocket frames** `web/WebSockets.cpp` | the reader's partial header, its length, the read that waits | `sendFrame`, `write`, `handleWebsocket*`, `readCb` | TCP, fragments at any byte | a reader that restarts at the first header byte from its own callback; lengths that change the header's size; timeouts | what is framed is what is read, whatever the cuts |
| **HTTP parsing** `web/Parsing.cpp` | none between requests | `_parseArguments`, `urlDecode`, `_parseForm` | TCP | searching for a boundary in a stream that may end, pause or break off | fields stay apart, a file arrives whole or not at all |
| **HTTP server** `web/WebServer.cpp` | `_currentClient`, `_currentStatus`, `_statusChange` | `handleClient` | TCP | waiting for data and for close with one client at a time | every client is let go |
| **Display** `utility/Display.cpp` | rotation, the cached column and row of the window, the flags `locked` and `inTransaction` | about thirty drawing calls | the ILI9341 and the SD card on one SPI bus | a cache of the controller's registers that many calls must drop; calls nested in one transaction; clipping | the cache is true, the bus is given back, the pixels are those of the picture |
| **QR codes** `utility/qrcode.c` | none | `qrcode_initText`, `qrcode_initBytes` | drawn by `Display` | interleaved blocks, a walk around every pattern, penalties | a reader reads the text back |
| **IR protocols** `sensors/ir/ir_*.cpp`, `irSend.cpp` | none, but for the widths that earlier frames left in the buffer | `send*`, `decode*` | receiver, PWM | timing windows of fourteen decoders tried in turn | a decoded frame is the one sent |
| **Clocks** `sensors/RTClib.cpp`, `Rtc_Pcf8563.cpp` | registers behind I2C | dates, alarms | TwoWire | leap years, BCD, out of range values | what is set is read back |
| **Keypad controller** `sensors/tca8418.cpp` | registers behind I2C | `getKeyEvent`, `getKey`, ... | TwoWire | a failed read leaves a byte unset | reports only events read |
| **GPIO interrupts** `sensors/esp32-hal-gpio.c` | table of handlers | `attachInterrupt`, `detachInterrupt`, `__onPinInterrupt` | interrupt reads the table | replacing a handler while its interrupt is on | the function called is the one attached for that interrupt |
| Vendored and data: fonts, bitmaps, music, base64, SHA-1, sensor drivers | | | | | not the program's own logic |

`PROJECT.json` lists the hazards of this code line by line with the properties that watch them.

## The modules

| Module | Models | Composed with |
|---|---|---|
| `SimpleTimer` | the timer pool, the sketch that uses it and its clock | |
| `IrReceiver` | interrupt and main program over `irparams` | |
| `I2cCommands` | pure operators: queue entries, `fillCmdQueue`, the stream a queue stands for | used by the three below |
| `I2cBus` | abstract specification: the bytes of a transaction cross the bus in order, once | implemented by `I2cRefill` and `I2cDriver` |
| `I2cRefill` | `fillCmdQueue` against a controller that executes its lists | `RefillWires == INSTANCE I2cBus WITH queue <- dq, bus <- wire` |
| `I2cDriver` | task, handler, daemon, controller and FIFOs | `Wires == INSTANCE I2cBus` |
| `TwoWire` | the Wire library over a driver that keeps its promise | assumes of the driver what is proved of `I2cDriver` |
| `Console` | `GO.update()` with a button, the speaker and the battery | |
| `WsFrames` | a writer and a reader of frames on one connection after another | |
| `TcpLinks` | TCP as the sockets show it: two ends that learn of each other's end late, a backlog | used by the two below |
| `WsServer` | slots, the stack of the server's thread, its sketch | with `WsClient` in `WsSystem` |
| `WsClient` | the client's `loop()` and its sketch; browsers that knock at the same port | with `WsServer` in `WsSystem` |
| `WsSessions` | abstract specification: what the callback of a sketch is promised | implemented by `WsSystem` |
| `WsSystem` | server, clients and network | `Sessions == INSTANCE WsSessions` |
| `Shapes` | pure operators: the rectangles each shape of the display is made of | used by `Screen` |
| `Screen`, `MCScreen` | the display driver, the controller, an SD card on the same bus; calls for a small screen | EXTENDS `Shapes` |
| `QrCode`, `QrSymbol` | pure operators: codewords of a text; the symbol of codewords | `QrSymbol` EXTENDS `QrCode` |
| `IrProtocols`, `HttpParsing`, `Calendar` | pure operators: remote controls, forms, clocks | |
| `Algorithms` | poses problems to the pure operators and has the references they are checked against | INSTANCEs of the five |
| `SimpleTimerProofs`, `IrReceiverProofs`, `I2cProofs`, `TwoWireProofs`, `ConsoleProofs`, `WsFramesProofs`, `WsSystemProofs`, `ScreenProofs` | invariants and theorems | each EXTENDS its component (`I2cProofs` both `I2cRefill` and `I2cDriver`) and TLAPS |

The parameters of a module are CONSTANTS with a named ASSUME; a `.cfg` only gives them
values, so TLC and TLAPS look at the same definitions. Operators whose comment begins
with "defect:" are used by no specification: each is a plausible bug that takes the place of
the definition after it to show that a property notices. `PROJECT.json` names one for every property a run
checks; where a property is a conjunction of named parts, the other parts have a defect of their own, which can be
tried the same way.

## Modules and code

`PROJECT.json` maps every definition to its lines; this is the outline.

**SimpleTimer.** One variable per array of the class. `run()` (lines 49-109) is `RunMark`, the
first pass, atomic because it makes no call and interrupts do not touch the pool; then
`Dispatch` per slot, the sketch's operations while `pc = "callback"`, `Return` (with the deletion
after the last run) and `RunEnd`. A timer that is several periods late catches up one period
per `run()`, as in the code (line 70). `Tick` may come anywhere, also inside `run()`.
`lag` and `calls` are history variables: real time since a timer's last period, and calls made
for the timer now in the slot. `MaxStall` bounds how far a timer with a period falls behind;
without such a bound no clock that wraps can be right. A timer with delay 0 never moves `prev_millis` and is due at
every `run()`, so it has no lag and is not subject to the bound. A callback may delete the timer it runs for, and set another in its slot.

**IrReceiver.** `ISR(irdata)` is one sample of `IRTimer` (IRremote.cpp 127-191): the
overflow test, then the branch of the state. The main program is split at every access of
`irparams`: `decode()` copies `rawlen`, then `overflow`, then tests `rcvstate` (irRecv.cpp
17-21); `resume()` stores `rcvstate`, then `rawlen` (180-181), and so does `enableIRIn()` after it has started the timer (152-153), so the
model begins there, with the zeros of static memory, and `EnableAgain` goes back. A width is abstracted to what was
seen while it was measured ("space", "mark", "mixed"). Any decoder may accept or reject; only the last
resort `decodeHash` has a condition, on the length. The history variable `torn` marks a frame that began between
those two stores.

**I2cCommands, I2cRefill.** `Iteration` is one turn of `fillCmdQueue`'s loop (esp32-hal-i2c.c
260-400), written as the sequence of its parts: start, address, blocks of data, the last byte read (NAK),
STOP, the stretching of a list that would have START before END, END, next entry. `ByteToken` and
`Stream` say what the commands mean on the bus; `I2cRefill` runs one list after the other.

**I2cDriver.** `IsrPass`, `IsrFinish`, `IsrEject` are one pass of the handler's `while` (lines
600-725) in its order; `OnAckErr`, `OnTranComp`, `OnEndDetect`, `FillTxFifo`, `EmptyRxFifo` are its
branches and helpers. `Daemon` sets the event bit the handler asked for. The controller (`Hw*`) is
external hardware: it is modelled as the driver's comments describe it and moves one byte a step.
The task: `Enqueue`, `EnqueueStop` (both APIs), `ProcBusy`, `ProcStart`, `Wake` or `TimeOut`, `Recover`,
`GrossTimeout`, `Shutdown`, `Report`, `Reinit`, `Flush` (lines 807-1077, 1283-1339). A data byte is its
own position, so that a byte in a wrong place shows. `Faults` names what may go wrong; each run says which.

**TwoWire.** One action per call. The driver's `CONTINUE` (queued) and the outcomes of a STOP are `Queue` and
`Process`. A byte is the transfer and the place it was written for. `mixed` is a history variable for call orders
the code makes no promise about (`requestFrom` without STOP, or during a transmission).

**Console.** `update()` is a sequence of statements with the clock going on in between; a pin is
looked at only where it is read. Each age counts real time up to one full turn of the
clock, which is all a difference of two readings can tell. Of the speaker the history fields are what was
asked for, the tone's age now and when `update()` last looked, and `wrapped`: the clock wrapped under the deadline.

**WsFrames.** `SendFrame` writes a header byte by byte, as `sendFrame()` builds it (WebSockets.cpp 149-229), and a payload
of which only the length is kept; other peers may choose a longer form of the length. `SendPartOfFrame` is a
`write()` that runs into its timeout (610-648); as header and payload are two calls of `write()` and the second is made
whatever came of the first (244-253), a cut header may be followed by the payload. The reader is `handleWebsocket`, then a read that waits:
`ReadHeader` takes a byte and, when it has what it asked for, runs `handleWebsocketCb()` again from its first line, as
the callback of line 315 does, unless the connection is lost meanwhile (`ReturnsEarly`, 297-299 and 328-330: `cWsRXsize` stays as it is, the status is
still CONNECTED and no read waits, until `loop()` notices); `ReadPayload` ends in `handleWebsocketPayloadCb`; `ReadFails` is the timeout of `readCb()`
or a lost connection. A byte of a payload that is read as one of a header may be any of `Noise`.

**TcpLinks, WsServer, WsClient, WsSystem.** A connection is a pair of ends, each up or down and with the units that are on
their way to it. An end that stops is known to the other only by `Learn`, which comes once what was sent before
has been read; `Break` is an end that goes away by itself.
The server is one thread with a stack, `todo`: a callback is pushed on the rest of the function that raised it, and may
itself send, broadcast or disconnect. `clientIsConnected()` is called all over the server, and releases a lost
client on the spot: `ClientLost` is what it does to whatever is on top. The client's `loop()` calls nothing that
waits and is one step. `session` and `heard` are history variables: what the sketch knows from its events.

**Shapes, Screen.** A shape is the sequence of the primitives its function draws (Display.cpp 486-923, 1622-1683); loops are
folds over the states they pass through. In `Screen` a call of the sketch is its steps on the bus, between any two of
which the SD card may take the bus if it is free. `addr_col` and `addr_row` are the driver's cache (1406-1501), `lcd` the
controller's registers, and pixels are a set. `Canvas` is the screen the driver clips to, from `_width` and `_height`; `Glass` is what
the bits of MADCTL make of the panel (346-389). They are the same in every rotation but 5, whose MADCTL lacks the bit that exchanges rows and columns. The unsigned `_width` and `_height` make every comparison unsigned: what begins left of the screen or above it is
not drawn at all (1691-1741).

**QrCode, QrSymbol.** The whole of `qrcode.c`: bits of the text, terminator and padding, remainders over GF(256), with
a codeword as the set of its bits, interleaving, patterns, the walk through the modules, format and version bits, masks and
penalties.

**IrProtocols.** A sender gives marks and spaces in microseconds; `Recorded` is what `IRTimer` makes of them in ticks
of 50, with the lag of the detector, and `Results` the buffer `decode()` sees, behind its last entry still the widths of an
earlier frame. `Decoders` are in the order of irRecv.cpp 26-96. In `Algorithms`, `Claimed` names the frames that are taken for
another protocol's, and `ReadsOn` the decoders that read more than they ask for.

**HttpParsing, Calendar.** Characters are numbers. `indexOf` and `substring` are those of the Arduino core. The upload is
`_parseForm`'s loop over bytes (Parsing.cpp 471-542), with the bytes it puts back into the file and its exits when the
connection is lost (473, 479, 482, 490). `readBytes()` may get less than it asked for, at the end of the stream or after a pause, and
`endBuf` then keeps what it held; `strstr()` reads on behind it, where no NUL ends it: both are the argument `memory`.

## The runs

`tlc -config X.cfg M`, from this directory. All bounds are constants of the module; those of
`Algorithms`, but for `Reach`, are the sets in its `Problems`.

| Run | Configuration | Question and answer |
|---|---|---|
| `timer_pool` | `SimpleTimer.cfg` | Does the pool's bookkeeping survive every interleaving of callbacks, own deletion included, and does every finite timer end, and only after n calls? Yes: `PoolSound` (types, `CountsSlots`, `NoNullCall`), `RunsCounted` (`NoZombie`, `RunsAreCalls`), `NeverEarly`, `EndsAfterNCalls` (`FiniteTimersEnd`, and `RemovedUnlessReplaced`: `run()` removes only what it called n times, or a timer it never called in the slot of one that deleted itself in its last callback, see below). |
| `ir_receive` | `IrReceiver.cfg` | Interrupts anywhere: buffer bound, held frame, covered snapshot, alternation outside a torn `resume()`, never stopped for ever. All hold. |
| `i2c_refill` | `I2cRefill.cfg` | All queues of up to three transfers of up to five bytes, lists of five commands, blocks of two bytes: the bus carries the queue exactly (`WholeQueue`, `MovesInOrder`). |
| `i2c_driver` | `I2cDriver.cfg` | With NAKs, lost arbitration, timeouts, a bus held between calls and event groups used before: the driver implements `I2cBus` (`DrivesBus`), every result is true (`ResultsTrue`, `ErrorsTrue`), and a success shows in the event groups (`SuccessShows`). |
| `i2c_completes` | `I2cDriverLive.cfg` | Without faults every transfer completes, however FIFO, list and blocks cut it, and all reads land in place (`ReadsComplete`). |
| `i2c_retry` | `I2cDriverRetry.cfg` | Does every list the controller is started with begin with a START (`BeginsWithStart`), also when something holds the bus between the start of a transaction and its first byte? No: a violation, see "Where the code and its comments disagree". |
| `two_wire` | `TwoWire.cfg` | Every order of calls with up to three transfers: indices, what is sent, what is read back. Holds. |
| `console` | `Console.cfg` | Debouncing and hold times (`BounceFree`) and tones (`ToneTimed`) across wraps. Holds, for tones as long as the clock does not wrap under the deadline. |
| `ws_frames` | `WsFrames.cfg` | Frames of each length class, in the form `sendFrame()` gives them and in longer ones, cut anywhere, timeouts on either side: no buffer overrun (`BuffersHold`), a reader that is never deaf while its connection stands (`NotDeaf`), reads the frames that were sent (`InStep`) and reads them all or gives the connection up (`Drains`). |
| `ws_system` | `WsSystem.cfg` | One slot, a client and a browser, connections that break anywhere, a sketch that broadcasts and disconnects from its callback: `SlotsSound`, `BothAgree`, `OnlyWebSockets`, `EventsAreSessions`, `SlotsComeBack`. All hold. |
| `screen` | `MCScreen.cfg` | Calls of every kind on a screen of five by six: `CacheTrue`, `BusSound`, `BusComesBack`, `Drawn`. Holds, with the exceptions the properties name: two calls for the bus, and rotation 5 for what lies beyond the canvas. |
| `algorithms` | `Algorithms.cfg` | The pure functions against references: `ShapesAreExact`, `SymbolsAreRight`, `RemotesUnderstood`, `FormsArrive`, `ClocksReadBack`. |

What `algorithms` compares:

* *Shapes*: a line has one pixel per step, none further than half a pixel from the true line; each filled
  shape is the rows, or columns, that its outline encloses; a triangle is within a pixel of the true one.
* *QR*: of all forty versions, every module is a pattern's or a codeword's, once; any two format words differ in
  seven places and both copies are placed apart; blocks are interleaved as the standard has them; a block with its
  remainder is divisible by the generator; texts of each mode, and whole symbols of versions 1, 2, 5, 7, 10 and 14
  with their mask, read back.
* *Remotes*: frames of all fourteen senders, for every short run of bits and three lags of the detector. Those of ten decode to the
  value sent, under the right protocol; what the other four are taken for is said exactly. Of frames cut short anywhere, with a frame of the
  same remote control behind them in the buffer, three decoders make up the missing bits from there, and no other does.
* *Forms*: texts with escapes anywhere; queries with empty and signless parts; one or two fields of an encoded form, behind a query or not,
  each unescaped twice; files that contain pieces of their own delimiter, whole, cut at any byte, with the connection lost at any
  byte or a long pause at any byte, and three contents of the memory. A file arrives whole, or the reader waits or aborts.
* *Clocks*: every day of a century, every value of every alarm field.

*Why the bounds are enough.* Each is the smallest at which every branch the code has is taken, and one more where
that was affordable. Timers: two slots give a callback another slot to act on before and after its own, a clock of
four values wraps within every period. Infrared: six entries hold a frame, an accepted and
a rejected length, and overflow; a gap of three ticks distinguishes one, exactly the gap, and past it. I2C: with
five registers and blocks of two, a transfer of three bytes already needs two commands, the NAK byte of
its own and an END in the middle of an entry; with a transmit FIFO of two and a receive FIFO of three a transfer needs
refilling and emptying. TwoWire: two bytes per buffer are filled, exactly and beyond, by two transmissions.
Frames: the lengths 0, 126 and 65535 are each at a border of a form (the other borders, 125, 127 and 65536 over the
maximum, differ from them only in the length bits or are the form "huge"); two frames show a reader that is out of step. The
run's reader is the client's; the proofs are for either.
WebSockets: one slot makes a second connection wait, find it taken, and get it; two links let an old
connection end while the new one is in use. `WsSystemSlots.cfg` is the same with two slots and three links, for the safety
properties. Screen: five by six pixels have an inside, every edge and an outside, and the four cases of driver and glass: both upright (0 and 6), both lying (1), and the driver lying on an upright glass (5). Algorithms: circles to
a radius of 32, ellipses of 16, triangles in a square of 5, QR versions at which the tables, the number of
patterns or the length of a count change.
Console: with five clock values every difference, and every deadline before, at and after the wrap, occurs.
For SimpleTimer, IrReceiver, TwoWire and Console most safety results are proved for every bound, and so are the safety of the
buffers of WsFrames and of the bus and the cache of Screen, see below.

Deadlock is checked in every run but `algorithms`, where a computation ends. A sketch may always act, so the only other
final states are the ends of an I2C queue in `I2cRefill`, which `Finished` lets stutter.

## Fairness

* `SimpleTimer!FairSpec`: `WF(Run)`, `WF(Tick)`. `loop()` keeps calling `run()`, callbacks return
  (the second pass is part of `Run`), and time passes. No fairness of any operation of the sketch.
* `IrReceiver!FairSpec`: `WF(Main)`. The sketch keeps calling `decode()` and `resume()`; an
  interrupt never disables a step of the main program. No fairness of the interrupt.
* `I2cDriver!FairSpec`: `WF` of the handler (an active interrupt is served), of the daemon (highest
  priority task), of the controller (it executes what it was given) and of a call in progress.
  None for starting new calls, nor for another device letting go of the bus.
* `WsFrames!FairSpec`: `WF` of the reader (`loop()` is called again, and a read that waits is given bytes or runs into
  its timeout) and of noticing a lost connection. None of the writer or the network.
* `WsSystem!FairSpec`: `WF` of the server's thread, and of its ends of connections learning that the other is
  gone. None of clients, sketches or of connections coming in. `SlotsComeBack` adds, as a condition, that `loop()` returns
  again and again: `handleNewClients()` goes on as long as somebody connects (WebSocketsServer.cpp:599), and nothing
  in the code bounds that.
* `Screen!FairSpec`: `WF(Step)`. A call that has the bus, or finds it free, goes on. None of the sketch or of the
  SD card, which may keep the bus for ever.

## The proofs

`tlapm XProofs.tla`. Every theorem is for every value of the constants under the named
assumptions of its component (`SimpleTimerAssumption`, `IrAssumption`, `CommandAssumption`, `DriverAssumption`, `WireAssumption`,
`ConsoleAssumption`, `WsFramesAssumption` and `WsLengthsAssumption`, `TcpAssumption`, `ServerAssumption` and `WsClientAssumption`,
`ScreenAssumption` and `CallsAssumption`), which say no
more than that sizes are positive, that a sketch calls the functions of `Display.h` with arguments of their types, that bounds are numbers and durations clock values, that a list has more than three
command registers (the code's has 16), and that a `size_t` has 32 bits with the limit on a message below 2^24 (it is 15 KB). Each proof is Init, one lemma per
action (or per group of actions with the same effect), and a last temporal step.

* **SimpleTimer**: `TypeCorrect`, `PoolSafe` (`NoNullCall`, `CountsSlots`), `CountedRuns` (`NoZombie`, `RunsAreCalls`), `OnSchedule`
  (`NeverEarly`). The six invariants are not inductive by themselves: `setTimer` leaves
  `numRuns` alone, so `IInv` adds `FreeSlotsReset`, a free slot's `numRuns` is zero. That is
  the fact which makes the missing reset in `setTimer` harmless. Counting slots
  uses the library's theorems on finite sets; schedules use that `Minus` undoes `Plus` on any
  clock as long as the lag stays below one turn.
* **IrReceiver**: `TypeCorrect` (so the interrupt's store is inside `rawbuf`), `SnapshotSafe` (`ReadsRecorded`),
  `FrameHeld` (`HeldFrame`), `Alternates` (`Alternating`). `IInv` adds that a frame is read only in STOP, which the interrupt does not leave; that
  a receiver which is idle outside `resume()` has no entries; and that the snapshot is covered from the moment
  it is taken, which holds because entries are only dropped on leaving IDLE. `AltInv` adds that a mark is timed after an odd
  number of entries and a space after an even one.
* **TwoWire**: `TypeCorrect`, `WritesKept` (`SentIsSaid`). `IInv` adds, for each queued transmission, that its bytes
  are still at its place below `txQueued`, and for the one under way that its bytes begin at `txQueued`.
  `ReadsAreBack` (`ReadBack`) is inductive beside it: the last read of a STOP begins where `rxBuffer` does, so it overwrites
  all that `read()` will give, whatever the reads before it left there.
* **I2cRefill**: `WholeQueueMoves` (`WholeQueue`), `MovesGoOn` (`MovesInOrder`, that the refilled lists implement `I2cBus`), for queues of
  any length, transfers of any length and a list of any size. The argument is about positions in `Stream(dq)`, what the queue means on the bus.
  A command is *in its place* (`Place`) at a position when it moves exactly what the stream has there; a list is *laid out* (`Laid`) from one
  position to another when its commands are in their places one after the other; and the flags of the entries *reach* a position (`Held`,
  `Reached`) when the entries before have sent their STOP, those after are untouched, and the one between says how far it is. One lemma per part of an iteration
  (`AddStart`, `AddAddress`, ... `AddEnd`) takes a list laid out to where the flags are to a longer one; the loop ends because each
  iteration that adds no END goes on to the next entry. `RefillInv` then says that the controller's position, `Len(wire)`, and
  that of the flags are the two ends of the list it still has, and each step of the controller takes off the head.
  `Stretch` puts an empty copy of the last byte command before it, so that the next START does not come just before END; that is
  what `ListFits` needs, and why a list is only `Useful` when one of its commands moves something.
* **I2cDriver**: `DriverTypes` (`TypeOK`), `DriverResults` (`ResultsTrue`), `DriverErrors` (`ErrorsTrue`), `DriverReads` (`ReadsLand`, the
  safety half of `ReadsComplete`), `DriverBits` (`SuccessShows`) and `DriverImplementsBus` (`DrivesBus`: each
  step of task, handler, daemon and controller is a step of `I2cBus` or leaves it alone), for queues of any length, transfers of any
  length, FIFOs of any size, lists of any size above 3 and any interleaving. They assume `Prompt`: the faults are those of the run `i2c_driver`, any
  or all of them (a missing acknowledgement, lost arbitration, an early end of the wait, a bus held between calls, event groups used before). Each of the three
  others breaks one of the promises, as `I2cDriverSlow.cfg`, `I2cDriverLateDaemon.cfg` and `I2cDriverRetry.cfg` show, so the theorems
  say exactly what the driver needs from its surroundings: a handler that counts a byte before the next one ends, a daemon that sets its bits before the
  next call, and a bus nobody seizes after `i2cProcQueue` found it free, so that the wait does not run out before the first byte.
  `DriverStarts` (`FirstTryStarts`) needs none of this: with all of the faults the list of a call's first try begins with START. `Untried` is all it keeps of the
  state: outside a wait the stage is DONE, so that the handler only ejects, and the queue of a call that no try has touched is as `i2cAddQueue` made it.
  The argument goes on from that of `I2cRefill`: everything the handler keeps has its place in the same stream. With the bus at position `p`, `Works` says of a
  transaction that runs that what the controller still has to do is laid out from `p` to where the flags are (`Lists`); that `queuePos` and `byteCnt` have
  counted the bytes up to `p`, but for one whose `TRAN_COMP` is pending (`Counts`); that the transmit FIFO holds the
  next bytes of the stream to be written, up to what `fillTxFifo` has loaded (`Fed`); that the receive FIFO holds what `p` has passed of the entry at
  `queuePos` and its buffer lacks, while the entries before are full and those after empty (`Stores`); that each pending interrupt is due
  (`END_DETECT` with the list at its end and nothing going, `TRANS_COMPLETE` at the end of the stream); and that no interrupt still needed is
  disabled (`Enabled`). Each part of the handler has a lemma on what it keeps (`EmptyKeeps`, `FillKeeps` and so on), each command of the
  controller one on what it moves, and a pass of the handler is put together from them (`Isr`'s order matters: `TRAN_COMP` is counted before
  `END_DETECT` refills). `DriverInv` puts the task around it: until the controller is done the driver `Works` at `Len(bus)`; once it is, its exit code
  says how it `Ends`, and that it ended (`Attended`); nothing of an earlier call is left where a new one looks (`Prepared`, `Cleared`); the wait is
  given up only when it ran out (`Waited`); and what is reported is what the exit code said (`Reported`).
* **WsFrames**: `ReadsFit` (`BuffersHold`) and `NeverDeaf`, for any limit on messages, any lengths and any number of frames. The inductive
  invariant adds to them that the bytes a read still asks for fit behind those already in the header (`HeaderRoom`), which
  holds because each call of `handleWebsocketCb()` asks for the whole header so far minus what is there, and that nothing
  of a header is held between reads unless the connection was lost in the middle of one (`Afresh`). Nothing of the stream being in step is needed: any bytes may be taken for a header.
  `StaysInStep` (`InStep`) is the harder half. `Framed` says of a connection in which no write has given up that the wire is the rest of the frame
  being read, by the state of the reader, and then whole frames, in their order; what the reader decodes of the
  length field by field is what the writer encoded (`div` and `%` by powers of 256, where `WsLengthsAssumption` is needed).
  That the wire is made of whole frames is the least set that is closed under writing one more (`Carried`), so that taking a frame off at one end and putting one on
  at the other need no induction on how many there are.
* **WsSystem**: `SlotsAreSound` (`SlotsSound`), `EndsAgree` (`BothAgree`), `BrowsersHaveNone` (`OnlyWebSockets`) and `ImplementsSessions`
  (`EventsAreSessions`, each step of server, clients and network is a step of `WsSessions` or leaves it alone), for any number of slots,
  connections and peers and any reactions of a sketch. The parts of `IInv` that carry it, beside types: a connection that is up at the server is in one place,
  the backlog, a `newClient()` on the stack, or one slot (`OnePlace`, `NoTwoPlaces`); at most one event is on the stack and it is on top (`OneEvent`);
  a client that has, or has coming, the answer that makes it CONNECTED holds the connection of a slot that is CONNECTED, until the server drops it (`Agreed`);
  nothing of a browser's connection looks like a WebSocket client's (`Vetted`); the sketch knows of the session a slot is in, or is about to
  be told (`Informed`); and the numbers of the text frames on their way to a slot go on from the last it has heard to the last that was said (`Numbered`).
* **Screen**: `CacheSafe` (`CacheTrue`), `LockSafe` (`LockMatches`, a part of `BusSound`), `BusStaysSound` (`BusSound`) and `PicturesDrawn` (`Drawn`). The first two are
  inductive as they stand: each step that moves the window either drops the cache or sends what it then remembers, and the flag changes only with the
  bus. They need nothing of the calls. `BusSound` needs all of them: the steps of a call are a *path* from what the flags say of the bus (`free`,
  `held` for one primitive, `kept` for a shape) to what they say at its end, on which nothing is sent where the bus is free. Paths join
  (`PathJoin`), so each function has a lemma that follows the lemmas of what it calls: a primitive is *calm* (`PrimitiveIs`), and so is any
  number of them (`DrawIs`); a shape takes the bus and gives it back (`ShapeIs`), a triangle of lines gives it back three times
  (`TriangleIs`); the early return of `fillTriangle()` keeps it (`FlatIs`); an enlarged character goes on without it (`BigCharacterIs`). `CallsRun` puts
  them together. That `drawLine()` and `fillTriangle()` are made of primitives for any corners (`LineIs`, `FillIs`: every pass of the loop keeps its state, and no
  row of a triangle that is not flat divides by 0) is what the clipping of their primitives rests on. `BusInv` then says that the rest of
  the call is such a path from the present flags, that `kept` at the end means `flat`, and that a call that still has to turn the screen has
  drawn nothing, so that no pixel is left outside a glass that has changed its shape; each step takes the head off the path.
  `PicturesDrawn` follows the controller in the same way. A *panel* is its registers with what the driver remembers of them, where that is true
  (`Panels`, what `CacheTrue` says); steps *lead* from a panel to a panel and write a set of pixels (`Leads`), and a function *paints* a
  picture if its steps write it whatever panel it finds (`Paints`). `CallPaints` puts together: pixels sent to a window take its cells row
  after row, on from where the last ones ended (`CellsAre`, `WindowTakes`, from division with a remainder); what is clipped shows what it showed
  (`ClippedIs`); `drawPixel()` hits its pixel whatever it leaves out (`DotTakes`, where the memory must be true); the parts of an image meet
  (`PartsMeet`); the blocks of a JPEG, cut at the margins, cover the wanted part and no more (`SideCovered`, `GridIs`). `PictureInv` says that what
  has been drawn on the canvas and what the rest of the call will write there are, on the glass, the picture of the call; as the canvas is the glass
  but for rotation 5 (`CanvasIsGlass`), nothing else is drawn in the others. The theorem assumes `Fitting` of every call: an enlarged
  character, an image, a `pushRect()` and a JPEG begin neither left of the screen nor above it (the coordinates of `pushRect()` and
  `drawJpgFile()` are unsigned; the dots of an enlarged character and the window of an image are not clipped there), all but the JPEG end within the 16 bits of a register, the dots of a character are in its box, and the parts of an image are as many pixels as it has. The
  calls of the run satisfy it. Everything else is drawn right wherever it lies.
* **Console**: `TypeCorrect`, `Debounces` (`DebouncedApart`, `HeldFor`), `TonesOnTime` (`TonePlays`, `ToneStops`). `IInv`
  adds `NotAhead` (the time a button believes to have passed is at most the real one) and `InStep` (a deadline
  that has not wrapped is as far away as the tone has to go).

Data of any size is reasoned about without the library's induction theorems, which take an operator as a parameter: a set of numbers that is not empty has a least
one (`LeastNumber`, from the well-foundedness of `<`), and a set that holds 0 and is closed under adding one below a bound holds all
numbers up to it (`Induct`).

Only model-checked: everything about liveness (`FiniteTimersEnd`, `ListensAgain`, `Completes`, `Drains`, `SlotsComeBack`,
`BusComesBack`) since fairness and ENABLED are beyond the prover; the removal
property of SimpleTimer, which depends on what callbacks do; what the faults outside `Prompt` do to `I2cDriver` (they break its promises, see the
next section); and `Algorithms`, whose references are searches and folds over the bounded inputs themselves.

## Where the code and its comments disagree

Each is shown by a configuration that is kept beside those of the runs; `tlc -config X.cfg M` reports the violation, with the trace (with `-continue`
both, where a configuration names two properties).

| Configuration | Property | What the trace shows |
|---|---|---|
| `SimpleTimerReuse.cfg` | `RemovedAfterNCalls` | `SimpleTimer.h:58` "call function f once after d milliseconds": a callback on its last run deletes its own timer and sets a new one, which gets the same slot; `run()` then deletes the new timer, uncalled (`SimpleTimer.cpp:105`) |
| `I2cRefillTenBit.cfg` | `TenBitFormat` | `esp32-hal-i2c.c:892` "convert address field to required I2C format": line 899 joins the two halves of a ten bit address by `\|\|`, which makes it 1 |
| `I2cDriverRetry.cfg`, the run `i2c_retry` | `BeginsWithStart` | `esp32-hal-i2c.c:118`: startCmdSent is "START cmd has been added to command[]"; when the wait ran out before the first byte, the retry after BUSY (line 1311) finds its entries marked as sent and gives the controller a list without START. A retry after a bus that was busy before the start is in order (`FirstTryStarts`): `i2cProcQueue` has not touched the queue then |
| `TwoWireShare.cfg` | `ReadsShareBuffer` | `Wire.cpp:178` "try to share rxBuffer": line 193 resets `rxQueued` after every request, so queued reads get the same part of it |
| `IrReceiverRace.cfg` | `AlwaysAlternating` | an interrupt between the two stores of `resume()`: an entry is recorded and dropped, and the frame's marks and spaces are shifted by one |
| `IrReceiverGap.cfg` | `FirstEntryIsSpace` | while `rawlen` is at its limit STOP never resets the gap timer, so the next frame starts in the middle of a transmission |
| `IrReceiverOverflow.cfg` | `OverflowReported` | the overflow flag is copied before the state is tested, and the interrupt sets it in between |
| `I2cDriverLateDaemon.cfg` | `TimeoutMeansWaited` | bits the daemon sets late wake the next call, which takes itself for timed out |
| `I2cDriverOldGroup.cfg` | `FreshBits` | `esp32-hal-i2c.c:753` "all of them": `EVENT_MASK` is 0x3F and leaves the bits 6 to 9 of a group used again; a success then still says TIMEOUT beside DONE |
| `I2cDriverSlow.cfg` | `OkMeansComplete` | two bytes end before the handler counts one; a read is OK without its data |
| `WsSystemFlood.cfg` | `DoesNotFlood` | `WebSocketsClient.cpp:127` "do not flood the server": a TCP connection that succeeds resets `_lastConnectionFail` (line 161); if the server has no slot or answers no handshake, the client is back in its next `loop()`, for ever |
| `MCScreenProtected.cfg` | `Protected` | `Display.cpp:25-27` "protect from interference from other libraries": `fillRect()` ends the transaction of the enlarged RLE character that calls it (line 2094), and the character goes on without |
| `AlgorithmsStale.cfg` | `OnlyWhatWasReceived` | `ir_LG.cpp:27` "Check we have the right amount of data": it is not the right amount (`ir_LG.cpp:28`), and a frame that was cut short is decoded with widths of the one before |
| `AlgorithmsForms.cfg` | `FieldsUnharmed` | what was typed into a form is unescaped once more than the browser escaped it (`Parsing.cpp:189`, 324): an ampersand begins another field |
| `AlgorithmsForms.cfg` | `WholeFilesArrive` | a file that ends in CR LF "--" takes the beginning of its own delimiter for the boundary, and the upload never ends |
| `MCScreenTurned.cfg` | `SizesAgree` | `Display.h:600` "Display w/h as modified by current rotation": rotation 5 is sent without the bit MV, as an upright one, and has the width and height of a lying one (`Display.cpp:374-378`). What the driver takes for the screen then ends beyond the glass on the right and before it below: pictures are lost there, and what is not clipped by the driver, as a character, goes on below |

`InStepAlways` of `WsFrames` fails in the same way when it is put in place of `InStep`: a `write()` that times out in the middle of a frame leaves the
connection open, and the next frame begins where the payload of that one was expected (`WebSockets.cpp:628`).

`i2c_driver` therefore assumes a daemon that has run before the next transaction starts, a handler that is
faster than a byte, and a bus that nobody seizes in the middle of a transaction.

In `screen` two calls are excepted by name: the early return of `fillTriangle()` (line 878) leaves its
transaction open until a later call ends one (`flat`), and the character above (`OnlyInTransaction`). `Drawn` speaks of the canvas in every rotation, and of the
whole glass in every rotation but 5.

Behaviour the models have and no text of the repository promises anything about, so no property is stated:
a deadline of the speaker that lies beyond a wrap silences the tone at once, or holds it for a turn of the clock;
an untimed `tone()` is muted at the deadline of an earlier timed one (`Speaker.cpp:20`);
`readAxis()` sets the axis before and the state after the debounce window, so the two disagree (`Button.cpp:92`);
an axis at rest starts as pressed (`Button.cpp:38`);
`requestFrom` without STOP during or before a transmission makes the next one overwrite queued bytes (`Wire.cpp:194`);
a failed request leaves `available()` at its size (`Wire.cpp:192`); `endTransmission` after a queued `requestFrom`
makes its bytes unreadable (`Wire.cpp:157`); `disable()` from a callback does not cancel a call already marked
(`SimpleTimer.cpp:100`); a transfer that ends between the test of `exitCode` and the shutdown is reported
as TIMEOUT (`esp32-hal-i2c.c:1026`).

The same of the parts modelled later. *WebSockets*: a sketch may get DISCONNECTED for a client it was never told of, since every release of a
slot raises it (`WebSocketsServer.cpp:556`), and so may the client's after a connection that failed (`WebSocketsClient.cpp:163`); a connection
that dies without a word holds its slot for ever, there being no keepalive; the object of a connection that found no slot
is stopped and never deleted (`WebSocketsServer.cpp:625`). *Remotes*: AIWA frames begin as NEC's do and are always claimed by that decoder;
SHARP and LEGO frames end as UNKNOWN with a hash, some of SHARP's as Denon's when the detector lengthens marks by 100 us; DISH is cut by its own header space of 6.1 ms; Sony and Sanyo compare a gap in ticks with a
constant of microseconds (`ir_Sony.cpp:57`); LG "Check we have the right amount of data" asks for 57 entries of 60
(`ir_LG.cpp:28`), JVC for 33 of 36 (`ir_JVC.cpp`), and Panasonic for none of its 99: `StaleWidthsUnused` says that these take the bits a frame lacks
from an earlier one, and only those. NEC asks for all it reads, but its frames, cut, satisfy LG's and JVC's header. *Forms*: an encoded form is unescaped
twice (`Parsing.cpp:189`, 324), so an escaped percent or plus sign or ampersand changes it (`FieldsArrive`); a file with CR LF "--" and fewer bytes after it than
the boundary has swallows its own delimiter, and `_uploadReadByte` then waits for as long as the peer keeps the connection (`Parsing.cpp:359`); a pause longer
than the timeout of `readBytes()` just there puts bytes nobody sent into the file; and `endBuf` is compared as a text without an end (`FilesArrive`). *QR*: a text that does not fit its version is not refused (`qrcode.c:774`). *Display*: `fillRect` compares with `>` where the lines have `>=`
(1736-1741), so one pixel may be sent past the edge, where the controller drops it (in rotation 5, below, it is to be seen); `init()` sets `locked` again without giving the bus back.

## Not modelled

* Fonts, bitmaps, images and music: data. They are more than half of the lines of the repository (`HZK16.h` alone has 16737, `bmp_map.c`
  9605, the FreeFonts some 20000), have no behaviour, and keep the share of lines the models stand for small whatever else is modelled.
* Examples: sketches that use the library; the modules let a sketch make any call at any time.
* base64, SHA-1, the sensor drivers (BME280, SGP30, ...): vendored; straight sequences of register
  transfers, and formulas in floating point.
* Display: the public parts of calls that open no transaction of their own and know nothing of the others (`setAddrWindow`, `writePixel(s)`, `writecommand`, `writedata`,
  `Display.h:529-533` and 574-582): a sketch that uses them is its own driver; colours and dithering, reading pixels back, the layout of text, the other ways to draw a character, `qrcode()` (2954-2974,
  whose coordinates are cut to eight bits).
* HTTP: `handleClient`'s automaton (next in the plan), the request line, headers, responses, the choice of a handler, digest
  authentication.
* WebSockets: TLS, socket.io, authorization; `sendBIN` and `sendPing`, which differ from `sendTXT` in one constant.
* I2C: pin and clock set-up, memory failure, a second task on the same bus (`i2cAddQueue` takes no lock).
* Console: `playMusic` and `Speaker::write` (busy loops over samples), `begin()`.
* Infrared: the wrap of the 32 bit tick counter after 59 hours (`TimerCap` saturates it); Pronto codes.
* The keypad controller (one register transaction per call, no state of its own) and GPIO interrupts (whether an interrupt of
  the old kind can still come after its handler was replaced is the hardware's to say).

## Plan

Done, in this order: `SimpleTimer` and its proofs; `IrReceiver` and its proofs; `I2cCommands`, `I2cBus`,
`I2cRefill`, `I2cDriver`; `TwoWire` over it and its proofs; `Console` and its proofs; `WsFrames`; `TcpLinks`, `WsServer`,
`WsClient`, `WsSessions`, `WsSystem`; `Shapes`, `Screen` and its proofs; `QrCode`, `QrSymbol`, `IrProtocols`,
`HttpParsing`, `Calendar`, `Algorithms`.

Next:

1. `WebServer`: `handleClient`'s automaton with its timeouts, over `TcpLinks`.
2. Proofs: `RemovedUnlessReplaced`.
3. `GpioInterrupts`; `Tca8418` over `TwoWire`'s failures.
