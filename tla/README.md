# Verification of the forward-propagation accelerator

The repository is a digit classifier on an FPGA board. A MicroBlaze runs an lwIP
program (`echo.c`, `main.c`) that receives images and weights as text over TCP
and pushes them, number by number, through twelve AXI4-Lite registers into the
peripheral `axi_noweights`. The peripheral (`second_top.sv`) stores them in four
memories and runs a network of four layers (`topLevel.sv`) that share one
design of floating-point unit (`FPUnit.sv`).

The modules here are translated from that code. Paths below are short for
`src/axi_noweights/axi_noweights_1.0/{hdl,src}` (the hardware) and
`src/NN_Forward_Prop/warmup_client.sdk/NN2/src` (the software).

## 1. Inventory

| component | state | operations | interacts through | hard behaviour | correct when |
|---|---|---|---|---|---|
| user registers (`axi_noweights_v1_0_S00_AXI.v`) | 9 writable registers, 3 read-only copies, five AXI channels | write, read, reset | sampled by `second_top`, written by the processor | status is one edge old; a read may be accepted while an answer waits | a write reaches its register once, a read gets a value that was there |
| `second_top.sv` | `state` (7 states), `ready`, `done`, `final`, `clean_resetn`, four memories | write one word, calculate, clean up | registers, `topLevel` | every output is a register behind the state; a write state stores at every edge it lasts; reset in the middle of a store | acknowledged words stay; the memories stand still during a calculation |
| `topLevel.sv`: conv_1, conv_2, meanMod, linLay, argmax | per layer a control machine, loop indices, accumulators, output registers | start, multiply/add/store loop, hand-off, clean-up | start/hand-off wires, live data wires | hand-shake chain, restart of conv_1 while `start_cal_in` is up, inputs read live | the answer is the network's for the memories |
| `FPUnit.sv` | control machine (rising edge), datapath (falling edge) | add, multiply | `start`, `done`, operands of a layer | state left over from one operation or from a reset; normalisation loop; widths | the rounded sum or product |
| `echo.c` driver | program place, loop indices | boot load, five kinds of message, calculation | polls and writes of the registers; TCP | stale ready and done; polls without time-out; resets; parsing of a message cut by TCP | an answer belongs to the numbers acknowledged before it |
| `echo.c` and TCP | position in the stream, receive window, connections | delivery, accept, close | lwIP | a stream cut or joined anywhere, chained pbufs, two clients on one network | a number reaches only its own place; whole messages are stored as sent |
| `main.c`, `platform*.c`: boot, main loop, timers, DHCP | two timer flags, five counters, the address in `echo_netif` | set up, tick, serve, time out | interrupt and main program, without a lock | flag set while it is being cleared; DHCP ending between a test and a store; order of enabling | no tick before the interface is up; timers served; an address in the loop |
| `i2c_access.c`, `si5324.c`, `sfp.c`, `iic_phyreset.c` (other boards) | two completion flags, an error count, a transfer, the pointer the interrupt holds | write, read, poll | I2C controller and its interrupt | stale flag, error that sticks, a structure on a stack that is gone, a poll without bound | no transfer over another; success only after every register |
| bus test bench, self test, superseded copy of the IP | - | - | - | made by the IP wizard, or not used | - |

`PROJECT.json` lists under "hazards" every place where this code is hard to
test, with the property that watches it or the reason there is none.

## 2. Modules

```
PredictionService        what the host is promised (abstract)
      ^ refinement
NNAccel  <-- NNSystem  <-- NNSystemInv <-- NNSystemProof
peripheral   + echo.c      inductive        theorems
                           invariant
                                ^ MC_NNSystem (TLC)

FPUnit     <-- FPUnitProof       floating-point unit and a layer's use of it
   ^ MC_FPUnit (TLC)
ConvLayer  <-- ConvLayerProof    conv_1 and conv_2
   ^ MC_ConvLayer (TLC)

Engine                   what second_top relies on of the layers (abstract)
   ^ refinement
Network    <-- NetworkProof      the four layers in a row, and the argmax
   ^ MC_Network (TLC)

RegisterBus              what the driver relies on of the registers (abstract)
   ^ refinement
AxiSlave   <-- AxiSlaveProof     the AXI4-Lite slave, edge by edge
   ^ MC_AxiSlave (TLC)

TcpSession <-- TcpSessionProof   recv_callback on a byte stream
   ^ MC_TcpSession (TLC)

I2cSetup   <-- MainLoop  <-- MainLoopProof
set-up of      main(), timer interrupt, DHCP (checked by TLC itself)
the boards

NumberLemmas             numbers and powers of two, for the proofs of FPUnit,
                         ConvLayer and Network
```

The modules meet at the assumptions each makes of the others: `Network` takes
from `NNAccel` when the start and the reset may move (`Engine!Environment`, the
behaviour that `CalcStartsClean` and `MemoryStableWhileRunning` check) and
gives it the engine; `AxiSlave` gives `NNSystem` its one-commit accesses;
`TcpSession` takes a load as one step, which is what `NNSystem` shows the
accesses of a load to amount to; `MainLoop` calls the driver as one step.

### NNAccel and NNSystem

One step is one rising edge of the AXI clock, at which at most one bus access
of the driver commits. `NNAccel` gives what the peripheral does at an edge by
itself (`IPEdge`): the read-only registers sample `second_top`
(`SampleStatus`), the output block acts on the old state (`DriveOutputs`,
`StoreWord`), the state block moves (`StepState`), the layers move
(`StepEngine`), and the system reset may change. `NNSystem` adds the processor:
`pc` names the register access that `echo.c` makes next, and there is an action
for each.

| action | code |
|---|---|
| `WriteData`, `WriteRow`, `WriteCol` | REG0, REG1, REG2 in the body of the load loops |
| `PollReady`, `PollDone` | the `while` loops on REG11 and REG10; a poll that reads 0 is `Wait` |
| `WenHigh`, `WenLow` (with `NextNumber`, `NextBootJob`, `MessageLoaded`) | the enable registers, and the loop that goes on after them |
| `StartHigh`, `ReadAns`, `StartLow` | REG9, REG8, REG9 and the echo of the Start_Calc branch |
| `ReceiveImage`, `ReceiveWeights`, `ReceiveCalc`, `ReceiveOther` | the branches of `recv_callback`; `ReceiveImage` starts at the row of its digit (`StripStarts`) or at whatever an uninitialised `row_start` holds (`UninitStarts`) |
| `Reset` | an edge under reset: registers cleared, program at its start |

Abstractions, and why they are sound for the properties:

* *Bus.* The five channels of an access are one commit. The processor has one
  access outstanding and the code between accesses takes any number of edges
  (`Wait`), so every spacing of commits the real bus can make, down to
  adjacent edges, is among the behaviours.
* *Blocking assignments.* `second_top.sv` assigns `state` with `=` in one block
  and reads it in another on the same edge. The synthesised registers read
  the old value; that is what the model does.
* *Layers.* In `NNAccel` the four layers are one engine: idle, running, handed
  off. It starts on `start_cal_in`, takes any number of edges, hands off once
  and is cleared by `resetn`. The answer is `Predict(mem)`, evaluated at the
  hand-off; that the memories do not move while it runs is checked
  (`MemoryStableWhileRunning`) and proved, so the moment of evaluation does
  not matter.
* *Data.* A word is a member of `Data`; the conversion of text to IEEE words is
  not modelled. The row and column registers have 32 bits and are read as the
  ints the driver wrote.
* *Rows outside the image.* When the digit of `Image_h` is missing `row_start`
  (`echo.c:185`) is uninitialised, and the loop sends seven rows from any int
  on. The driver gets its done for each of them; a row that the image has is
  stored, and a row before or behind it is not, since in Verilog a write to an
  array outside its bounds has no effect (`Slot`, `StoreWord`). Hence `sent` and
  `dirty` speak of the numbers of the memories (`Cells`) only. (Hardware built
  with fewer index bits than the register would fold such rows into the image;
  the source does not ask for that, and it is not modelled.) Next to the
  greatest int `row_start+7` overflows; the loop then either ends at once, which
  is `ReceiveOther` to the host, or goes through rows outside the image.
* *History.* `sent` and `dirty` record what the driver was told is stored and
  what was begun and not acknowledged; `dirty` is not cleared by a reset, as
  the memories are not.

### FPUnit

Steps alternate between `RisingEdge` (control machine of the unit, control of
the layer) and `FallingEdge` (datapath of the unit, the layer taking the
result over). Widths are the parameters `MB` and `EB` (23 and 8 in the code).
`residue` is a history variable: a normalisation flag that was up when the
reset came acted after the reset.

### ConvLayer

conv_1 and conv_2 are one machine with other sizes, so one module has the sizes
as constants. An action is a working state of the control machine with what the
datapath does on the falling edge after it; pass-through states are merged into
the action before them (the comment of each action names them). Waiting for
`startFlag`, for a unit's done or for `readyNext` is stuttering. The reset may
come in any cycle; since the layers around it are reset by the same signal,
nobody sees the layer between the reset's edge and the next one, and one action
stands for the whole reset. Three links carry the result over to the system:

* a floating-point unit answers every start with the right value
  (`FPUnit`: `Answered`, `InStep`, `ResultRight`, with the exceptions there);
* the picture and the weights stand still (`NNSystem`: `MemoryStableWhileRunning`);
* the output stands still after the hand-off (`OutputHolds`), so conv_2 may read
  it live although conv_1 starts over while `start_cal_in` is up.

Arithmetic is symbolic in the run: a product is the pair of its factors and a
sum the sequence of its terms, so a wrong index, a lost or repeated tap or
another order is another result. `summed` and `given` are history variables.

### Network and Engine

One step is one cycle of the clock. The layers share one control machine
(`NextState`, `Control`), in which the states of one floating-point operation
are the state `WORK`; `moves` is the set of layers whose operation ends in this
cycle, any set, so nothing depends on how fast one layer is beside another. A
pass has `Length` operations: 16 outputs of conv_1, 16 taps of conv_2, four
sums and a division, and the classes. `FirstLayer` to `LinearLayer` are the
datapaths. Every layer reads the output registers of the layer before it live,
as the code does, while that layer may have started over because `start_cal_in`
stays up. `CalcOut` is the loop of `topLevel.sv:88`, clocked by the rising
hand-off; `Turns` gives `max_num` behind each of its turns. Two things the code does and nobody sees: meanMod's clean-up leaves
its sum, so its second pass is wrong, but linLay never leaves ENDWAIT and never
takes it; and linLay's state ENDWAIT2 has no way into it.

`Engine` is what `second_top` relies on: idle, run, hand off once with a best
class of the picture, stand still until cleared. It is the `StepEngine` of
`NNAccel` for pictures one after the other. `Environment` is shared: the start
rises on cleared layers (also at the edge at which a system reset comes, which
clears them again), falls under their reset, at the latest at the edge at which
that ends, and the memories stand still in between.

What conv_1 computes is the operator `Conv1` (`ConvLayer`, with its rectifier); conv_2
rectifies its sums here (`Rectified`, `outAssignerC2`). In the run `Rectified`
makes a negative number zero, and the taps of conv_2 have negative weights, so
that sums of both signs are met; in the theorems it is any operator.

### AxiSlave and RegisterBus

One step is one edge; there is one operator per `always` block of
`axi_noweights_v1_0_S00_AXI.v`. The master is any master that keeps to the
protocol: it raises address and data of a write in any order, asks for the next
write before it takes the response to the last, and reads at the same time. It
has one read outstanding. That is a limit of the slave and not of the model:
`axi_arready` does not look at `axi_rvalid`, so a second address accepted while
an answer waits would never be answered. The MicroBlaze never does this. All
write strobes are set, as the driver writes whole words. `RegisterBus` is a
register file in which a write happens once between its request and its
response and a read returns a value the register had while it waited.

### TcpSession

A stream of units (a header or a number) that TCP cuts between or inside units.
The streams (`Units`) are constants: any sequence of whole messages
(`SessionAssumption`), so a run takes one choice and the theorems all of them.
A delivery is a chain of pbufs of which `recv_callback` reads the first one.
`Token` is what `strtok` makes of it, by the units that begin one (`Starts`: a
header has no comma before it, so it sticks to the number before), `Names` what `strstr` finds in a token, `Jobs`
the branch taken, `Load` the loop that follows, `LastToken` the token in which
`Start_Calc` is looked for. A missing token is `strtok`'s NULL, and what
`atof` makes of it is "garbage"; a cut number is a "piece". When the digit of
`Image_h` is cut off, `row_start` is uninitialised: any strip, or rows outside
the image; when the cut is before `_h`, `strstr` finds no header at all, nothing
is loaded, and the code goes on to look for `Start_Calc`. (Rows across two
strips make no difference: such a header ends the payload, and nothing but
garbage is stored.)
Each client connects once; that `tcp_write` and `tcp_close` may fail is left
out, since the code does not look at their results. `intact` and `sent` are
history variables.

### I2cSetup and MainLoop

`board` is chosen at the start and stays: what is compiled differs between the
boards and the module has them all. `I2cSetup` runs the programs `main()` calls
first: each is a sequence of operations (`SiOps`, `SfpOps`, `PhyOps`) that
differ in what the caller does with a failure, and each operation is one or two
transfers with two waits, on a flag set by the interrupt (`WaitComplete`) and on
the bus (`SendIdle`, `RecvIdle`). The values written are left out, and so is the
zero-length buffer `MuxInit` puts its byte in (`si5324.c:140`). `frame` says
whether the structure the interrupt handler was given is still on the stack.

`MainLoop` goes on from there, one action per statement of `main()` that shares
state with the interrupt: the two tests of the DHCP wait and the three stores of
the default address are separate steps, and so are serving a timer flag and
clearing it. `timer_callback` is one step, as it cannot be interrupted; the
function of lwIP in it that matters to `main()` is `dhcp_fine_tmr`, which may
bind the address (`FineTimer`). On the Zynq boards the receive path may go dead
(`RxHangs`) until the counter of `timer_callback` resets it. `fastOwed`,
`slowOwed` and `rxStuck` are history variables.

## 3. Runs

| run | question | bounds |
|---|---|---|
| `system_safety` | stores, calculations and answers with resets at any edge; implements `PredictionService`; every poll ends once resets are over | image 2x1, one strip of two rows, image loads from an uninitialised row -1, 1 or 2 as well; other memories 1 word, bits as words |
| `system_square` | *violated*: a weight goes to the row and column that the comments name | conv1 2x2, lin 2, image 2x1 |
| `fpu_result` | sums and products of all pairs of words, any operation before | `MB` = 2, `EB` = 3, all 64 words |
| `fpu_reset` | hand-shake, left-over state, termination with resets at any edge | 9 words |
| `fpu_residue` | *violated*: results do not depend on when the unit was reset | 9 words |
| `fpu_carry` | *violated*: a result is the nearest number | 9 words |
| `conv_sum` | the hand-off is the convolution, every tap once, the output stays | the size of conv_1: 4x4 outputs, 7x7 weights, 28x28 picture |
| `network` | the layers in a row are the engine; each hand-off is taken once; calculations end | two pictures, 4 classes, the real lengths of the first three layers |
| `axi` | the slave is a register file and every access ends | two writable registers, one status register, words of one bit |
| `session` | numbers in their places, messages as sent, no calculation nobody asked for | two clients, five messages of up to two numbers, all cuts |
| `session_window` | *violated*: a delivery gives its whole window back | the same |
| `boot` | set-up, order of enabling, DHCP and its time-out, main loop | six boards, 2 registers in the table, DHCP 3 ticks, link 4, receive reset 5 |

Why the bounds are enough. The hand-shake of a number is the same for each
number, so two rows and four memories show the neighbours that matter: the next
row, the next memory, the next message, the boot and a restart. An uninitialised
row of -1, 1 or 2 makes a load run into the image, out of it, or past it. Two
columns would add the next number of a row, which the driver treats as it does
the next row, and a column register that still holds another memory's column;
`AcknowledgedStays` (section 5) covers both, at every size. `MCPredict` is the parity of all words, so one
wrong word anywhere changes the answer. In `FPUnit` two mantissa bits and three
exponent bits give every case of alignment (equal, shifted within the guard
bits, shifted beyond them), cancellation by none to all places, normalisation to
the left and to the right, rounding up and down, and all the exceptional
exponents. In `Network` the scores depend on the
mean modulo the classes and the scores of one picture are all negative, so a
value left out, taken twice or taken from another pass is another class, and
both signs are compared. In `TcpSession` two numbers give a first, a last, a
missing and a cut one, the two clients write the same place of the image, and
every division of their streams into deliveries and pbufs is taken. In
`MainLoop` the counters are small and different, so that each of them runs out
before, with and after the others; time-outs behave the same at 3 as at 24. The
theorems below remove the bounds for what they state.

`session` and `boot` do not check deadlock: clients stop when they have said
everything, and `main()` returns when the PHY reset or `xemac_add` fails.

Faults seeded into copies of the definitions (`X_Fault` before `X`) show that
each property notices a plausible bug; `PROJECT.json` pairs them under
"mutants".

### Fairness

`FairSpec` of `NNSystem` assumes three things. The clock runs
(`WF(ClockEdge)`: an edge at which neither the reset nor the host has to
move). The processor makes its next access (`WF(Access)`): it has one thread,
interrupts end, and the bus answers every access (`AxiSlave`: `AccessesEnd`).
The layers end a calculation they have begun (`WF(EngineFinishes)`), which
`Network` shows (`Finishes`) from less: the clock runs (`WF(Clock)`), and of
the layers at work one gets its answer sooner or later (`WF(Answered)`), which
is `Answered` of `FPUnit`. Nothing is assumed of the host: messages may stop for
ever. `FairSpec` of `FPUnit` assumes only that the clock runs; that of
`ConvLayer` that the clock runs and a unit answers, not that the neighbours
start the layer or take its result; that of `AxiSlave` that the clock runs and
the master takes responses and answers.

`FairSpec` of `MainLoop`: the processor goes on with `main()` and takes its timer
interrupts, the I2C controller ends its transfers, with a completion or an
error, and lets the bus go; and a PHY that is asked again and again shows its
link at last (`SF(RecvIdle(TRUE))`: strong, as the poll of `sfp.c:175` comes back
to that point and leaves it each time). Nothing is assumed of a DHCP server, of
the frames that come in, or of the success of any set-up. `BootEnds` names the two waits that
do not end by themselves: the set-up after an I2C error, and the wait for DHCP
when the timer could not be configured.

## 4. What the checks found

* **Reset in a normalisation** (`fpu_residue`). The reset of `FPUnit` clears
  the states and not the control flags. A `norm` flag left up counts one shift
  after the reset, and the next result has half its value.
* **Lost carry** (`fpu_carry`). `roundOm=Om[45:23]+Om[22]` drops its carry;
  a result just below a power of two comes out as half of it.
* **Window given back in part** (`session_window`). `tcp_recved(tpcb, p->len)`
  (`echo.c:76`) counts the first pbuf of a chain only.
* **Rows and columns of the weights** (`system_square`). The comments at
  `echo.c:104`, 135, 464 and 493 say "write num into i-th row, j-th col of the
  weight array"; the code writes `j` to the row register and `i` to the column
  register. `StoredAtItsRow` states the comment and is violated at the end of
  the boot load. Boot load and messages agree with each other, so the board is
  consistent; who prepares weights by the comment gets the transposed filter.

Seen while modelling, without a run of their own:

* A load whose `Image_h` lost its digit runs from an uninitialised row
  (`echo.c:185-204`), also outside the image, and is acknowledged number by number
  although some of it is stored nowhere. `AcknowledgedIsStored` and
  `OnlyAwaitedWordChanges` show that the rest of the image stays as it was.
* `echo.c:60` promises that packets sent to port 6001 are echoed. The server
  listens on port 7, and only Start_Calc is echoed.
* `platform_zynq.c:123-130` says that the receive path is reset every 100 ms; the
  counter runs to 400 in ticks of 250 ms. `LinkAndRxWatched` states the bound that
  holds: a dead path is reset before `RxLimit` ticks (100 s) are over.
* `main.c:217` announces the default address although DHCP may bind between
  the test and the stores; the parts of the address are then of two origins.
  `AddressSet` says so: one origin unless DHCP has ended.
* A tick that falls between serving a timer flag and clearing it is lost
  (`main.c:243`); `TimersServed` shows that the next one is not.
* After one I2C error every later transfer is given up at once and left on the
  bus (`i2c_access.c:255`), and the poll of `sfp.c:175` never ends; `BusQuiet` and
  `BootEnds` hold without an error.

`ResultRight` is therefore stated with both cases set apart, and holds for
everything else: within the range of ordinary numbers the two are the only ways
to a wrong result, at all widths (`ResultCorrect` in section 5). A result that
leaves that range wraps its exponent; no document says what should happen, and
no property claims anything.

## 5. Proofs

All theorems hold for every value of the constants that meets the named
assumptions: `DimAssumption` (sizes are positive), `DataAssumption` (zero is a
word), `PredictAssumption` (the network answers with an answer, and 0 is one),
`StripAssumption` (first rows are ints, inside the image or not, and a strip is
not empty), `NoAnswerAssumption`;
`WidthAssumption` and `OperandAssumption` for `FPUnit`; `SizeAssumption` for
`ConvLayer`; `SlaveAssumption` (the three kinds of address are apart, the
absent value is no word) for `AxiSlave`; `ClassAssumption` (sizes) and
`AffineAssumption` (a class's output is a word) for `Network`;
`SessionAssumption` (the streams are whole messages, Start_Calc carries no
numbers, the window is not empty) for `TcpSession`; `I2cAssumption` and
`MainAssumption` for the modules of their names.

**NNSystemProof.** No property of `NNSystem` is inductive by itself: that a
word is stored when `done` is read depends on what the three stages behind each
other (`state`, `done_out`, `s_done`) can hold at each place of the driver's
program. `IInv` says so:

* `BusInv`: the request registers are up exactly while the driver waits on
  them, and address and data stand from their write on;
* `LoadInv`: before the enable rises the machine is `Settled` (ready, its done
  down), which is why a done read later is not the done of the number before;
  from the enable on, done implies stored; ready and done are never up together;
* `IdleInv`: between jobs a ready that can be read is not left over;
* `CalcInv`: the same for `start_cal_in`, the engine and the answer;
* `ReleasedInv`: the write state left for one edge after its enable fell stores
  what is there already;
* `HistoryInv`: while booting, every half-written number is still to be written
  again (`StillToCome`, an order on memories and loop indices), and afterwards
  only the number in hand can be half written.

`Invariance` proves it step by step. `TypeCorrect` says that a loop runs up to
the end its message gives it, and that the loops over the weights stay inside
their memories; for a load of the image neither is claimed to lie in it.
`LoadInv` needs no bound either: a number outside the image is none of `Cells`
and its done promises nothing (`CellInside`, `CellPlace`). `TypeCorrect`, `AcknowledgedStays`,
`CalculationComplete` and `AnswerCorrect` follow from the invariant alone,
`MemoryStable`, `OnlyAwaited` and `StartsClean` from a step under the
invariant, and `Refinement` maps every step to one of `PredictionService`:
`PollDone` of a number to `Load` (to stuttering, if its row is outside the image), `PollReady` of a calculation to `Begin`,
`ReadAns` to `Infer`, `StartLow` to `Finish`, `Reset` to `Restart` and the rest
to stuttering.

**FPUnitProof.** `CInv` relates the place of the control machine, the flag and
the layer on both edges. It gives `HandshakeInStep` (a start is never lost, a
done never orphaned, resets included) and `CountsFromZero` (an operation begins
with no shift counted unless a cut normalisation went on), for all widths.
`RegisterInv` bounds the datapath: the aligned mantissas are below
2 * 2^MB * 2^MB and the smaller operand's never exceeds the greater one's
(`Alignment`), which keeps the difference from wrapping; the result register is
below 4 * 2^MB * 2^MB. One lemma per flag shows that its step keeps the bounds,
whatever the registers held before, and `TypeCorrect` follows: every register
fits its width and every result is a word, for all `MB` and `EB`.

`ResultCorrect` is the unit's main theorem: `ResultRight` for all widths. It is
carried by `ResultInv`, which adds to the two invariants above

* `PlaceInv`: while a layer waits, the flag that is up belongs to the state
  behind it (`Raised`) and the machine is on the way its operation began
  (`Begun`), also if a reset came before;
* `DataInv`: what the registers hold at each place: the operands in order of
  magnitude and the smaller one cut (`Aligned`), the product and the sum of the
  exponents (`Multiplied`), a number that becomes the expected one (`Shifting`),
  the right result (`RightResult`).

`Shifting` is what makes the loop of `NORM` provable. It does not speak of the
shifts made, which differ with the operands, but of those that remain: for
every exponent e at which the exact result fits, the result register is one
shift to the right or n to the left of a mantissa m that `Holds` the exact
result at e, and the exponents differ by as many, modulo their width. For a
product or a sum of equal signs m is the exact result cut downwards, at most
one bit being lost to the right shift (`CutInPlace`). For a difference m is cut
upwards, since the operand that is subtracted was cut; if bits were cut the
operands were at least two places apart, hence at most one left shift follows,
and then m is even (`DifferenceInPlace`). `RoundsNear` bounds what rounding
does to m: half a unit in the last place, and upwards so little for an even m
that the bits that were cut keep the total below one unit. The result range of `FitsAt` is used twice, for
the exponents not to wrap and for the carry of the rounding not to be needed.
The other numbers of the argument are powers of two, compared in a common unit
(`Cancels`, `PowerRatio` of `NumberLemmas`).

**ConvLayerProof.** `CInv` says that the taps in the total are those before
the indices at hand, in the order in which they are visited, and with the tap
at hand once it was added. The lemmas on pairs of indices (`NextInRange`,
`BeforeNext`, `BeforeLast`) carry it through the two loops. `TypeCorrect` and
`TapsOnce` hold for all sizes (`SizeAssumption`: positive), so also for conv_2.
`SumInv` adds the values: `TotalInv` says which of the reference totals the
register holds in each state, and `OutInv` that every output the layer has
assigned since the hand-off before, or since the reset, is the rectified sum.
The reference sum is a recursive function, which the provers see as a choice:
`AddsExist` shows that there is one for any number of taps, and `TotalsGrow`
that each total is the one before with one tap more. `ConvolutionHandedOff` and
`OutputStays` follow; in the second, a pass over the same picture assigns each
output the value it has.

**AxiSlaveProof.** `Handshake` is inductive as it stands: it ties the two ready
signals together, says that `aw_en` is down exactly while a write or a response
is under way, and that an accepted address is the latched one.
`SlaveImplementsBus` takes an edge apart into what happens on the write side
(done, or nothing; response taken or not) and on the read side, and each pair is
one step of `RegisterBus`.

**NetworkProof.** `IInv` says of each pair of neighbours in which states the
hand-off can be up and which states of the later layer can take it. It gives
`HandsTakenOnce` and the range of every index for all pictures and classes.
`BetterIsGreater` proves the five-way comparison of `topLevel.sv:92-111`: it never
prefers a smaller number, and prefers a greater one always.
`RowIsEngine` is the refinement of `Engine`, for any picture, any number of
classes and any speed of the units. It needs what the registers hold
(`DataInv`). A layer that has handed off may be in its second pass while the
next one reads it live: so `FirstInv` and `SecondInv` speak of every output as
soon as a layer behind has begun, and of those before the index otherwise;
`MeanInv` follows the sum of meanMod up to the point where linLay has copied it,
and leaves the second sum, which is wrong, alone; `PassInv` says that a layer
is in its clean-up only while the next is at work or done. `LoopFindsBest`
goes through the turns of the argmax loop by induction, which gives
`AnswerIsBest`; the steps then map to the engine's start, hand-off, clear or to
stuttering. Reading the mean live in linLay instead of the copy makes the proof
fail, as it should.

**TcpSessionProof.** For any streams of whole messages, any number of clients
and any cuts. `TypeCorrect` and `NumbersInPlace` are inductive: `JobFromHeader`
and `LoadedInPlace` show that a payload that begins with a header stores a
number only where its own header and its distance from it say
(`CountBehindHeader`, `TokenBehindHeader`: token i of such a payload is number
i of its message, as long as the message lasts). `MessagesAsSent` rests on
`HandleMessage`: a payload between two cuts that enclose one message stores
that message's numbers, all of them, and nothing else. In `AnswersAsked` a
calculation starts only on a payload that holds a whole `Start_Calc` header
(`HandleAsked`), and a payload lies behind all that was delivered before, so no
header counts twice.

**MainLoopProof.** `MainInv` has three parts. `WaitInv`: while no error was
counted, the flag a wait is on tells whether the transfer is still on the bus,
and no program that has returned left one. `OrderInv`: before `xemac_add` has
returned, timer and exceptions are not both on; the boards that start their
timer in `init_platform` have no set-up over I2C, the others start it after
`xemac_add`. `AddrInv`: what the three parts of the address hold at each place of
`main()` while DHCP has not ended; the test at `dhcpCheck` can only fail with no
address when the counter has run out. `SiInv` counts the acknowledged
registers of the clock chip against the place of its program and says that the
program cannot pass an operation once an error was counted: success is returned
only behind the last register (`ClockProgrammed`). `RangeInv` bounds the
counters and ties the switches to the places of `main()`; with the others it
gives `TypeCorrect`, and with it a bound on a dead receive path
(`RxResetInTime`: `RxLimit` ticks), the safety part of `LinkAndRxWatched`. For
all boards, tables, time-outs and intervals.

**NumberLemmas.** Induction over the numbers is done on sets: a set of numbers
has a least member (`LeastNumber`), so a set with 0 that is closed under +1 has
all (`AllNumbers`). Powers of two are counted: 2^n is the number of subsets of
a set of n (`FS_SUBSET` of the library), and adding one element doubles them
(`PowerNext`); `PowerSum` and `PowerGrows` follow, and with them the comparison
of products with powers (`Cancels`, `PowerRatio`) and the remainders
(`RemainderIs`, `Congruent`). (The library's own proof of
`FS_SUBSET` takes 2^(n+1) = 2^n + 2^n from the arithmetic it leaves to a
solver.)

**Model-checked only.** The liveness properties (`AlwaysReturns`, `Answered`,
`HandsOff`, `Finishes`, `AccessesEnd`, `BootEnds`, `TimersServed`,
`LinkAndRxWatched`), which need fairness and so are out of the prover's reach.
The four properties of the runs that expect a violation are refuted by TLC.

## 6. Not modelled, and what could come next

Left out for good:

* the seven-segment decoder and the debug ports of `second_top` and `FPUnit`
  (outputs only);
* the conversion of text to a float (`strtok` and `atof` are library functions;
  what matters of them is in `TcpSession`) and the inside of lwIP and of the
  Xilinx drivers, modelled from how they are used;
* `editingString[p->len] = 0` (`echo.c:83`), which writes one byte behind the
  payload: no state of the model is there;
* the IP wizard's test bench and self test, whose accesses are among those of
  the master in `AxiSlave`;
* the superseded copy of the IP under `warmup_client.srcs`, and
  `cleanup_platform`, which is never reached.

Next:

1. conv_1 and conv_2 of `Network` taken from `ConvLayer` step by step instead of
   output by output.
2. `tcp_write` without memory for the echo, and clients that connect again.
