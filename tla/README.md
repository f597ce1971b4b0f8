# Wacky Racers: a TLA+ model of the hat, the racer and the radio between them

The repository holds the firmware of two boards. The *hat* turns the tilt of an
IMU or a joystick into motor commands and sends them by radio; the *racer*
obeys them, stops when its bumper is hit, reports the bump to the hat, and stops
when commands cease. Both use the nRF24 driver of `src/src/mmculib`. This
directory models that system and the parts of its two libraries that keep state
of their own between calls (pacer, ring buffer with serial driver, flash heap),
checks them with TLC and proves what matters most with TLAPS.

Paths below are relative to `src/src` unless they begin with `doc`.

## Inventory

| Component | State | Operations | Hard parts |
| --- | --- | --- | --- |
| nRF24 driver, `mmculib/rf/nrf24.c` | address in RAM, `listening`; in the chip: CE, PRIM_RX, two addresses, two FIFOs, three latched status bits | `begin`, `set_address`, `listen`, `write`, `is_data_ready`, `read` | the chip acts between two SPI transfers; flushes; a timeout shorter than the chip's retries |
| Racer loop, `apps/racer/main.c` | bumper state machine with two counters, motor timeout, key, servo position, four motor registers | one 50 Hz loop: pace, address switches, bumper, receive, obey, timeout | packets and bumps in any order; four separate register writes; time-outs racing packets |
| Hat tasks, `apps/hat/main.c`, `control.c`, `sound.c` | key, task flags, control source, two remembered buttons, clocks of SPI and TWI | `generate_key_task`, `imu_control_task`, `joystick_control_task`, `change_control_method_task`, `check_bumber_task`, `check_sleep_mode_task` | a task that blocks blocks all; lost key packets; sleep and wake-up |
| Hat kernel, `apps/hat/kernel.c`, `mat91lib/sam4s/pit/pit.c` | task table, millisecond counter | scan, `enable_task`, `disable_task`, tick | fixed priority without preemption; two clock reads; wrap-around |
| Key generator, `gen_key` in `control.c` | a 16-bit register | one shift-register step | 0 is the racer's initial key; repetition |
| Command arithmetic, `control.c` | none | response curves, mixing, reversal | unsigned and fixed-point arithmetic |
| Pacer, `mmculib/pacer/pacer.c` | time of the next tick | `pacer_init`, `pacer_wait` | catches up after late iterations; the counter wraps around |
| Ring buffer and BUSART, `mmculib/ring`, `mmculib/busart`, `mat91lib/usart/busart0_isr.h`, `mat91lib/syscalls.c` | two rings shared with an interrupt handler, the transmit interrupt, the USART's registers | write and read with retries, `busart_write_finished_p`, the handler | the handler between any two steps; ring full, empty, wrapping; lost wake-up |
| Flash heap, `mmculib/flashheap.c` | a chain of packets in persistent memory | erase, allocate, write, free | loss of power between two writes; failing writes; splitting and joining; the end of the heap |
| Melody, LED tape, PWM, ADC, SPI, TWI, IMU, USB, file system, FreeRTOS demo | registers, buffers | output and transfers | no logic of the system's own |

The boards interact only over the radio. On each board the program is
sequential; the radio chip runs beside it. The hat sends key packets every 500 ms
and commands every 20 ms; the racer sends one message for each iteration with
the bumper down outside the holdoff. The two applications call neither the
BUSART driver nor the flash heap; these are modelled against every caller that
keeps to their interface.

What must be true of each part: the driver delivers in order, once, what was
written, and tells the truth about acknowledgement and readiness; the racer
stands while it waits after a bump and when packets cease, and obeys only whole
commands with the current key; the hat has one source of control, and keys that
neither repeat nor are 0; commands are within range and steer the way the hat is
tilted; the kernel neither starves a task nor runs it early; times counted in
iterations are times in milliseconds; a serial port loses no byte it has
accepted; a heap survives the loss of power at any moment, stays within its bounds
and keeps what was stored in it.

## Modules

| Module | Models | Correspondence |
| --- | --- | --- |
| `Nrf24` | driver and chip | operators on one radio record; a function in whose middle the chip can act is cut there: `WriteStart`/`WriteEnd`, `ReadPayload`/`ReadClear` |
| `LossyLink` | abstract | what one direction of the link promises |
| `RadioLink` | two boards, two chips, the air | `pc[n]` is the place in a driver call; payloads are `<<sender, serial>>` |
| `DriveGuard` | abstract | what the racer promises about its motors, in ticks |
| `Racer` | `apps/racer/main.c` | one action per step of an iteration; names of variables are the code's; `Halt`, `Drive` and `Expire` write one register per step |
| `Pacer` | `pacer.c` on the millisecond counter | `pacer_wait` returns as the code's signed difference says; the body takes any time up to `MaxLag` behind schedule |
| `PacedCar` | `Pacer` and `DriveGuard` composed | the guard's tick is the start of an iteration; two ghost clocks count milliseconds |
| `Hat` | the hat's tasks | one action per task, named like it, cut where it waits (`TransmitDone`, `SwitchControl`, `BumperRead`, `MelodyEnds`, `WakeUp`) |
| `WackyRacers` | the composition | instances of `Racer` and `Hat`, plus `AirToRacer`, `AirToHat`, `Lost` |
| `Kernel` | `kernel.c` on the millisecond counter | `ReadClock` and `StartTask`/`SkipTask` are the two clock reads of one test |
| `GenKey` | `gen_key` | a key is a function from bit numbers to Booleans |
| `Control` | command arithmetic of `control.c` | operators named like the functions, in C's truncating arithmetic; one action per source, which also remembers the sample and the curve outputs; the duty that a motor in reverse takes from the other end is turned back into a signed speed by the properties only |
| `Ring` | `ring.c`, `ring.h` | operators on one ring; pointers are offsets; `ring_read` and `ring_write` in three parts: count, copy, move the pointer |
| `Pipe` | abstract | numbered bytes in, the same bytes out, at most so many inside |
| `Busart` | driver, retry loops, interrupt handler, USART | `pc` is the place in a call; `sending` is the shift register, then the holding register |
| `HeapBlocks` | abstract | blocks in use, apart from each other, allocated and freed at one moment |
| `FlashHeap` | `flashheap.c` | the memory byte by byte, one action per write of it (`WriteHeader` and `WriteData` are one `writev`, which power may cut short; `WriteOthers` is the second one); `PowerFails` between any two; the ghost `faults` remembers what has gone wrong |
| `MC*` | instances for TLC | values of constants that are not numbers |
| `RadioLinkProofs`, `RacerProofs`, `WackyRacersProofs`, `KernelProofs`, `ControlProofs` (with `GenKey`), `PacedCarProofs`, `BusartProofs`, `FlashHeapProofs` | proofs | see below |

Definitions commented *Seeded fault* are variants of the definition that
follows them with one plausible slip in it. They are not part of any
specification: they document which slip each property notices.

How the modules hang together: `RadioLink` and `Racer` use `Nrf24`;
`WackyRacers` composes `Racer` and `Hat`, each with a radio of its own, and
shows that the real hat stays within what `Racer` assumes of any hat.
`Racer` refines `DriveGuard` in ticks, and `PacedCar` puts `DriveGuard` on the
pacer's clock, so that the promises of the loop are promises in milliseconds.
`Busart` uses two rings and refines `Pipe` in each direction; `FlashHeap`
refines `HeapBlocks`.

Notes on the abstraction:

* A driver call is reliable over SPI, except after `spi_shutdown`: then
  `SPI_XFER` waits for a flag that an unclocked controller never sets, and the
  hat is in the state `"hung"`. The return values of `listen` and
  `begin` (verification of a register) are therefore always true.
* A retransmission the peer has stored already is acknowledged but not stored
  again (the chip compares packet identities). In `WackyRacers` all repetitions
  of one packet are one step: stored or lost, acknowledged or not.
* The chip, the air and the drivers' hands are the environment: any packet may
  be lost, any button may be pressed at any time it is read.
* Keys in `Hat` are serial numbers, 0 being the racer's initial key and 1 the
  hat's; `GenKey` justifies this.
* `rx` is local to an iteration of the racer's loop and forgotten at its end.
* `Kernel` and `Pacer` each contain the millisecond counter, since each board
  has one.
* In `Ring` the order of copying and of moving the pointer is the order of the
  source: the compiler keeps it, because a store through a `char` pointer may
  alias the ring.
* In `FlashHeap` a header is four bytes of the memory, written at once. A vector
  of data is its bytes and the places where its pieces begin, any number of them.
  The device ends with the heap or goes on behind it with any bytes. Every access
  may fail: a failing read, or a failing write of `flashheap_free`, ends the call
  with nothing changed, which is a stuttering step; the writes whose result
  `flashheap_writev` ignores fail inside of their actions. Callers free what they
  hold.

## Runs

| Run | Question | Bounds |
| --- | --- | --- |
| `RadioLink.cfg` | is the link lossy but orderly? (`ReadyMeansPayload`, `AckedWasStored`, `InOrderOnce`, `EveryReadReturns`; `LinkIsLossy`: both directions refine `LossyLink`) | the chip's real FIFO depth 3, four writes of the hat (one more than fit), two of the racer (enough to flush twice), two addresses |
| `Racer.cfg` | is the racer safe against any hat? (`StoppedWhileWaiting`, `StoppedAfterTimeout`, `CommandIsWhole`, `OnlyKeyedPacketsDrive`, `ImplementsGuard`: it refines `DriveGuard`, `RetunedByBumps`) Does silence stop the car for good, and do lockout and holdoff end (`SilenceStops`, `BumpPasses`)? | lockout 3, holdoff 2, timeout 2 iterations, FIFO of 2, three commands (stop, turn, full reverse with duty 0), two keys, two addresses |
| `PacedCar.cfg` | how long do lockout and motor timeout last in milliseconds, with late iterations and catching up (`LockoutInTime`, `TimeoutInTime`, `OnSchedule`)? | period 3 ms, a counter that wraps at 13, up to 5 ms late (more than one iteration to make up for), lockout 3, holdoff 2, timeout 2 |
| `WackyRacers.cfg` | do the two programs together keep keys in order and one control task enabled, move only with a key (`KeysAdvance`, `OneControlTask`, `NoKeyNoDrive`), does the hat stay within what `Racer` assumes of it (`RacerContext`), and does a hat that is put to sleep and left asleep stop the car (`SleepStopsCar`)? | FIFO of 2, three keys (a queued old one beside a new one), lockout, holdoff and timeout of 1, commands stop and reverse |
| `Kernel.cfg` | early starts, overtaking, starvation (`NeverEarly`, `PriorityRespected`, `NoStarvation`) | three tasks (one that switches, two control tasks), periods 5, 3, 3 and worst cases 1, 3, 3 ms, a clock that wraps at 11 |
| `GenKey.cfg` | 0 and repetition (`NeverZero`, `FullPeriod`) | none: all 65535 keys |
| `Control.cfg` | are duties in range and signed speeds as wanted (`TypeOK`, `SpeedsAsWanted`); have the curves no jump (`CurvesAreLines`); do the stick's ends give full speed (`StickEnds`); is further forward faster, and left the mirror image of right (`SteersAsTilted`)? | 32 samples of the accelerometer's x, 22 of its y and 19 of each joystick axis: each side of every corner of a curve, both ends of the ranges and points between; all the properties are proved for all samples |
| `Busart.cfg` | does every accepted byte reach the wire once and in order, every byte that found room the reader (`TransmitsInOrder`, `ReceivesInOrder`: both refine `Pipe`), is "finished" true (`FinishedMeansSent`), and does no byte stay behind (`EveryByteIsSent`)? | a ring of 3 bytes, which holds 2; requests of up to 3, one more than fits; one retry; bytes numbered modulo 6, one more than can be in ring, USART and last byte sent together |
| `FlashHeap.cfg` | as long as it is `Intact` (below): is the memory a heap after any sequence of calls, failing writes and losses of power (`PacketsFillHeap`, `DataKept`, `OneWriteDecides`: it refines `HeapBlocks`)? | 24 bytes: three packets of four bytes of data, so that a packet freed has two neighbours; sizes 4, 16 and 17, which leave a remainder of nothing, of a header, of less and of more; data that look like the header of a free packet, in two and four pieces; a device that ends with the heap, and one that goes on with a used or with an erased word |

Counters only count iterations, so the shortest values at which a counter is
started, stopped in the middle, and run to its end show every order of events;
the proofs of `Racer` hold for 250, 50 and 25. `CounterMax` caps
`motor_timeout_counter` where the comparison with the timeout no longer
changes, `AgeMax` does the same in the guard. `MaxWrites` and `MaxKeys` end the
growth of serial numbers; the proofs about keys hold for every `MaxKeys`.

In `Kernel.cfg`, `MaxWait = 7` is tight: 4 ms behind the tasks above and the
running one, and one period of 3 ms for a task that was disabled for a whole
round of the clock and whose age then looks like nothing. The two control tasks
take as long as their period (a transmission without acknowledgement takes
some 20 ms, all of their period): below them in the table nothing else is
enabled, so the others do not suffer.

`flashheap.c` has no defence against three things, and after them neither the code
nor any property of `FlashHeap.cfg` promises anything until the heap is erased:
what lies behind the heap and looks like a free packet is joined, a packet is split with
less than a header left, a third piece of data is written. `faults` names the
one that has happened, `Intact` says that none has, and the constraint
`WhileIntact` ends the search there, where `PacketsFillHeap` and `DataKept` no longer
say anything and `OneWriteDecides` counts all blocks as lost. That these steps are
taken, and what they do, is the matter of the finding below. A write that fails is
not among them: it leaves the heap whole, and only what `DataKept` says of the data
presupposes that there was none.

What `PacedCar` shows of the 5 s lockout (`doc/instructions/instructions.tex`,
line 289, "at least 5 s"): 250 iterations of 20 ms are 5 s less one period and
less what the loop was late when the bumper was hit. Catching up shortens it by
no more than that, however often the loop is late.

### Findings

Three runs end in a counterexample, each against a sentence of the repository:

* `RadioLink_FullIsReadable.cfg`: "Returns number of bytes read or 0 if not data
  available." (`mmculib/rf/nrf24.h:41`). When the payload that fills the FIFO
  arrives between the SPI read and the clearing of RX_DR, nothing can be read and
  nothing can arrive any more, until the board itself transmits. On the racer
  that takes a bump; until then `SilenceStops` holds it still.
* `WackyRacers_BumpPlaysSound.cfg`: "Play sound when the bumper is hit."
  (`doc/instructions/instructions.tex:121`). The message waits in the hat's
  FIFO for a task that polls every 100 ms, while the control task flushes that
  FIFO every 20 ms. It fails even under a fairness stronger than the kernel's.
* `FlashHeap_AsDescribed.cfg`: "Number of bytes in heap." (`mmculib/flashheap.h:36`).
  `flashheap_free` of the last packet reads the header behind the heap
  (`mmculib/flashheap.c:104`) and joins it when it is negative, as erased memory is: the
  whole heap allocated and freed again is five bytes larger than it was. The
  property `HeapAsDescribed` also asks what `mmculib/flashheap.h:73` says, that
  `flashheap_writev` "writes a vector of data, and returns a pointer to the first byte
  of the data". With nothing behind the heap (`Behind = {<< >>}`) it does not hold
  because of a vector of three pieces or more, whose second `writev` goes to the address
  of the header (`flashheap.c:194`); with pieces up to two it does not hold because of a
  remainder of one to three bytes, whose header lies over the next packet's
  (`flashheap.c:175`). The steps are the same ones that `faults` records.

More divergences, which no run of their own shows:

* "Return true if receiver has data ready." (`mmculib/rf/nrf24.h:50`):
  `nrf24_read` clears RX_DR after each payload and the chip sets it only for new
  ones, so payloads behind the first wait unseen until the next arrives. What
  does hold is the converse, `ReadyMeansPayload`.
* "RADIO select changing address 11 -> 100, 10 -> 90, 01 -> 80, 00 -> 70"
  (`apps/racer/init.c:117`): the switches change only the address in RAM; the
  radio follows at the next bump message. `RetunedByBumps` states exactly that.
* `flashheap_writev` returns "NULL for failure" (`mmculib/flashheap.h:75`) of the search
  and of the remainder's header only. The result of the writes of header and data is
  ignored (`flashheap.c:191`, `195`, `201`): the caller gets a pointer although nothing, or
  a part, was written (fault `"failed write"`).

A hat that has been woken up hangs at its first transfer, since nothing enables SPI
and TWI again (`apps/hat/main.c:82`; `task = "hung"`). No property takes that for
wanted: `SleepStopsCar` is about a hat that stays asleep, and would hold as well if
waking up restored everything.

## Fairness

* `Racer!FairSpec`: weak fairness of the loop. `pacer_wait` returns at the next
  tick and the polling of `nrf24_write` is bounded, so the loop never blocks.
  Nothing is assumed of arriving packets.
* `WackyRacers!FairSpec`: weak fairness of the racer's loop and of
  `HatContinues`, the rest of a task that has begun. Not of the start of a task,
  of the air, of waking up. The run `WackyRacers.cfg` assumes it, for `SleepStopsCar`.
  `PollingSpec` adds strong fairness of the bumper task, which is more than the code
  gives; only the run that fails uses it.
* `Busart!FairSpec`: the processor executes the call it is in, a pending
  interrupt is taken, the USART shifts. Nothing is assumed of new calls or of
  arriving bytes.
* `Kernel`, `PacedCar`, `RadioLink` and `FlashHeap` need none: what they promise
  about time is stated with clocks, as bounds, and the rest is safety.

## Proofs

Every theorem holds for all values of the constants that the named assumptions
of the modules allow.

**The radio link** (`RadioLinkProofs`). All properties of
`RadioLink.cfg`, from `LinkAssumption` and `FifoDepthAssumption`, for any number
of writes. None is inductive. The invariant has two halves for each board:

* `DriverInv`: what the driver leaves in the chip at each place of a call.
  Outside `nrf24_write` and what follows it, the chip does not transmit and no
  answer of an earlier transmission is latched (`Quiet`), so TX_DS stands for
  the payload of now, which the peer has stored (`AnswerTrue`); RX_DR without a
  payload is seen only in the middle of `nrf24_read` (`ReadyTrue`), whose buffer
  then holds exactly one (`BufferOK`);
* `InOrder`: the payloads that a board has got, holds in the buffer and has in
  its FIFO are one increasing sequence, none newer than what the peer has sent,
  and the one in the air is among them only if it was stored. The last part
  keeps a late retransmission from being stored a second time.

For the refinement, one parametrised instance of `LossyLink` stands for the
direction in which board `n` receives; each action is an offer, an acceptance, a
delivery or a loss in that direction, or a stutter (`LinkStep`).

**The racer alone** (`RacerProofs`). All the safety properties of
`Racer.cfg` and the refinement of `DriveGuard`, from
`RacerAssumption` and `FifoDepthAssumption`: positive tick counts, a timeout
within the cap, 0 among keys and positions, and the stop among the commands.

`StoppedWhileWaiting` is not inductive: the code stops the motors first, one
register at a time, and changes the state three steps later. The invariant
`IInv` adds what holds on the way:

* `StopProgress`: while `Halt` or `Expire` runs, the registers before `step` in
  the order of writing are zero; `DriveProgress`: while `Drive` runs, they are
  those of the packet;
* `BumpProgress`: between the stop and the lock the car stands;
* `WholeCommand`: wherever no register is being written, the registers are one
  command, and not an overdue one when the next iteration begins;
* `ReadyHasPayload`: RX_DR implies a payload in the FIFO, without which
  `nrf24_read` would take the head of an empty one.

One lemma per action shows that it preserves `IInv`; `Inductive` combines them,
the safety theorems follow, and for the refinement each action is mapped to a
tick, a refresh, a drive, a halt, a lock or a stutter of the guard, whose clock
runs ahead of `motor_timeout_counter` in the part of the iteration before the
code counts. `BumpsRetune` needs an invariant of its own (`InTune`): while the
bump message is on its way, the radio listens on the address in RAM, so that
`nrf24_listen` afterwards changes nothing.

**The whole system** (`WackyRacersProofs`), from `SystemAssumption`. In three
stages:

1. `HatInv` is an invariant of hat and air: types, `OneControlTask`, RX_DR with
   a payload behind it (`HatReady`), and `SendsCurrentKey`: what the chip is
   transmitting carries the hat's key of now, because the task that made it
   stops the chip before another one can make a new key.
2. So every step of the system is a step or a stutter of `Racer` with a general
   hat (`RacerInContext`). Everything `RacerProofs` shows therefore holds of the
   racer in the system; its theorems are used through an `INSTANCE` and not
   proved again (`RacerSafeInSystem`).
3. On top of both, the keys on their way are in order (`KeysInOrder`): none in
   the racer's FIFO or hand is older than the racer's key or newer than the
   hat's, and each is at least as old as those behind it. This gives
   `KeysNeverGoBack`, and with `KeylessStands` (a racer that has no key stands
   and is not about to drive) `KeylessCarStands`.

**Milliseconds** (`PacedCarProofs`). The schedule is its own invariant
(`ScheduleHolds`): `pacer_when` is the counter plus what is left, modulo the
size of the counter. Lockout and timeout add that the ghost clocks, the
counters and the lateness account for each other (`LockAddsUp`,
`SilenceAddsUp`): with `timer` iterations counted, the time since the lock is
`timer` periods up to one period and the lateness.

**The serial port** (`BusartProofs`). The first half shows what each
part of a ring operation does to the bytes that wait, with the pointers
anywhere: arithmetic on offsets modulo the size of the ring. The invariant of
the second half is what the program may rely on between its steps, whatever the
handler did meanwhile: the room that was counted is still there, the bytes that
were copied are still where they were put (`WriteOK`), the bytes that were read
still wait (`ReadOK`), nothing entered the empty ring (`FinishedOK`). From it
follow `FinishedIsSent` and the two refinements of `Pipe`, `SenderIsPipe` and
`ReceiverIsPipe`, for every size of ring and request.

**Keys** (`ControlProofs`, which extends `GenKey` too). `gen_key` is one-to-one
(each xor-shift leaves some bits unchanged, from which the others are
recovered), and so a key other than 0 never becomes 0. With the run
`GenKey.cfg`, where the initial key comes back only after 65535 steps, this
shows that all keys in between differ.

**Commands** (`ControlProofs`). For every sample, duties stay between 0 and 1000
(`ControlTypeCorrect`), duty and direction give the signed speeds wanted
(`CommandedSpeeds`), each response curve is one straight line with its ends cut
off (`LinesForAllSamples`), and the stick's ends give full speed
(`FullSpeedAtTheEnds`). None needs a stronger invariant: a command depends on
its sample only. The argument goes along the calls: the divisor of each of
the five curves is large enough (`Steep`) for the truncated quotient to stay
within full output (`CurveRanges`), whence the ranges of both sources
(`ImuRanges`, `StickRanges`), of the reduced inner wheel (`InnerRange`) and of
the command (`CommandRange`); truncation towards zero makes the reduction of a
reverse speed the negative of that of a forward speed (`SignedReduction`),
whence `CommandSpeeds`. For the lines, the error of two truncating divisions is
bounded by linear inequalities without the quotients (`LinearErrs`), from which
each curve is straight (`Straight`, `CurvesAreStraight`).
`SteeringFollowsTilt` compares two samples: each truncating division is monotone
or odd, hence so are the curves (`ForwardIsMonotone`, `CurveIsOdd`, `TurnsAreOdd`)
and the reduction of the inner wheel (`ReducedIsMonotone`), and the last command
is a function of its sample alone (`AlwaysAsSampled`).

**The kernel** (`KernelProofs`), from `KernelAssumption`. The code knows the time
modulo the width of the counter only; the properties are about the time that has
passed (`elapsed`, `late`). `ClocksAgree` relates the two: until a task's period is
over, the clock shows the time since its start, or one millisecond more if one
ended between the two readings (`ReadingFresh`). This is inductive and gives
`KernelNeverEarly` without any condition.

Waiting is bounded only if the load allows it. The argument is the response-time
analysis of fixed priorities without preemption, carried out on the code's scan.
`Load(j, B, R)` says that a wait of `R` ms is long enough for task `j`: for one run
of at most `B` ms that was going on when its period ended, for the millisecond of
a pass, and for all the runs of the tasks above `j` that fit in `R`, each with the
millisecond of the pass before it (`Work`, a sum over the table). A period counts
one millisecond less, since `NeverEarly` allows it. The inductive invariant
`InTurn` says this at every moment of the wait: what has been waited so far, and
the rest of the run going on, is covered by `B`, the starts so far and the
millisecond of this pass. A start of a task above `j` raises `Work` by its worst
case and the pass (`WorkGrows`); a task below `j` is only started when `j` is not
waiting (`Passed`: what the scan has passed over was not due); and when the wait
has come to `R`, no run is going on and the millisecond of the pass is used up, so
that `j` is looked at before the next tick (`TickBelow`). Hence
`KernelResponseTime`, and no start overtakes a late task
(`KernelKeepsPriorityUnderLoad`; `KernelKeepsPriority` needs no load, but that
nobody starves). The other control task counts neither as above nor as below, since
exactly one of the two is enabled (`OneControl`).

A control task that was disabled while the counter wrapped around may look as if
it had just run. `InTurn` is therefore about the part of the wait that the clock
shows (`ShownWait`), which for all other tasks is the whole wait (`LateShown`);
before that a control task may have waited once in turn and for a period
(`ControlWaits`). So `KernelNobodyStarves` holds if `MaxWait` covers a period, two
waits in turn and a millisecond.

`KernelServesHat` is this for the table of `apps/hat/main.c:101`. A transmission to
a car that does not answer takes some 20 ms: `nrf24_write` and `nrf24_listen` wait
3 ms each, the hundred polls of 100 µs and two bytes of SPI at 1 MHz take 12 ms,
and reading the IMU at 100 kHz more than one. With at most 24 ms for the three
tasks that transmit and 2 ms for the others, no task waits longer than 80 ms beyond
its period, a control task no longer than 181 ms, and no start overtakes a late
task. A transmission takes longer than the 20 ms of a control task's period, so
this is a load at which the lowest task is always due again when it ends.

The melody (`apps/hat/sound.c:84`) takes more than 2.5 s, in the bumper's task or in
the one that changes the control. `KernelServesHatWithMelody` allows both to take
3 s at every run: the tasks up to the bumper, the one that renews the key and the one
that looks at the sleep button among them, still wait no longer than 3.41 s. About
the three tasks below nothing is proved in this case, and nothing could be: bumps
reported more often than a melody takes keep them from running. The sleep task's
own second and the sleep are outside of both theorems.

The instance of `Kernel.cfg` meets the hypotheses of `KernelResponseTime` and of the
priority under load (`B = 3`, `R = 4` for the task that switches, `B = 1`, `R = 6` for
the control tasks), not those of `KernelNobodyStarves`, which would need
`MaxWait = 16`: there TLC shows the sharper bound 7.

**The flash heap** (`FlashHeapProofs`), from `FlashHeapAssumption`: sizes are
`int32_t`, the heap has room for more than a header, nobody asks for nothing, and data
and what lies behind the heap are bytes. Nothing is assumed of what those bytes are, of
sizes being multiples of anything, of the number of pieces, or of accesses succeeding.
What is proved is what the properties say, and they are conditional: on `Intact`, and
`DataKept` on no failed write besides. They show that the three things that `Intact`
excludes are the only ways in which calls, failing writes and losses of power can spoil
the heap.

The code finds its packets by walking from header to header, a recursive function of
the memory. The proofs are about a set of addresses instead, over the map of the
headers that could be read anywhere in the heap (`Heads`). A set tiles the heap
(`Tiled`) when the packets at its addresses lie side by side from the first byte to the
last, and then it is the set the walk comes by (`WalkIsTiling`; that the recursive
function exists is an argument on the least distance from the end at which it would
not, `WalkEquation`). So for each write it is enough to name the set that tiles the
heap after it: the same, one packet split (`Split`) or two joined (`Merge`). The bytes
come in below that: a header written is the header read (`HeaderWritten`), and a write
touches no header of another packet (`HeaderElsewhere`, `InsideWritten`).

The invariant `HeapInv` is `HeapType`, which needs no condition, and, as long as the
heap is intact, `Whole`: the packets tile the heap and no two neighbours are free
(`Sound`); what an allocation has done so far (`Begun`): until its header is written,
the packet is free and the remainder's header is data inside of it, which is what makes
a loss of power or a failing write harmless; and, if no write has failed, each block a
caller holds is a used packet with its data (`Kept`). Only erasing makes the heap intact
again (`OnlyErasingHeals`), and that needs `HeapType` only. From `HeapInv` follow
`HeapStaysWhole`, `HeapKeepsData` and the steps of `HeapRefinesBlocks`, where the write
of the header is the moment of the allocation.

**Only model-checked:**

* `FullPeriod` of `GenKey`: a computation of 65535 steps;
* `NoStarvation` and `PriorityRespected` of the kernel with the tight `MaxWait` of
  `Kernel.cfg`, or beyond the loads that the theorems assume;
* liveness and fairness, which the prover does not treat: `SilenceStops`,
  `BumpPasses`, `SleepStopsCar`, `EveryByteIsSent`.

## Not modelled

Outputs on which nothing depends: servo pulse, LEDs, battery LED, LED tape, USB
output, the notes of a melody (`MelodyEnds` is all the tasks see of it).
`battery_voltage_task` is empty in this build (`LOW_POWER_FEATURE` 0). The
register configuration inside `nrf24_begin`, PWM and other peripheral registers:
one atomic step each.

Restart of a board: neither keeps anything over a loss of power, and both begin
again in `Init`. A racer restarted alone is a racer with key 0, which stands
until the next key packet (`NoKeyNoDrive`); a hat restarted alone begins its key
sequence again, which ends the order of serial numbers that `KeysAdvance` is
about.

Parts of the modelled libraries that no caller in the repository uses and whose
code does not keep the module's promises; they are left out of the models and
named here:

* `busart_clear` resets both pointers of a ring which the handler may be
  emptying; an interrupt between the stores leaves a ring of old bytes
  (`busart.c:285`).
* `ring_write_continuous` gives up old bytes to make room, and then still cuts
  the new ones to the room there was before (`ring.c:223`); `ring_putc_force` moves the
  reader's pointer from the writer's side.
* A write or read that times out returns -1 although part of it was done
  (`mat91lib/syscalls.c:575`): the caller cannot tell how much.

The sign of `motor_timeout_counter` after 497 days of silence is beyond any run of the
car; the model caps the counter where the comparison no longer changes.

The hat's calls are given worst cases in `Kernel` and no time in `WackyRacers`:
the two are not composed, since the product of a clock with both programs is
beyond exhaustive search; what the composition would add, the race of the
bumper message with the control tasks, is shown without it.

By far most of the repository is other people's code, of which the two
applications use little or nothing: a vendored FreeRTOS for a blink experiment,
register headers of microcontrollers, USB, FAT, SD card, display and GPS libraries,
fonts. It is out of scope, as are schematics and course documents.
