# A TLA+ development of the T3 firmware

The T3 modules are small I/O controllers of Temco Controls: an STM32F103 under FreeRTOS,
with a Modbus RTU slave (or BACnet MS/TP node) on an RS-485 port, an Ethernet port with
Modbus TCP and a discovery service, a serial EEPROM for the settings, and 8 to 26 inputs
and outputs. The code is C without a single lock: interrupts and tasks of four priorities
share global variables, one receive buffer and one EEPROM bus. This project models that
sharing, checks it with TLC on small instances and proves what matters most with TLAPS.

The reference is the root tree of the repository with the build selected by
`USER/define.h` (`T322AI`) and `USER/test.uvprojx`. `TemcoNepal/` is a near-copy of it. The
project file compiles the BACnet sources of `bac_lib/`, not those of `BACNET/`; the register
handlers are in `USER/modbus_regOp.c`, where `MODBUS/modbus.c` says they are
(`MODBUS/modbus.c:221`).

## 1. Inventory

| Component | Code | State | Operations | Talks to |
|---|---|---|---|---|
| Modbus RTU slave | `MODBUS/modbus.c`, `MODBUS/crc.c`, `SYSTEM/usart/usart.c` | `USART_RX_BUF`, `revce_count`, `rece_size`, `serial_receive_timeout_count`, `dealwithTag`, `TXEN`, `sendbyte_num`, `send_count`, `modbus` | `USART1_IRQHandler`, `serial_restart`, `checkData`, `dealwithData`, `responseCmd`, `internalDeal`, `modbus_init` | COMM task, register writes |
| COMM task | `USER/main.c:207` | (the two counters above) | tag, dispatch, inter-byte timeout, every 5 ms | slave |
| Register writes | `USER/modbus_regOp.c` | the settings in `modbus`, ghost copies of the network settings, `SNWriteflag` | `write_register_modbus`, `multiple_write_modbus` | EEPROM, USART, reset |
| EEPROM driver | `HARDWARE/24CXX`, `HARDWARE/IIC` | 256 bytes, the WP pin, the two bus pins | read and write one byte (at least 3 ms, sleeping) | called by COMM, STORE_EEP and NET |
| Start-up | `USER/main.c:646` | | `EEP_Dat_Init`: every setting from EEPROM, defaults for 0xff | EEPROM |
| STORE_EEP task | `USER/main.c:272` | `data_change` | stores the pulse counters that changed, every 3 s | EEPROM, inputs |
| Inputs | `USER/inputs.c`, `FILTER/filter.c` | `pulse`, `raw_data`, `input`, `analog_in_buffer` | `inputs_scan` every 10 ms, the EXTI interrupts, filter, range conversion | settings |
| NET task | `USER/main.c:444`, `uIP-APP/tapdev.c` | `IP_Change`, its delay | `uip_polling`, reset ten polls after an address change | uIP |
| Modbus TCP | `uIP-APP/tcp_modbus.c` | one request and one reply buffer, a pointer per connection | `tcp_server_appcall` | `responseCmd`, `internalDeal` |
| Discovery | `uIP-APP/udp_scan.c` | live and ghost addresses | scan reply, address change | EEPROM, NET task |
| MS/TP data link | `bac_lib/dlmstp.c`, `rs485.c`, `bacnettimer.c` | receive and master state machines, one packet to send | `dlmstp_receive`, `dlmstp_send_pdu`, the two FSMs | FIFO, silence timer |
| FIFO | `bac_lib/fifo.c` | free-running head and tail, over `USART_RX_BUF` | put (interrupt), get, flush (task) | MS/TP |
| Silence timer | `HARDWARE/TIMER/timerx.c` | `SilenceTime`, wraps to 0 after 1000 | TIM6 interrupt | MS/TP, uIP |
| Switches, outputs | `KEY/key.c`, `OUTPUT/output.c` | `switch_gourp`, outputs | scan and refresh every 100 ms | another board |
| LED task, RTD front end, BACnet objects, control programs, flash store | see `PROJECT.json` | | | |

Where it is hard, and what makes each part correct:

- **Serial port.** Three actors (interrupt, COMM task, master) and no lock. A complete frame
  must survive the timeout; the reply must be computed from the frame that was checked,
  leave whole, from its first byte, once, and in order; a write must store what was
  answered; the line must be given back; fragments must not clog the receiver.
- **Settings.** A setting is written in RAM and then byte by byte in EEPROM, with resets,
  power failures and other writers in between: after a restart each setting must be one
  that was written; the serial number must stay written once; the ghost network settings
  must take effect together.
- **EEPROM bus.** COMM preempts STORE_EEP, which preempts NET, in the middle of a
  transaction and while the WP pin is down: no write may be lost or go elsewhere.
- **Pulse counters.** Counted in interrupts and in a task, stored by another: what is stored
  must be a number that was once counted, and the last one in the end.
- **MS/TP.** At most one token after the ring has settled, a lost token is generated again,
  a reply is sent at most once and to the one who asked.
- **FIFO.** What is got is what was put, in order, through the wrap of the counters.
- **TCP.** A client receives the reply to its own request; connections are freed.

`PROJECT.json` lists these hazards line by line.

## 2. Plan

Modelled, in this order:

1. `ModbusSerial` with the abstract `RequestReply` (sections 3 to 6); proved.
2. `Fifo` implementing the abstract `ByteQueue` (section 7); proved.
3. `MstpNode`, the state machines of one station, and `MstpRing`, stations on a line with
   faults and collisions (section 8); its safety proved.
4. `EepromBus`, three tasks on one bus, implementing the abstract `ByteStore` (section 9); proved.
5. `PulseStore`, `Settings`, `TcpModbus`, `Outputs`, `AnalogInputs`, `Ranges` (sections 10
   to 14), composed with `EepromBus` in `MCDevice`; the safety of all but `Ranges` proved.

`MstpRing` composes stations. `Settings`, `PulseStore` and `Outputs` store a byte in one step:
they use the promise of `EepromBus`, not its detail, and so say nothing of two tasks that
store at the same moment; `EepromBus` says what happens then.

Every safety property that a passing run checks has a theorem, but for `OneWay` and the types of
`Ranges`. Section 15 lists what stays with TLC, and why.

## 3. The serial port: `ModbusSerial`

An interrupt is one step. The task is cut into steps wherever an interrupt can change what
it reads; between two steps anything else may happen. Names are those of the code.

| Code | Actions |
|---|---|
| `USART1_IRQHandler`, receive branch (`modbus.c:47`) | `RxIsr`, `RxIsrFull` (250 bytes reached); the else-if chain is `SizeAfter`, `TimeoutAfter`, `FrameEnds` |
| transmit branch (`modbus.c:122`) | `TxIsrByte`, `TxIsrEnd` |
| data and shift registers, the line driver | `ShiftOut`, `pipe`, `wire` (external) |
| `if (dealwithTag) { dealwithTag--; ...` (`main.c:212`) | `TagLoad`, `TagStore` |
| `checkData` | `CheckAccept(n)`, `CheckReject` |
| `initSend_COM`, `responseCmd` | `SendMode`, `Reply` |
| `internalDeal`, `write_register_modbus` | `StoreOffset`, `StoreOffsetLow`, `StoreSerial`, `StoreBaud`, `modbus_init`, `StoreNothing` |
| the timeout (`main.c:218`) | `TickTest`, `TickLoad`, `TickStore`, `TickZero` |
| the master and noise | `MasterStart(f)`, `LoseByte` (external) |

A byte in the buffer is known by the frame and offset it comes from, so the model can say
whether the buffer holds *this* frame; its value matters only where the code looks at it.

Assumptions, each named in the module:

- *The CRC is exact* (`HoldsFrame`): it matches only for the bytes of one frame, in order.
- *The receiver is deaf while the driver is on* (`ByteArrives`, `LoseByte`): half-duplex
  RS-485 with receiver enable tied to driver enable.
- *The decision is quick* (`DecisionIsQuick`): the task needs at most about 2 ms (the random
  delay of `checkData`) from taking the tag to switching to SEND, a byte takes 87 us at
  115200 baud, so 250 bytes do not arrive meanwhile; nor does a frame between the load and
  the store of `dealwithTag--`. This rules out the race on the tag, not on the timeout.
- `IsrPreemptsTick`: may an interrupt hit `serial_receive_timeout_count--`? In the code it
  may. FALSE isolates that defect, TRUE (run `tick_race`) shows it.
- `MasterOutwaitsStore`: does the line stay silent while a write is stored? Nothing in the
  code makes it so. TRUE isolates that defect, FALSE (run `store_race`) shows it.
- Registers: an ordinary setting, the low word of the serial number and the baud rate; the
  high word and the hardware revision have the same shape as the low word. Misaligned
  bytes that steer nothing have the value `data`.

Two oddities were met on the way and are in the model as the code has them: the interrupt
takes register 10 (`0x0a`) for the scan command while the enumeration and `checkData` have 9
for `MODBUS_ADDRESS_PLUG_N_PLAY`, and its 12-byte length set at byte 4 is overwritten by 8 at
byte 7. `modbus_init`, which follows every change of the baud rate, also resets to 3 the
timeout that was just chosen for the new rate. `multiplewrite_register_modbus`, which
`internalDeal` calls, is defined in no C file (in this build its namesake would only write
the MAC address), so the model stores nothing for a multiple write.

## 4. Properties and runs

Safety: `TypeOK`; `PendingFrameKept` (the timeout is off as long as a complete frame waits);
`ReplyFromCheckedFrame` (the buffer still holds the frame that was checked when the reply
is computed); `ReplyFromFirstByte` (the transmitter is at rest when a reply starts);
`ReplyNotCut` (the driver is not switched off before the reply has left);
`StoredAsAnswered` (RAM and EEPROM hold the value of one request that was answered);
`SerialWrittenOnce`. `AnswersInOrder` is the specification of `RequestReply`: `ModbusSerial`
implements it under the mapping `sending <- txie`. Liveness: `BusReleased`,
`ReceiverRecovers`, `RequestServed`.

| Run | Instance | Result |
|---|---|---|
| `any_master` | any order of 2 frames out of write, online check and multiple write; one byte lost; master waits for nothing | the six safety properties hold (4.7 M states) |
| `stores` | 2 writes out of setting, serial number, baud rate; line silent during stores | `StoredAsAnswered`, `SerialWrittenOnce`, `BusReleased` hold |
| `live` | 2 requests, for this slave or another; one byte lost | `RequestServed`, `ReceiverRecovers` hold |
| `tick_race` | interrupt inside the decrement | `PendingFrameKept` violated |
| `store_race` | master sends during a store | `StoredAsAnswered` violated |
| `baud_change` | a write of the baud rate, then a read | `ReplyFromFirstByte` violated |
| `byte_count` | a multiple write with byte count 248 | `ReceiverRecovers` violated |
| `fifo_wrap` | the FIFO, section 7 | `TypeOK`, `NeverOverrun`, `FrontHeld`, `QueuePromise` hold |
| `ring` | three MS/TP lines, section 8 | `TypeOK`, `OneHolderUnlessDisturbed`, `TwoInTime`, `AnswerFitsRequest`, `Settles`, `TokenReachesAll` hold (970 k states) |
| `device` | seven other parts, one at a time, sections 9 to 14 | 19 properties hold (504 k states) |
| `lost_write` | three tasks write to the EEPROM, section 9 | `WritesLand` violated |
| `pulses_lost` | pulses during their store, section 10 | `StoredInTheEnd` violated |

**Bounds.** Two frames are enough for every property, which relate a frame to the one before
it or to the bytes that follow it; one lost byte shifts a frame against the receiver's count
and makes it swallow part of the next. `RxLimit = 12` in place of 250 lets the limit be
reached (it must be at least the longest frame); `Timeout = 1` lets the timeout expire at
any tick, as 3 would allow between any two bytes since time is not modelled; `tick_race`
takes 2, so that the count can be seen to survive.
Deadlock is checked in every run of sections 3 to 8. In `device` and in the two runs on parts of
it, it is not: their environment (writes, pulses, signals, clients) is bounded and may come to
an end, and the readings of `Ranges` do.

**Fairness** (`FairSpec` of `ModbusSerial`): weak fairness of the COMM task (it sleeps 5 ms and has the
second-highest priority), of the transmit interrupt (pending until served) and of the shift
register (hardware). Nothing is assumed of the master or of the line.

## 5. Proofs: `ModbusSerial_proofs`

| Theorem | States |
|---|---|
| `TypeCorrect` | `Spec => []TypeOK`, with no further assumption |
| `CompleteFrameKept` | `Spec => []PendingFrameKept` |
| `CheckedFrameAnswered` | `Spec => []ReplyFromCheckedFrame` |
| `TransmitterAtRest` | `Spec => []ReplyFromFirstByte` |
| `ReplyComplete` | `Spec => ReplyNotCut` |
| `Implements` | `Spec => AnswersInOrder`, the refinement of `RequestReply` |
| `WritesAreWhole` | `Spec => []StoredAsAnswered` |
| `SerialIsFinal` | `Spec => SerialWrittenOnce` |

They hold for every set of frames, every bound, every buffer size and every timeout that
`SerialAssumption` allows. The second to the sixth assume `QuietLine`: no interrupt inside the
decrement (else `tick_race`), no write of the baud rate (else `baud_change`), and no byte of value 247,
for which the frame length of a multiple write wraps to 0. The last two assume only
`MasterOutwaitsStore`, without which they are false (`store_race`): what a write stores is whole also when an
interrupt hits the tick, the baud rate changes or a length wraps.

None of the properties is inductive. The invariant `IInv` adds, in named parts, why they hold:

- `PendingInv`: from the last byte of a frame until its reply starts, the timeout is off and
  the buffer only grows. The interrupt can re-arm the timeout only at bytes 1, 4 and 7, so
  the count must already be past those; a 6-byte frame is an online check, whose byte 7
  sets neither (this is why the function code is in `SizeInv`).
- `TaskInv`, `TxInv`: where the task is, against the driver and the transmit interrupt: while the driver is
  on, the timeout is off, so `TickZero` cannot cut a reply; what left plus what is in the
  registers is at least `send_count`.
- `HoldInv`: from the acceptance to the start of the store, the buffer begins with the frame
  that was accepted.
- `AnswerInv`, `LineInv`: the bytes in the buffer were sent, and those after a reply come from
  later frames, so requests are answered in order.

`TypeInit` and `TypeStep`, `InvInit` and `InvStep` (one step per action, and under it one per part
that it disturbs) give `Invariance`; the theorems follow. TLC checked `IInv` on the instance
of `any_master` before it was proved.

The last two theorems have invariants of their own, which need of `IInv` only the types. While the task
stores, wire and buffer are still (`QuietWhileStoring`). `StoreInv` says where RAM and EEPROM stand
between the two bytes of a write, and why the two bytes come from the frame that was checked: a
single write is never accepted at a length below six, since only a multiple write can wrap the length
to a small number. `SerialInv`: the number is open as long as a write to it is under way. TLC
checked both on the instance of `stores`.

**Only model-checked:** the liveness properties.

## 6. From the proof back to the code

What the proof asked for that the code does not say: that a 6-byte frame is the online check
(a frame whose length is known before byte 7 would have its timeout re-armed there), that no
interrupt re-arms the timeout past byte 7, and that the byte count of a multiple write is not
247, the one value for which the length wraps to 0 and no frame ever ends. The first two hold
by the set of commands there is; a new command has to be checked against them.

## 7. The receive FIFO: `Fifo`, `ByteQueue`, `Fifo_proofs`

`bac_lib/fifo.c` lies between the USART interrupt (`FIFO_Put`) and the MS/TP task (`FIFO_Get`).
The interrupt writes `head`, the task writes `tail`; both are unsigned integers that run free and
are reduced to an index at each use.

| Code | Actions |
|---|---|
| `FIFO_Count`, `FIFO_Full`, `FIFO_Available` | operators of the same names, modulo `Word` |
| `FIFO_Put` | `FIFO_Put(b)`, one step: it is the interrupt |
| `FIFO_Add` | `FIFO_Add(bytes)` (the test), `AddByte` (each turn of the loop) |
| `FIFO_Pull`, and `FIFO_Get` as a pull of one | `FIFO_Pull(n)`, then `Copy` and `Advance` for each byte |
| `FIFO_Flush` | `FIFO_Flush` (reads `head`), `FlushTail` (writes `tail`) |
| `FIFO_Init` | `Init`, with any contents of the memory |

The interrupt may come between any two accesses of the task. This firmware calls only put and
get; add, pull and flush are modelled because they belong to the same interface and have to
keep the same promise. Two `FIFO_Add`s, or a put inside an add, do not occur: there is one
producer.

The promise is `ByteQueue`: what is taken is what was put, in order and once, and a byte is
refused only when there is no room. `Fifo` implements it with `queue` mapped to `Content`, the
bytes from `tail` to `head`. `NeverOverrun` says that the counters never run more than a buffer
apart, wherever they wrap; `FrontHeld`, that the slot being copied is not refilled before the
task moves on.

Run `fifo_wrap`: `Length = 4`, `Word = 8` (the code has 512 and 2^32), so that both counters
wrap and every combination of index and wrap is reached; two values of a byte tell order and
loss apart; calls of at most `MaxCall = 2` bytes. 222,720 states.

| Theorem | States |
|---|---|
| `FifoTypeCorrect` | `Spec => []TypeOK` |
| `FifoNeverOverrun` | `Spec => []NeverOverrun` |
| `FifoFrontHeld` | `Spec => []FrontHeld` |
| `FifoImplements` | `Spec => QueuePromise`, the refinement of `ByteQueue` |

They hold for every `Length` and every `Word` that `FifoAssumption` allows, the sizes of the
code among them. The assumption is that `Length` divides `Word`: this is what "size must be
power of two" (`bac_lib/rs485.c`) gives, and without it the index would jump where a counter
wraps. `IInv` adds `CopyInv` (while a pull copies, at least as many bytes are in as it has left)
and `FlushInv` (the head read by a flush lies between tail and head). The arithmetic is in
lemmas on remainders (`DivUnique`, `DivMod`, `ModPiece`, `Near`, `SameIndex`): two positions
less than `Length` apart never share a slot, also across the wrap. Each action then maps to
`Put`, `Refuse`, `Take`, `Discard` or a stutter of `ByteQueue`.

## 8. MS/TP: `MstpNode`, `MstpRing`

`bac_lib/dlmstp.c`: the BACnet MS/TP task calls `dlmstp_receive` every 5 ms. A call takes at most
one frame and runs the master state machine until a transition returns.

| Code | Actions |
|---|---|
| `dlmstp_receive`, with the receive machine | `dlmstp_receive(s)`; `Verdict` is what it makes of a frame, `Octets` what it counts |
| each transition of `MSTP_Master_Node_FSM` | one action, named as the comments of the code name it: `ReceivedToken`, `SawTokenUser`, `GenerateToken`, ... |
| `transition_now` | `Again` (the machine runs again in this call) or `Return` |
| `npdu_handler`, `handler_who_is`, `dlmstp_send_pdu` | `Handled`: they fill the one packet to transmit |
| `TIM6_IRQHandler` | `Tick`, with the wrap of `SilenceTime` at 1000 ms |
| the line, the other stations, the power switch | `Deliver`, `DeliverBadly`, `Collide`, `Foreign`, `Elapse`, `SwitchOn`, `SwitchOff` (external) |

A frame is the unit: it arrives whole, or is lost, broken or cut short for one station, or
collides. Within 5 ms the stations call in any order; a frame is over before the next 5 ms begin.

`OneHolderUnlessDisturbed`: without faults no two stations ever think they hold the token.
`Settles`: after any faults there is one token in the end. `TokenReachesAll`: a station that stays
on gets the token again and again, whatever was lost. `AnswerFitsRequest`: the reply that is
about to leave is the one to the request just received.

**Late frames.** A station takes one frame in a call, whatever it is and however many wait
(`dlmstp.c:1218`). On a line so fast that a frame is over within a call, two stations of three that pass the
token to one another put two frames into the queue of the third for each one it takes. The
maintenance poll for the third then waits in that queue for longer than `Tusage_timeout`, and the
leader, which has given up, goes on without the answer that will still come; a token that comes so
late is sent again, and taken twice. The comment on `Tusage_delay` (`mstpdef.h:117`) allows a
node 15 ms before it answers; here the time grows with the traffic. The history variable `late` says that
this has happened: something for a station was put behind more frames than the calls it is waited for
(`ComesLate`). The three properties on the token hold until then. Without `late` in them, TLC
finds `TokenReachesAll` and `Settles` violated on three stations with `Npoll` 4, and
`OneHolderUnlessDisturbed` with `Npoll` 8, where nothing was lost and nothing collided; with `late` all of them hold with `Npoll` 2, 3 and 4. `Npoll` is 50 in the code,
which gives the queue longer to grow between two polls. `TwoInTime`: with two stations nothing is ever late.

**Bounds.** Run `ring` takes three lines (`MCLines`): three stations that come up in any order with
one collision; two, with a gap between their addresses, with one fault, one collision and one
switched off; and one among foreign masters that send requests, a broadcast token, Who-Is and a
postponed reply. The times keep their order in the code, in units of one slot: `Tslot` 1,
`Tusage_timeout` 4, `Tno_token` 7, and `MaxSilence` 11, past the last slot of the three. `Npoll` 3
in place of 50 lets the maintenance poll come at every third turn. At most 7 frames ever wait, so
that with a `FifoLength` of 16 no frame is dropped (512 octets hold 64 of 8).

**Assumptions.** *Clocks drift*: two stations that are each the only master, as they
think, would poll in lock step, collide for ever and never hear one another; after
`MaxCollisions` collisions frames no longer begin in the same call. *Low addresses*: a station at 51 or
above could never make a token, for its slot begins past 1000 ms, where the timer starts again;
T3 modules have 12 (`Station_NUM`, `MODBUS/modbus.c:34`). *Foreign masters follow the standard*: a
confirmed request to one station comes in a frame that expects a reply; one that is broadcast
would leave its answer in the packet for the next request. *The line is fast*: a frame takes
less than a call; a token, of 8 octets, does from 19200 baud upwards. On a slower line frames come less
often than calls, and queues do not grow.

**Fairness**: each station's task (priority 4, the highest; every 5 ms), the line, and time.
Nothing is assumed of switches, faults or foreign masters.

**Proved** (`MstpRing_proofs`), for any stations, timings, lines, faults, collisions and switches:
`RingTyped` (`TypeOK`) and `AnswersTheOneWhoAsked` (`AnswerFitsRequest`). Both assume
`StandardMasters`, the assumption on foreign masters above made precise: they have the address of a master
(a reply to a poll from another address would be taken for the successor), and a request comes from a
station of another kind, to one station, in a frame that expects a reply. The station keeps one packet, and the
property is about two fields of it at one moment; it holds because the packet is empty whenever
the station is not answering. So `Inv` follows every frame on its way: what carries a request, on
the air or in a queue, is either asked by another kind or is an answer to it (`Proper`), and what a
station has taken is never an answer (`Taken`). A holder of the token has a frame left
(`Sound`), or `FrameCount` would leave its range. TLC checked `Inv` on the lines of `ring`.

`OneTokenHolder` (`OneHolderUnlessDisturbed`) has two more hypotheses:

- `OwnLines`: a line has stations of this kind, or one of them among foreign masters, which may send a token
  of their own while a station holds one; and `MaxCollisions` lets a first collision happen, for a line on
  which two frames can never begin at once says less of the code. Every line of `ring` is such a line.
- `Tusage_timeout + 1 < Tno_token`: who waits for an answer gives up before a station that hears
  nothing makes a token. In the code 95 ms, a call of 5 ms, and 500 ms (`dlmstp.c:136`, `:963`).
The invariant, `Orderly`, holds as long as nothing was disturbed and nothing came late: the ring is silent, or one station *leads*:
it holds the token, or has sent the token or a poll, or is to do so in this call (`Leads`). That is
seldom visible to the others, so what they cannot know is made a relation between two stations:

- the silence timer of everyone else is not ahead of the leader's, or something is still to be heard
  that resets it (`Listens`); so nobody reaches its slot in `NO_TOKEN` while the leader waits;
- a station that has passed the token on has something to hear before it would send it again;
- only what the leader asked for is waiting for a station, as the last frame of its queue, and is
  taken before the leader gives up (`Pending`, `Asked`, `InTime`: for this `late` is needed, when the frame is
  delivered);
- on the line is one frame, of the leader or the answer to it (`OnTheLine`).

The moves of the master machine are first reduced to four, by what they do to the line: a station sends
(`Utters`), goes on in its call (`GoesOn`), listens (`Hushes`), or takes what it was asked with
(`Speaking`, `Listening`). The leader changes in one of them only, where the token is taken (`TakingToken`), and
the first one speaks into a silence (`BreakingSilence`); if two do, they collide, and nothing is claimed any
more. TLC checked the invariant on the lines of `ring`.

`TwoAreInTime` (`TwoInTime`) adds `0 < Tusage_timeout`: on an undisturbed line of two no frame comes late, so that
`OneTokenHolderOfTwo` needs no word of lateness: two stations alone on a line never both
hold the token unless a frame was lost, broken or in collision or one went off. Its invariant, `PairInv`, counts what waits for a
station, what is on its way to it and what the other may still send in these 5 ms: together they are
never more than one and the call the station has still to make (`Queued`). That each station takes one frame
in a call is enough because each sends at most one, and ends its call with it (`PairSends`,
`PairTakes`), and because a frame is heard by the other alone (`PairHears`): the variant of
`Hearing` in which a station hears itself breaks it. `Queued` is inductive only
together with `Tidy`, a part of `OrderInv`: who has sent a frame was in a call, and a station that is off has
nothing waiting. TLC checked `PairInv` with `Npoll` 8 too.

## 9. The EEPROM bus: `EepromBus`, `ByteStore`

`AT24CXX_WriteOneByte` (`HARDWARE/24CXX/24cxx.c`) is called by COMM (priority 3), STORE_EEP (2) and
NET (1) (`Priority`). It drops the write protection, sleeps, sends start, device, address, data
and stop over two pins, raises the protection and sleeps. Nothing locks bus or pin.

| Code | Actions |
|---|---|
| `IIC_WP = 0`, `delay_ms(1)` | `WriteOneByte`, `Wake` |
| `IIC_Start`, `IIC_Send_Byte` with its `IIC_Wait_Ack`, `IIC_Stop` | the same names |
| `IIC_WP = 1`, `delay_ms(2)` | `Protect`, `Return` |
| the chip | `Listening`, `Takes`, `Released`, `Written`, `ChipReady` (external) |

A task takes a step only while none of higher priority is ready (`Runs`); it may be preempted
between any two bytes on the bus. To be preempted inside a byte is like being preempted before it: the next
start condition makes the chip drop what it has. The one exception, a start in the middle of another
task's stop, is in `IIC_Start`. The stop that `IIC_Wait_Ack` sends when no acknowledge comes is left
out: the chip that does not acknowledge does not listen.

`StoresOnlyCalls` is the specification of `ByteStore`: the memory changes only to the byte of a call that
is running, at its address; a transaction torn by another never writes elsewhere. `LandsWhenAlone`:
a write that overlaps with none is in the memory when it returns. `WritesLand`, for every write, does
not hold (`lost_write`), even with a chip that writes in no time: the start of the higher
task throws away what the lower one sent, and the lower one goes on and returns.

`WriteCycle` is the time the chip takes to write: "short" (over when its writer goes on after 2 ms) in
`device`; "none" in `lost_write`, so that nothing but the preemption can be the cause. With "long"
(the data sheets allow 5 ms) `LandsWhenAlone` would not hold either, as the next write finds
the chip busy; which it is depends on the chip fitted.

| Theorem of `EepromBus_proofs` | States |
|---|---|
| `BusTypesHold` | `BusSpec => []BusTypeOK` |
| `Implements` | `BusSpec => StoresOnlyCalls`, the refinement of `ByteStore` |
| `AloneLands` | `BusSpec => LandsWhenAlone`, if `WriteCycle # "long"` |

For any number of tasks of distinct priorities, any calls and any size of the memory. The
refinement needs `ChipInv`: whenever the chip is amid a transaction, some task is its `Sender` (none above
it has sent a start since) and the chip is exactly as far as that task (`InStep`); a task that was preempted
amid its bytes is not the sender and meets a chip that waits for a start or for another's
bytes. `LandsWhenAlone` adds what a lone writer has achieved at each stage (`Alone`) and that the chip is
not busy when it sends (`BusyInv`).

## 10. Pulse counters: `PulseStore`

| Code | Actions |
|---|---|
| `inputs_scan` and the EXTI interrupts | `Pulse(c)`: only the task, for channels from `FirstPolled`, sets `data_change` |
| `vSTORE_EEPTask` | `Look`, `StoreQuarter` (one byte), `ClearChange`, `Sleep` |
| a write to the input of a counter | `ClearCounter(c)`, `ClearQuarter` (one byte) |
| power failure and `EEP_Dat_Init` | `Outage` |

`NeverCountsExtra`: whatever is stored when the power fails, amid a store or amid a reset, the counter
read at start-up is not above the pulses there were. It rests on the order of the bytes, the
least significant first. `StoredInTheEnd`: what was counted is stored.

Two constants isolate defects. `CountsDuringStore`: may a counter change while its bytes are written?
In the code it may. With TRUE, run `pulses_lost`, the flag of the new pulse is cleared with that of
the old one and `StoredInTheEnd` fails; a carry between two bytes also stores a number that was never
counted. `FirstPolled` is 11 in the code: channels below it are counted in interrupts, set no flag, and
are never stored. With 0 there are none.

Counters of two digits to base 3 have a carry after three pulses; two channels tell one's flag
from the other's.

**Fairness**: the STORE_EEP task, and COMM while it clears a counter.

The bytes of a counter are kept as one number: byte `i` is `ByteOf(w, i)`, storing it is `WithByte`, and
`Place`, a constant, holds the weights `Base ^ i` (assumed by its recurrence, given to TLC as `Powers`).

**Proved** (`PulseStore_proofs`), for any channels, number of bytes, base and pulses: `PulsesTyped`
(`PulseTypeOK`) and `CountsNothingExtra` (`NeverCountsExtra`, if `~CountsDuringStore`). The invariant
`PulseInv` says how far a store or a reset has come: the stored number is never above the count, and what it
still lacks (in a reset, what is still left of it) is a multiple of the weight of the byte that is next,
so that each byte written leaves it where a cut does no harm. The lemmas on digits are
by induction over the bytes, in the form the provers can do: were there a byte that
breaks them, there would be a least one (`WFMin`).

Two things are one step in the model and more in the code: the increment of a counter, and the
clearing of an erased counter at start-up (`main.c:996-1003`), during which no second failure comes.

## 11. Settings: `Settings`

The serial number and the network address stand for all settings: two pieces each, stored
one after the other with a sleep in between. A job of a task (`comm`, `net`) holds what it has still
to store.

| Code | Actions |
|---|---|
| `EEP_Dat_Init` | `ReadGroup`: what is erased gets its default, which is stored |
| write-once serial number (`modbus_regOp.c:80`, guarded in `checkData`) | `WriteSerial`, `CommStore`, `LockSerial` |
| ghost settings, `write_ghost_system` | `WriteGhost`, `ApplyGhost`, `CommStore`, `CommDone` |
| factory reset (`modbus.c:240`) | `Erase`, `CommStore`, `Reload`, `Unlock`, `Unlocked` |
| address change over UDP | `ChangeAddress`, `NetStore` |
| `vNETTask` | `tapdev_init`, `Poll` with the delayed reset |
| power failure | `PowerFailure`, at any step |

`SerialWhole`: a locked serial number is one that was written, both pieces. `StoredIsLive`: with
both tasks at rest a restart would change nothing, whoever changed what before. `AddressWhole`:
the module comes up with an address somebody asked for. `AddressTakesEffect`: in the end the
network uses the address in the settings.

`AddressWhole` excuses a change that met another or a power failure (`disturbed`): there the
address may be mixed, and nothing in the code prevents it. Three constants isolate defects:
`FactoryResetAlone` (a change during the second a factory reset takes leaves old bytes among
erased ones), `ZeroByte = {}` (an address with a zero byte is used and not stored),
`Modes = {"static"}` (the address change sets `ip_mode` and does not store it). A new module's flag
reads 0xff, which locks the serial number: the first thing the factory does is the factory reset.

Four requests and one power failure: the factory reset, a serial number or a ghost address
written in its two pieces and applied, and one change from the other side.

**Fairness**: both tasks.

| Theorem of `Settings_proofs` | States | If |
|---|---|---|
| `SettingsTyped` | `SettingsSpec => []SettingsTypeOK` | |
| `AddressComesUpWhole` | `SettingsSpec => []AddressWhole` | |
| `RestIsStored` | `SettingsSpec => []StoredIsLive` | `AllStored`: `ZeroByte = {}`, `Modes = {"static"}` |
| `LockedIsWhole` | `SettingsSpec => []SerialWhole` | `SafeSerial`: `FactoryResetAlone`, no serial number reads as erased |

For any serial numbers and addresses, any number of requests and power failures. The conditions are the
defects named above, and TLC shows each to be needed; that no number reads as erased is how
`EEP_Dat_Init` tells a blank memory. The invariants say what of a job is still to do: `TInv` which pieces
the job of each task may hold, `StoredInv` that a piece differs between RAM and EEPROM only while some job
will store it, `NumberInv` that the flag is stored after both pieces, `AddressInv` that the
two pieces of the address are equal but for those still to do.

## 12. Modbus TCP: `TcpModbus`

`tcp_server_appcall` is called by `uip_process` for each segment, with flags. The model has both, for
the connections of this server: `NewConnection`, `Established`, `Finish`, `LastAck`,
`Aborted`, `OutOfOrder` and `NoConnection` are the paths through `uip_process`, in the order of its
tests. Clients are external: they connect from a new port each time, may send a request before the
last is answered, repeat a segment when nothing is on its way, close, abort or vanish.

`uip_periodic` is commented out (`USER/main.c:610`): uIP sends only in answer to a segment, repeats
nothing and gives up nothing. One buffer holds the reply to all.

`OwnReply`: nobody takes the reply to another, although all connections point to one buffer, with
segments lost and requests not waited for; it holds because a connection sends in the call that
fills the buffer. `WholeReply`: who waits for each reply takes the one to its last request, all
of it. `Served`: every client gets connected and answered.

What they leave out, and what happens then (`upset`): a request for another unit makes the server
send the buffer again, perhaps another client's reply; a lost reply is not repeated, and the next
is cut to its length; a client that asks again before the reply may get the older one. A function code that `responseCmd` does not know has the effect of a
request for another unit; requests in the model are known. A vanished client keeps its connection for
ever: `Served` assumes that fewer vanish than there are connections to spare (`Conns` 3, two
clients, one fault; the code has 40). A write over TCP passes no `checkData`, so
nothing there guards the write-once serial number.

**Fairness**: the NET task, clients' timers and taking of segments.

| Theorem of `TcpModbus_proofs` | States |
|---|---|
| `TcpTyped` | `TcpSpec => []TcpTypeOK` |
| `NobodyTakesAnothers` | `TcpSpec => []OwnReply` |
| `LastReplyIsWhole` | `TcpSpec => []WholeReply` |

For any number of clients, connections, requests and faults, with nothing but `TcpAssumption`.
`OwnInv` is that every segment on its way to a client carries its own reply or none. `WholeInv`
describes each conversation as a whole: client, connection, and the segments in both directions. As long as nothing
upset it, a client is calling (`Calling`: its connection is being set up), or it talks and the
two ends are in one of three states: nothing under way (`Idle`), a request on its way or to be repeated
(`Waiting`), a reply on its way (`Answered`). Each state fixes the sequence numbers at both ends
and which segments may still arrive, duplicates among them; and no client has two connections (`OneEach`). What a client has
sent and not seen acknowledged is a set of segments, told apart by their sequence numbers.

## 13. Outputs: `Outputs`

For the T3-8AI8AO6DO, which `define.h` does not select. Three tasks: KEY scans the switches
(`KEY_Status_Scan`, statement by statement, since the groups pass through zero); OUTPUTS drives
an output at a time, analog before digital; COMM sets a value and stores it (`SetOutput`,
`StoreOutput`, one byte). KEY and OUTPUTS have one priority and are sliced by the tick, COMM has a
higher one: both may run between any two steps of OUTPUTS.

OUTPUTS acts on a copy. `ReadSwitch` is the load of the group into `oneswitch_buf`
(`output.c:189`, 242), kept in `driving`; `Drive` is what follows from the copy (191-204, 244-251):
the timer and, for OFF and HAND, the value in use. `NotOne` is the first of the two questions to
`digit_output` in AUTO (248), after which COMM may change it: then the timer is left as it was.

`CommandKept`: a value that comes while an analog output is in AUTO, and is known to be, is not
overwritten until the switch is moved. Known (`KnownAuto`) is what KEY has scanned, the group, and the
copy, if OUTPUTS holds one of this output. What it does not cover, since the code does not keep
it there:

- OUTPUTS copies a group amid its update (`tears`): zero is OFF, and `output_refresh` writes
  it into the value in use (`key.c:103`);
- OUTPUTS still holds an OFF or HAND of before as the value comes (`output.c:189`): no group need be
  torn. Without the second half of `KnownAuto`, TLC finds it.

`StoredCommand`: start-up reads the last value asked for, whatever a
hand position made of the one in use. `OutputsFollow`: torn or late, the outputs agree with the
switches again and again.

One step each: the value is taken from the frame when it is set, and is that for both bytes
stored (the code reads the frame again, `modbus_regOp.c:276-277`; what comes of a frame that
changes in between is in `ModbusSerial`, section 4); start-up, which also writes zero over the
bytes of an erased output (`main.c:1026-1027`; the write-back at 1040 is for bytes above 1,
which this module never stores).

One analog and one digital output, one command, one turn of a switch, one tear, one crash. A byte
has three values and the limit is 6, so that of the commands 2 and 5 the second has a high byte
other than 0. With two commands the same properties were checked apart (1 M states). A value
above the limit, which is stored unlimited (`modbus_regOp.c:276`), is not among `Commands`.

**Fairness**: weak for KEY and for the store, strong for OUTPUTS: a copy that would be torn
waits in the model (`MaxTears`), so it is enabled again and again rather than always.

**Proved** (`InputsOutputs_proofs`), for any outputs, limit and commands: `OutputsTyped`
(`OutputsTypeOK`), `KeepsCommand` (`CommandKept`) and `LastCommandIsStored` (`StoredCommand`, if
`Commands` are within the limit: a value above it is limited in RAM and stored as it was). The type
invariant allows an output any value of two bytes, since start-up may read one that was stored
unlimited, or half of two. `AutoInv`: of an undisturbed output KEY has scanned AUTO, and so has OUTPUTS
if it holds a copy, so that the copy it makes next is AUTO too or ends `undisturbed`. `LastInv`:
outside a store, the two bytes read back as the last command; within one, the byte that is next is
all that is missing (`StoringWell`).

## 14. Inputs and ranges: `AnalogInputs`, `Ranges`

`AnalogInputs` is one input in the rounds of `inputs_scan`, step by step (`round`): the reading
(`ADC_getChannal`), then the count of falls (`Count`) or `filter_inputs` in 16 bits (`Word`,
`SignedWord`), rough in one step, fine in two: `FilterFine` makes the sum (`filter.c:189-190`),
`FilterDivide` the quotient (191). COMM has the priority of INPUTS and may write the range and the
weight between any two of them (`Set`).

`FilterBetween`: the average stays between what it was and the reading, also where the rough filter
meets the fine one and whenever the weight is written, but for one moment: the code loads the
weight for the product and again for the quotient. If it is written in between (`filter_value # factor`,
where `factor` is a history variable) the sum of one weight is divided by another; from 5 to 15 the
average drops to less than half, from 15 to 0 it leaves the 12 bits of a reading. Nothing is claimed
of that round, nor of those after it that begin beyond 12 bits; without either of these two excuses TLC
finds `FilterBetween` violated. `FilterSettles` has no such excuse: whatever became of the average,
it comes to rest at the reading, or below it by no more than the weight. `NoExtraPulses`: no more
pulses than falls, and one at power-up, also when the range is changed in between, amid a round or not.

Weights are 0, 5 and 15: from 16 on the product overflows for high readings and `FilterBetween` fails,
while start-up accepts 20 (`main.c:961`) and a write any weight. Levels 0 and 4095: on the way between
them the average passes from the rough filter to the fine one. 0, 90 and 4095, two of which are
less than 100 apart, were checked apart (548 k states). **Fairness**: the INPUTS task.

**Proved** (`InputsOutputs_proofs`), for any levels and number of rounds: `InputTyped` (`AnalogTypeOK`) and
`CountsFallsOnly` (`NoExtraPulses`) for every weight, and `FilterStaysBetween` (`FilterBetween`, with
the excuse above) for weights up to 15. `PulsesInv` counts the pulses that are due for falls already
read or not yet read; `SumInv` says that the sum is that of this average and this reading with `factor`,
so that a quotient by the same weight lies between them (`FineWithin`).

`Ranges` takes each range over all 1024 readings. `OneWay`: no thermistor shows more when the
reading rises, across the joints of its table, the sign at 0 C and the conversion to Fahrenheit, and
no other range but OFF_ON shows less. A reading beyond the table returns a variable that was
never set (`filter.c:70`): any of `Garbage`. Readings between 24 and 26 of 50 show 0 in both
ON_OFF and OFF_ON.

**One run.** `MCDevice` takes the parts of sections 9 to 14 one at a time: `part` is chosen at the
start, and each other part stays as it is at power-up. They share no variable, so nothing is lost
by it, and nothing is said of how they meet in time. `DeviceTypeOK` is the conjunction of the type
invariants of the parts, each of which but that of `Ranges` is a theorem about its part for all values.

## 15. What stays with TLC

- *Liveness*: `BusReleased`, `ReceiverRecovers`, `RequestServed`, `Settles`, `TokenReachesAll`,
  `StoredInTheEnd`, `AddressTakesEffect`, `Served`, `OutputsFollow`, `FilterSettles`. The provers here
  do not reason about `ENABLED`, hence not about fairness.
- *Tables*: `OneWay` and the types of `Ranges` are statements about the entries of given tables, over all
  1024 readings; the run goes through all of them, and there is no constant to generalise.
- What becomes of a ring after a frame came late (section 8): nothing is claimed.
- `DeviceTypeOK` is the conjunction of the type invariants of the parts in `MCDevice`. Each of them is proved in the
  module of its part, but for that of `Ranges`.
- The six runs that end in a violation.

## 16. Not modelled

- The contents of replies and the time in milliseconds.
- A change of protocol at run time, and the MS/TP branch of the USART interrupt, which only calls
  `FIFO_Put`.
- Two tasks that store at once, above the level of the bus (section 2).
- BACnet objects and services: encoding and look-ups that keep no state between requests but the
  packet of section 8.
- Control programs, the point-to-point link and the flash store: compiled without a caller, or in
  no project file.
- `RANGE/RANGE.C`: commented out. The customer tables.
- The LED task (display only), the RTD front end (another board, floating point).
- The vendored sources (FreeRTOS, the STM32 library, FATFS, uIP beside section 12), which are
  most of the repository, and `TemcoNepal/`, a near-copy.

`PROJECT.json` has the reason for each component that is `partly` modelled or not at all.
