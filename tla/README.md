# obdh2-sim: specification, model checking and proofs

`obdh2-sim` is the on-board computer application of a flat satellite: one Linux
process with five threads that talk to an EPS module over I2C, two TTC radios over
SPI and an EDC payload over I2C, and that write one log. This directory holds TLA+
modules for its control logic, TLC configurations that check them on small instances,
and TLAPS proofs for parameters of any size. Paths below are relative to the directory
that contains `src/`.

    tlasany M.tla                          parse
    tlc -workers 2 -config X.cfg MCM       check (the runs are listed below)
    tlapm M_proofs.tla                     check the proofs of a component

## 1. The system

| Component | Source | State it keeps | Operations | Talks to |
| :-- | :-- | :-- | :-- | :-- |
| Process, context | `src/src/main.c`, `src/include/system/context.h`, `src/services/obdh2-sim.service` | `ctx.cond.eclipsed`, `ctx.lock`, thread ids | zero the context, allocate the ids, start five threads, join them; the service manager restarts a process that has ended | every thread |
| Position thread | `src/src/threads/pos_det.c` | the orbital elements | parse two lines once; predict every period, publish the eclipse flag under `ctx.lock` | context, libpredict |
| Heater thread | `src/src/threads/control_heater.c` | none between passes | read the flag *without* `ctx.lock`, write two or four EPS registers | context, EPS device |
| EPS thread | `src/src/threads/read_eps.c` | a retry counter and a record | open, read a record of 46 registers, print it | EPS device |
| EPS device and driver | `src/src/devices/eps.c`, `src/src/drivers/sl_eps2*.c` | `eps_is_open` | register reads (an address message, 50 ms, a reply message) and writes, with CRC-8; readers and setters of one value | I2C |
| TTC thread | `src/src/threads/read_ttc.c` | two records | open, read and print, check failed packets; each for both radios | TTC device |
| TTC device and driver | `src/src/devices/ttc.c`, `src/src/drivers/sl_ttc2*.c` | two open flags, two configurations, `ttc_mutex` | register reads and writes, packets out and in: one or two SPI transfers inside the mutex | SPI |
| EDC thread | `src/src/threads/read_edc.c` | one package | once: set clock, resume decoder, read housekeeping, state and packages | payload |
| Payload, EDC driver | `src/src/devices/payload.c`, `src/src/drivers/edc*.c` | `active` in the context of the payload | commands and frames; a package is read, then removed with a command of its own | I2C |
| libmop | `src/subprojects/libmop/src` | the linked list of payloads | dispatch with NULL checks; add, remove, look up | payload |
| Log | `src/src/system/sys_log.c` | `log_mutex`, the file name | lock, open, print the parts of a line, close, unlock | every thread |
| libpredict | `src/subprojects/libpredict` | the orbital elements | parsing, choice of a model, dates, orbit propagation, eclipse | position thread |

What is hard here, and hardly reached by a test:

* threads read and write shared state (the flag, the bus, the log) in any order, with one lock taken on the writing side only;
* a register transaction is two messages or transfers, and nothing on I2C reserves the bus between them; a packet takes three sections of a mutex;
* every access to a device may fail, executed or not, and the code usually logs the failure and goes on;
* devices restart by themselves, and the process is restarted with a zeroed context while the devices keep their registers;
* the set-up of the process uses no result of the calls it makes;
* frames are laid out and taken apart by hand, in tables of registers, widths and offsets that must agree;
* counters, retry budgets and limits, and cached flags that are never taken back.

`PROJECT.json` lists each of these hazards at its line with the properties that guard it.

What makes each component correct: the heaters end up as the orbit asks, as long as the
log works, and are never switched on without an eclipse; the orbit is predicted from
elements that were read and from the time since their epoch; telemetry reported as read is
whole, of this cycle and, unless another message or a missed request came in between, of
the right register; the radios are served independently and a failing one is reset, as long
as the log works and `ioctl` returns 0; packets are delivered whole and in order; no package
of the EDC is printed twice, and what a fault may cost has a bound; the list is a registry
of what was added, as long as no listed handle with others behind it is added again; a log
line is whole, and the mutexes are given back unless `fopen` fails; the process does not end
while a thread runs, and one that has ended is started again. Where the code does less than
its documentation says, section 5 names it.

## 2. The modules

Threads and devices over time:

| Module | Models | State and actions against the code |
| :-- | :-- | :-- |
| `ObdhSystem` | `main`, its threads, the service manager, over the log | `at`/`next` walk the set-up, the creations and the joins of `main`; `place` is where each thread is; `LogCall`, `LogLock`, `LogInside` are the calls of `SysLog` (an INSTANCE); `Restart` is the service |
| `HeaterControl` | position thread, heater thread, EPS heater registers, process restart | `eclipsed` is `ctx->cond.eclipsed`; `PosPredict` and `PosPublish` split the computation of the flag from its store; `HeaterRead` is the unlocked read, `HeaterWrite`/`HeaterWriteFails` one `eps_set_param` each, in the order of `EclipsePlan` or `SunPlan`; `PosLog` and `HeaterLog` are the log calls before the store and before the first write, and `leaked` is a log that has kept its mutex |
| `PosDet` | position thread and what it uses of libpredict | `ParseField` is one field of `predict_parse_tle`, `ParseFails` its error path, `SelectModel` its end, `Pass` one `predict_orbit`; `elements` says of each field whether it was read; Julian dates are computed as the code computes them |
| `EpsRead` | EPS thread, device, driver | each I2C message is a step; `sel` is the register the module will answer for, which a heater write in between changes and a request that the EPS missed does not (`strayed` collects the fields of both); `data` says of every field where its content comes from; the thread waits for the log in `LogGaveUp` and `PrintRecord` |
| `SysLog` | the log | `pc` walks the statements of one call; `OpenFails` is the early return |
| `TtcDriver` | TTC driver | `Take` … `Give` is one section of `ttc_mutex`; `FirstDone`/`FirstFails`, `SecondRead`/`SecondSend` are the transfers; `reply` and `announced` are the radio's side; `Success` is what `ioctl` returns |
| `TtcPackets` | packets: `ttc_send`, `ttc_recv`, `ttc_avail` | one section of the mutex is one step (`TtcDriver` shows that it may be); `Avail`, `Length`, `Packet` are the sections of a reception, `Check`, `Transmit` those of a transmission; `fifo` is the radio's, `stale` the frame it would shift out again |
| `ReadTtc` | TTC thread and device | `at` is the register access the thread is at, `radio` the radio; `data` tells fields that were never written, are all ones, are of an earlier period or of this one; a step that logs sets `logging`, and goes on when the log call returns |
| `ReadEdc` | EDC thread, payload device, EDC driver | `GetPtt` and `PopPtt` are the two commands inside `edc_pl_read_data`; `fifo`, `decoding`, `clock` are the EDC; `owed` are the packages that reached its FIFO and that no reset discarded there; `logging` and `leaked` as above, `PrintPttFails` is a print whose log calls do not all get through |
| `PlList` | libmop list | `payload_list` and the `next` fields; one step per function; `ListSpec` calls them with any handle, a listed one included |
| `PlRegistry` | what `pl_list.h` promises | a sequence of payloads without clashes, each there until it is removed; the list takes its steps, and one more: `CutsTail` |

Frames, byte by byte:

| Module | Models | State and actions against the code |
| :-- | :-- | :-- |
| `Bytes` | CRC-8, XOR sums, words of four bytes, casts | a checksum is a recursive function over a sequence, with a table for one round; the table of the CRC is built from that of XOR, and that one from the eight bits |
| `TtcFrames` | registers of a radio: writers and readers of 8, 16 and 32 bits, the housekeeping record, the checks of a reply | one register is written, one read back, and the reply may be disturbed |
| `EpsFrames` | registers of the EPS: selectors, widths, modes, the record of 46 fields, the check of a reply | the same, and setters of a mode |
| `EdcPayload` | the eight functions of a payload, from the dispatch of libmop to the bytes on the bus and the EDC behind it | any function in any order on a handle that was registered or not; `bus` says how the call's accesses went |
| `Codecs` | the three in one specification | a behaviour is of one device |

`*_proofs` hold the theorems: one module per component, `Services_proofs` for the three
pieces that the threads call on, `SysLog`, `PosDet` and `PlList` (which is why the names of
the last two carry `Pos` and `List`), and `Frames_proofs` for what goes over the buses,
`TtcPackets` and `Codecs`. The other `MC*` modules give TLC its model values and small
sets. Operators under a comment `Mutation:` are plausible mistakes in the definition that
follows; nothing uses them. `PROJECT.json` names, for each property, one of them that the
property must refute, so that every property is known to be able to fail.

Data is abstracted to what the properties tell apart. In the modules of the first table a
frame is good, damaged, all zeros or an answer to another request; those of the second
compute its bytes, and show what the first assume of the checks (`RepliesTrusted`).
Formatting of log lines and delays are left out. `TypeOK` is the type invariant of each
module of the first table; no run checks it, the theorems `TypeCorrect`,
`LogTyped`, `PosTyped` and `ListTyped` state it for every value of the constants. Those
of the frame modules are parts of `CodecsInv`.

How the modules fit together: `ObdhSystem` contains `SysLog`; `Codecs` contains the
frame modules; `PlList` is mapped to `PlRegistry`. `TtcPackets` rests on `TtcDriver`
(sections of the mutex are not disturbed), `ReadEdc` on `EdcPayload` (a call that fails
leaves the EDC as it was, a lost acknowledgement apart), `HeaterControl` on `PosDet` (where
the flag comes from).

Points of the source that are easy to get wrong when reading it:

* `sl_eps2_read_data` makes 46 register reads and counts failures, it does not stop at the first one.
* While a heater is in automatic mode the EPS drives its duty cycle itself; in sunlight the thread writes duties only, so such a heater stays with the EPS. The heater properties therefore speak of manual mode.
* Lines to `stdout` go to a stream all threads share; lines to a file are flushed by the call that opened it. The time stamp is taken before the mutex.
* `sl_ttc2_check_device` returns 0 when the ID cannot be read at all (`sl_ttc2.c:83`).
* `read_edc_thread` has `return NULL` inside its loop, so it makes a single pass.
* `pthread_join` on the zero id of a thread that was not created is undefined: it may return or end the process (`JoinAbsent`).

## 3. The runs

| Run | States | Shows | Bounds, and why they are enough |
| :-- | --: | :-- | :-- |
| `obdh_system` | 23,907 | `main` does not leave its context while a thread may use it, and leaves it only without a position thread; a process that has ended is followed by another; passes end; one failed `fopen` ends the mission | 4 threads: the first joined, one that loops, the one that returns, and one joined after it; 3 failing allocations or creations; one log call per pass (two give 109,981 states and the same result). `CHECK_DEADLOCK FALSE`: after a leak nothing moves |
| `heater_control` | 126,604 | a clean pass achieves what it meant; heat needs an eclipse computed by this process; the mode precedes the duty; heaters follow a stable orbit in the end, in a process whose log works | 2 faults, 2 orbit changes, 1 process death: a pass has at most four writes, two faults hit both heaters or one write and one restart; one death separates a process that has seen an eclipse from one that has not. `CHECK_DEADLOCK FALSE`: after a leak both threads wait for the log |
| `pos_det` | 39,312 | a prediction reads only elements that were read, and is given the time that has passed since the epoch | seven years: first and last of the two digits, both sides of 1970 and of the century, leap years and others; the first day, the 60th and the last; periods at the limit of 225 minutes and below; any one field unreadable |
| `eps_read` | 374,600 | a record reported as read is whole; its fields are of their own registers, those apart whose transaction another message fell into or whose request the EPS missed; reporting does not stop before the log does | 3 registers (one never written by the heater thread), 2 retries: enough to exhaust either loop, to reuse the counter, and to have an undisturbed neighbour. `CHECK_DEADLOCK FALSE`: after a leak the thread waits for the log |
| `sys_log` | 1,184 | whole lines; the mutex is given back; one failed `fopen` stops every thread for ever | 3 threads: one inside, one waiting, one about to call. `CHECK_DEADLOCK FALSE`, as above |
| `ttc_driver` | 32,855 | success means the answer to this request; the mutex is given back | 2 callers, 1 radio, 1 register and the length register: the radios share only the mutex |
| `ttc_spi_status` | | *violation*: a completed transfer is reported as failed when `ioctl` returns a byte count | as above, `Success = 8` |
| `ttc_packets` | 1,253,021 | a reception gives one whole packet, in order; none is dropped; a radio with the wrong ID is given none | 2 callers, 3 packets shorter and longer than the reply of a register, a FIFO of 2, 1 fault; symmetry of the callers (no liveness is checked) |
| `read_ttc` | 880,648 | printed data of the right device is of this period; a healthy radio is never reset; as long as the log works and `ioctl` returns 0, one above the limit is reset in the end or recovers, and both are served whatever the other does | 2 radios, each the expected device or not; one register of each kind of reader; counter to 3 around the limit 2; 2 failing accesses. `CHECK_DEADLOCK FALSE`: after a leak the thread waits for the log |
| `read_edc` | 148,932 | packages printed once and in order across crashes; what a fault may cost; a fault-free pass prints all that was announced; the clock comes before the decoder | FIFO of 3, 6 packages (so it overflows), 3 faults, resets, crashes or failed `fopen`s. `CHECK_DEADLOCK FALSE`: the thread returns |
| `codecs` | 53,685 | what is written to a register is what its reader returns, at its width and from its own register; records have each register in its field; disturbed replies give no value; a payload call that returns `PL_OK` decoded what the EDC had or did what was asked, and one that failed changed nothing | three words with all bytes different, zero, and the highest byte set; a disturbance of each byte; every register, mode and function; two packages; frequencies of both signs; a temperature on either side of the wrap |
| `pl_list` | 9,591 | lookups find every handle on the list, whatever was added; call by call the list is the registry, except that adding a listed handle again cuts off those behind it | 5 handles, two of which clash by name and two by id; removal at head, middle and end |

The violation is recorded under `findings` in `PROJECT.json`, with the sentence of the header
it contradicts. It rests on the behaviour of the Linux
`spidev` driver, which returns the number of bytes transferred; with an `ioctl` that returns 0
the same property is proved (section 4), and that is what `read_ttc` assumes as well.

The two largest properties of the process meet in `obdh_system`: `LeakEndsMission` is what
`LeakIsFinal` of the log means for the mission, since `main` waits in `pthread_join` for
threads that wait for the log, and the service manager waits for `main`.

### Fairness

* `HeaterControl`, `EpsRead`, `ReadTtc`: weak fairness of the threads. They wait for transfers with a driver timeout, for delays and sleeps, and for the log. That a log call returns is what `PassesEnd` says of a log that no failed `fopen` has leaked; in these modules `LogLeaks` may leak it at any moment, and from then on a step that logs is disabled and fairness asks nothing of its thread. So each liveness property carries the exception in its formula: `EclipseHeats` and `SunCools` are about an orbit, a process and a log (`Working`) that stay as they are, `KeepsReporting` holds under `[]~leaked`, `FailingRadioReset` and `EveryRadioServed` under a log that is never leaked and `Success = 0`, an `ioctl` that returns 0 for a transfer that was done: with the byte count of `spidev` every access fails, and neither can hold. Faults are bounded otherwise, which is the usual "if the faults stop".
* `ReadEdc`: none, it checks no liveness.
* `SysLog`, `TtcDriver`: weak fairness of each step, none stronger for taking a mutex: a POSIX mutex need not be fair to a waiting thread, so no property there says that a given caller is served. `SectionsEnd` only needs the owner to go on.
* `ObdhSystem`: weak fairness of `main`, of the service manager and of each thread's steps, strong fairness of taking the log mutex. Between two passes a thread sleeps (the heater thread for most of 10 seconds, the others of a minute), so the mutex is free, with nobody about to take it, over and over for longer than it takes to wake a waiting thread; the weaker form would let the other threads take it at every such moment. Nothing makes a `fopen`, an allocation or a creation succeed or fail.
* Nothing is assumed of the environment: radios, packages, faults and restarts may or may not happen.

## 4. What is proved

All theorems hold for every value of the constants that the named assumptions of each
module allow (`HeaterBounds`, `EpsReadConstants`, `ReadEdcConstants`, ...). Each
component has the same argument: an inductive invariant (`IInv`, `PosInv`, `ListInv`,
`CodecsInv`),
which TLC checks first on the bounds above, that the initial states satisfy and every step
keeps, and the properties as its consequences.

* `ObdhSystem_proofs`: `TypeCorrect`, `ContextLives`, `FirstKeeps`, `LogExclusive`, for any number of threads of which any but the first may return. `LifeSoFar` relates where `main` is to how far each thread has come: before `next` in the creations every thread is born, before `next` in the joins every thread is over. It carries the argument that the join of a missing thread is only reached past the first one. The log's own invariant is carried along, as its steps are the threads'.
* `HeaterControl_proofs`: `TypeCorrect`, `PassEffect`, `EclipseNeeded`, `ModeFirst`. `PassTakesEffect` speaks of the end of a pass only; `DoneSoFar` says what a clean pass has achieved after each write, which is what the next write builds on. `DarkIsReal` follows the eclipse from the computed sample through the context to the pass, because the action property only sees the last hop. The type invariant is split into flags and counts, as one prover handles Boolean variables and the other arithmetic.
* `EpsRead_proofs`: `TypeCorrect`, `WholeRecord`, `OwnContent`, `OpenIsEps`, `BudgetKept`, for any number of registers and any budget a `uint8_t` holds. `FieldsSoFar` relates the counted errors to the fields that are fresh, `InFlight` the register the EPS will answer for to the one the reader asked for, as long as no other message and no missed request came in between (`OwnContent` speaks of the other fields only), and `LoopsOK` the shared counter to the loop it is in: it never wraps, because it is set again before the second loop and a loop is left when it reaches 0.
* `TtcDriver_proofs`: `TypeCorrect`, `Exclusive`, `NoDisturbance`, `OwnAnswer`, for any callers, radios and registers and whatever `ioctl` returns. The three properties are inductive together: exclusion keeps what the radio holds for a caller undisturbed, and that makes an accepted reply the caller's own.
* `ReadTtc_proofs`: `TypeCorrect`, `FreshPrinted`, `OpenedOnceRight`, `HealthyKept`, for any number of radios, registers and faults. `FreshPrinted` speaks of the device with the expected ID: what is printed of another one is left from earlier periods, or undefined. `OpeningSoFar` and `FieldsSoFar` say what the calls have done so far for the radio at hand; `HighSoFar` ties the counter to the history that `HealthyRadioKept` speaks of.
* `ReadEdc_proofs`: `TypeCorrect`, `InOrder`, `OneLossEach`, `AllPrinted`, `ClockFirst`, for any depth of the FIFO and any number of packages and faults. `QueueSoFar` and `InHand` keep the printed packages before the one in hand, and that one not behind the FIFO. `OneLossEach` counts the packages that reached the FIFO and are gone, those apart that a reset finds there, which can be as many as the FIFO is deep. Of the others each failed transfer, reset or crash costs at most one, and each failed `fopen` two: the package it was printing and the next one, which is removed before the thread waits for the log. `LossSoFar` is the delicate part: a reset between reading and removing makes the thread remove another package than the one it prints, a loss without a fault in that step; `Spare` shows that the reset, or the leak, has paid for it.
* `Frames_proofs`, packets: `TypeCorrect`, `WholePackets`, `NothingDropped`, `WrongIdSilent`, for any callers, lengths and numbers of packets, any depth of the FIFO and any number of faults. `FifoInOrder` keeps the packets in the FIFO behind every packet that was given out; `OldReply` is what makes a reply that is shifted out a second time harmless: it still tells the first packet's length, because a packet taken in the meantime would have replaced it; `KnowsFirst` follows that length from the section that reads it to the one that takes the packet, and excepts a caller that another one has overtaken; `KnowsId` follows the ID to the transmission.
* `Frames_proofs`, the frames: `RadioValues`, `EpsValues`, `RepliesTrusted`, `EdcDecoded`, `EdcArrives`, `EdcHarmless`, for any words, masks, temperatures and packages, and any carrier frequency whose product with 128 is an `int32_t`.
  - The checksums: a round that hears both of its operands (`Sensitive`: it is injective in each) makes a checksum in which one wrong byte is never undone (`OneByteSeen`). The round of the XOR sum is that; so is the round of the CRC-8, because a shift of its register by the odd polynomial loses nothing (`ShiftInj`), and eight of them neither. Hence no frame with one wrong byte is taken, of any length and for any mask. Zeros have a right CRC; the radio's preamble, command and register are what refuses them and other replies.
  - The registers: `RadioSizes` compares the three lists of the TTC driver with one another, register by register, and `WordOps` says that what is laid into the four data bytes at a width comes out of them at that width. `EpsDataReads` walks the ten groups of the 46 calls of `sl_eps2_read_data`.
  - The EDC: `StateFrameIs`, `PttFrameIs`, `HkFrameIs` give the place of each field in a frame, `StateDecoded`, `PttDecoded`, `HkDecoded` take it out again, through `int32_t`, `int8_t` and the division that cuts towards 0. `EdcDecoded` says exactly what `temp` and `user_msg` become, the wrap from the byte 168 on (`Celsius`) and the checksum behind the message included. `AcceptedIsSent` is what a read rests on: the frame that is accepted is the one of the kind that was asked for, undisturbed; an EDC without packages answers with bytes of 255, and no wrong byte makes a package of them (`NoPackage`). `MinusPlus` is the arithmetic of `PAYLOAD_UNIX_TO_J2000_EPOCH` modulo 2^32, with borrow and carry between the halves.
* `Services_proofs`, the log: `LogTyped`, `Exclusive`, `WholeLines`, `LeakFinal`, for any set of threads. The invariant is `LockOwned` (the mutex has an owner exactly while a thread is inside, or for ever after a leak) with `LinesWhole`.
* `Services_proofs`, the prediction: `PosTyped`, `ElementsRead`, `ElapsedRight`, for all years from 1957 to 2056 (those that `FullYear` names with two digits), any periods and margins. `ParsedSoFar` says that every field before the one being parsed was read, the second derivative apart, whose error the code loses (`orbit.c:432`); `Settled` that elements are returned only after the last field, with one model initialised. `ElapsedRight` compares the Julian dates of the code with a calendar that counts from year to year: `NewYears` is its closed form, and `JulianYear` says that the code's formula has the same leap years.
* `Services_proofs`, the list: `ListTyped`, `ListIsRegistry` (every step of the list is one of `PlRegistry` or `CutsTail`), `UncutIsRegistry` (a list that never takes the latter implements `PlRegistry`), `ListedAreFound`, for any finite set of handles. The invariant says that the links form a `Path` from the head through handles that do not clash. `PathIsWalk` is the lemma that carries the rest: such a path is all that `for_each_payload` meets, so it is enough to name, for every addition and removal, the path that the links form afterwards.

What a recursive function computes (the calendar, the walk, a checksum) is proved without induction
over data: `Least` gives, from the well-foundedness of `<`, the first argument for which a
claim would be false, and the equation of the function leads from its predecessor, for
which the claim holds, to a contradiction.

`Exclusive` and `NoDisturbance` of the mutexes, `OpenIsEps`, `BudgetKept`,
`OpenedOnceRight`, `LogExclusive` and the type theorems state invariants that no
run repeats; the others are in both.

Only model-checked: liveness everywhere, which is out of the prover's reach. Every
invariant that a run checks has its theorem.

## 5. What the models say of the code

Read while modelling, and part of the modules as they are. The first five disagree with a comment
or a header; the first has a run that shows it, the others are part of the property or the
definition named:

* `ioctl` of `spidev` returns a byte count, and the callers take all but 0 for a failure (`ttc_spi_status`).
* `ttc_check_failed_pkts` resets a radio at the limit (`ttc.c:418`), the header says above it (`ttc.h:214`): `FailingRadioReset` asks for a reset above it only, `HealthyRadioKept` forbids one below it, and at the limit neither says anything.
* Adding a payload that is in the list drops those behind it (`pl_list.c:19`), where `pl_list.h:12` knows additions only. `PlRegistry` keeps to the header; `ImplementsRegistry` allows the list this one step besides the registry's and says what it takes (`CutsTail`), and `UncutIsRegistry` that without it the list implements the registry. The program registers one payload once.
* The temperature of the EDC wraps from 128 degrees Celsius on (`edc.c:465`), where `edc.h:332` says 40 less than the byte: `Celsius` in `EdcOkMeansDecoded` is exact on both sides of the wrap.
* 225 minutes are deep space for the code (`orbit.c:500`) and not for the comment above it (`orbit.c:473`); the headers of the two models leave them out of both. `ModelFor` has what the code does, and no property says which is right.

The others:

* A radio that fails its check leaves the record as it was and `ttc_get_data` returns 0 (`ttc.c:226`, `ttc.h:120`): `PrintedFresh` is about the right device.
* One lost answer to the ID is enough to open a radio that is another device (`sl_ttc2.c:83`), or to transmit through one: `OpenedRight` and `WrongRadioSilent` have that exception.
* The decoder of the EDC is resumed although its clock could not be set (`read_edc.c:99`, `edc.h:308`): `DecodingHasClock` excepts it. The clock comes from `CLOCK_MONOTONIC` (`read_edc.c:89`), which counts from boot (`edc.h:49`).
* `DayNum` lacks the shift of the months and is short of some 360 days, and `predict_decayed` compares days since 1979 with a Julian date; the thread ignores the result, so that `TsinceIsElapsed` is untouched.
* A process whose position thread could not be created and that survives the join goes on without one; without elements the thread publishes the initial value of its flag.
* The reply of the EPS is not compared with the request, only its CRC is (`sl_eps2.c:133`): when the EPS acknowledges a request without acting on it, or a heater write comes in between, a field of a record that is reported as whole may be another register's. `OwnRegister` names these two cases and shows that there is no other.
* One failed `fopen` (`sys_log.c:36`) stops heater control, telemetry and the radios of a process for good, since each pass of their threads logs: heaters stay as they are, on or off. All liveness of these threads excepts it.
* A reset of the EDC empties its FIFO of up to 64 packages (`edc.h:286`), and the thread, which reads once, neither notices nor counts them: `LossPerTrouble` leaves them out.
* A failed `fopen` while a package is printed loses that package, and the next one is removed before the thread waits for the log (`read_edc.c:46`).
* A failing removal of a package comes after the data was written to the caller's buffer; the return value tells.
* The functions of libmop return a positive `INVALID_ARG` for a missing pointer and negative errors otherwise.
* The user message of a package is copied with the checksum behind it, as its 36th byte (`edc.c:428`); `payload_init` ignores the checksum of the state frame; the telemetry report prints one panel twice, Kelvin as °C, and lacks an argument; comments of `sl_eps2.h` on the current registers contradict their names.

## 6. What is not modelled

* SGP4, SDP4 and the position of the Sun: floating-point formulas without a finite abstraction that would say anything about them. The flag is arbitrary in `HeaterControl`, and `PosDet` checks what the formulas are given. Observers, the Moon and compact elements have no caller.
* Packets and frames beyond the buffers (`sl_ttc2.c:775`, `sl_ttc2.c:804`), carrier frequencies of 2^24 and more (`edc.c`): undefined behaviour with nothing to compare it to. No thread sends or receives packets.
* The ADC sequence and the echo of the EDC, which have no caller; UART and GPIO, which are stubs that return 0.
* Formatting of printed telemetry, the time stamps of the log (they are taken before the mutex, so lines and stamps may be in different orders; nothing promises otherwise).
* Periods as time: that a period overruns, and `clock_nanosleep` on an absolute time that has passed.
* Object lifetimes: the payload list keeps a pointer to a local variable of `read_edc_thread` after that returned (`read_edc.c:144`); no other thread uses the list.
* `ttc_mutex` and `ctx.lock` in `ObdhSystem`: each is taken by one thread only, and released in the same function.
* Build files.

## 7. Plan

Done, in order of importance: `HeaterControl`, `EpsRead`, `SysLog`, `TtcDriver`, `ReadTtc`,
`ReadEdc`, `PlList` with `PlRegistry`; then `ObdhSystem`, `TtcPackets`, the frames
(`Bytes`, `TtcFrames`, `EpsFrames`, `EdcPayload`) and `PosDet`; proofs of all of them,
with the refinement of `PlRegistry`, the calendar and the checksums.

Next:

1. An abstract specification of the telemetry readers ("a report is a whole snapshot or is marked as failed") that `EpsRead` and `ReadTtc` implement, and one of a lock for `SysLog` and `TtcDriver`.
2. Periods as time: overruns of the one-minute loops.
