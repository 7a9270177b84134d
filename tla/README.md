# A formal model of rf-ctrl

rf-ctrl sends commands to 433 MHz receivers (blinds, sockets, lights) through a
USB dongle, a GPIO or a sound card. It is a small single-shot C program, and
most of what can go wrong in it happens between things: an option and the
one after it, one protocol of a scan and the next, two invocations, two
threads, a failure and the steps after it. This directory models these in
TLA+, model-checks them with TLC and proves part of the results with TLAPS.

Paths below are relative to the repository, where they start with `src/`.

## 1. Inventory

### Components, their state and their operations

| Component | Source | State it keeps | Operations |
|---|---|---|---|
| Settings | `rf-ctrl.c` `parse_config_file()`, `main()` to line 782; `rf-ctrl.conf` | the locals of `main()`, `provided_params`, `needed_params`, `raw_fallback_accuracy`, `hw_params` | one per configuration field, one per option, end of file, end of options |
| Invocation | `rf-ctrl.c` `send_cmd()`, `main()` from line 784 | current driver, what its `init()` holds, the loop variables and last codes of the scan, `frame_count` of each protocol's timings | select or probe the driver, start it, send one command, scan, close |
| Protocol encoders | `otax.c`, `dio.c`, `home-easy.c`, `idk.c`, `sumtech.c`, `auchan.c`, `auchan2.c`, `somfy.c`, `blyss.c` | constant timings and maxima | `format_cmd` packs codes and a command into a frame |
| RAW fallback | `rf-ctrl.c` `gcd()`, `find_best_base_time()`; `raw.c` | none between calls: base time, durations in periods, length and content of a frame | find the base time, count, check, write |
| Rolling-code storage | `somfy.c`, `blyss.c` `*_format_cmd()`; `rf-ctrl.c` `get_storage_path()` | a directory, and in it one file per remote and device code | make the directory, open or create, read, write the successor, send |
| HID device | `hid-libusb.c` | `hid_device`: transfer, read thread, barrier, `shutdown_thread`, input reports, libusb handle | `hid_open()`, `hid_write()`, `hid_close()`, `read_thread()`, `read_callback()` |
| HE853 driver | `he853.c` | the open device; in the dongle, four registers | `init`, `send_cmd` (five reports, each tried up to five times), `close` |
| SYSFS GPIO driver | `sysfs-gpio.c` | in the kernel: GPIO exported, direction, level; the open `value` file | `init`, `send_cmd` stroke by stroke, `close` |
| OOK-GPIO driver | `ook-gpio.c` | in the kernel module: the timings | `send_cmd`: write the timings, write the frame |
| ALSA driver | `alsa.c` | the sample rate, kept between commands; in the library, the card | `init`, `send_cmd` (convert, configure, play), `close` |
| Dummy driver | `dummy.c` | none | prints |

### How they interact

    rf-ctrl.conf, argv ──> Settings ──provided_params, codes, hw_params──> Invocation
                                                                             │
           ┌──────────── format_cmd() ───────────────────────────────────────┤
           v                                                                 │
     protocol encoder ──> rolling-code file (somfy, blyss)                   │
           │ frame, timings                                                  │
           v                                                                 │
     RAW fallback (driver does not know the format, or -R) <─────────────────┤
           │                                                                 │
           v                                                                 │
     driver: probe(), init(), send_cmd(), close() <──────────────────────────┘
       HE853 ──> hid_write() ──> libusb <── read thread
       SYSFS ──> /sys/class/gpio (shared with every other process)
       OOK-GPIO ──> timings, then frame, of the kernel module (shared as well)
       ALSA ──> samples ──> sound library and card

Calls are synchronous, with two exceptions. The HID device has a read thread,
with which it shares the `hid_device` and whose callback runs in whichever
thread handles libusb's events. And the rolling-code files, the GPIO and
the ook-gpio kernel module are shared with other invocations of rf-ctrl
without a lock.

### What is hard here, and what makes each part correct

* **Settings.** `-p`, `-s` and their repetitions each narrow
  `needed_params`, in any order, after the configuration file has set some of
  the same values. Correct when everything `main()` goes on to use has been
  set (`DefinedArgs`, `NeededWereProvided`), whatever the order.
* **Invocation.** Loop bounds and frame counts survive from one protocol of a
  scan to the next; loops are inclusive over `uint32_t`; every driver entry
  point may fail. Correct when a scan is complete (`ScanCovers`) and no more
  than that (`ForcedValues`), ends (`Terminates`), uses the number of frames
  asked for (`FramesForced`), only sends formats the driver has
  (`OnAirFormat`), gives back what it acquired (`ClosedAtExit`) and exits with
  0 only when the driver was handed the command asked for
  (`SuccessMeansSent`). Whether it was also transmitted, the exit status only
  says for drivers that look at all their results: alsa, ook-gpio and
  sysfs-gpio return 0 after a lost write.
* **Encoders.** Nine hand-written packings of bits, with checksums, Manchester
  code, a chained obfuscation and tables. They get whatever `uint32_t` was
  typed: the maxima of the tables bound the loops of a scan and check nothing.
  Correct when a receiver that only knows the format recovers the command and
  the low bits of the codes, as many as the format has room for, from the bits
  that count, and no bit too many has disturbed another field
  (`TransmitsWhatIsMeant`).
* **RAW fallback.** Euclid's algorithm with a tolerance; durations truncated to
  whole periods in eight bits; a length computed apart from the writing.
  Correct when nothing is divided by zero and the length checked against the
  buffer is the one written (`ConversionSafe`), no error allowed means no error
  made (`ExactIsGcd`), every level of the original is still there, no new one
  is, and a 0 differs from a 1, wherever no duration is lost in the division or
  overflows its byte (`SameShape`), and the compiled timings are such, and make
  no frame longer than a driver can take (`SuitsDrivers`).
* **Rolling codes.** A receiver ignores old codes. Correct when codes are sent
  in order, through kills, lost writes and failing drivers (`SendsSuccessor`,
  `ImplementsCounter`), and an index read from a file is an index of the table
  (`IndexInBounds`).
* **HID device.** Two threads, two cancellations of one transfer, a callback
  that resubmits it, time-outs, a dongle pulled out. Correct when the transfer
  exists when used and is not live when freed (`TransferExists`,
  `FreedQuiescent`), nothing waits for ever (`OpenReturns`, `CloseReturns`, no
  deadlock), the queue is bounded and no handle is left (`QueueBounded`,
  `NoHandleLeft`).
* **HE853.** A report that failed may have been delivered, and is repeated.
  Correct when what is transmitted is one command's (`TransmitsFrame`), no more
  often than attempts were made (`BoundedRepeats`), success is true
  (`SuccessMeansTransmitted`), and the bytes in the dongle mean the timings
  and bits of the frame (`DongleUnderstands`).
* **SYSFS GPIO.** Zero durations are skipped, and a RAW level is only written
  when it changes; any write may be lost, since no result is looked at. Correct
  when the signal is the one the timings describe (`SignalAsConfigured`) and
  the transmitter is off afterwards (`OffWhenGivenBack`), both of an invocation
  that had the GPIO to itself and lost no write, and the GPIO is released
  (`ReleasedInTheEnd`).
* **OOK-GPIO.** Timings and frame are handed over in two writes that may get
  lost, with another invocation between them; the text of a frame is printed
  into a string whose size is an estimate. Correct when what is transmitted
  for an undisturbed invocation is what it means (`TransmitsWhatIsMeant`) and
  the text fits (`FrameTextFits`, and `SuitsDrivers` for RAW frames).
* **ALSA.** Samples are made before the card tells its rate. Correct when no
  sample is outside the array (`SamplesInBounds`), no bit is shorter than a
  sample (`SuitsDrivers`) and each lasts as long as it should once the rate is
  known (`PlayedOnTime`).

The full list, line by line, is under "hazards" in `PROJECT.json`.

## 2. Modules

| Module | Models | Correspondence |
|---|---|---|
| `Options` | settings | `phase` is the place in `main()`; `opt` the record of its locals; `opt.provided` and `opt.needed` are the bit masks as sets. One action per field (`ConfigGpio`...) and per option (`OptProtocol`...). `asked` is history. |
| `RfCtrl` | invocation; extends `Options` | `SelectDriver`, `InitDriver`, `SendSingle`, then the three loops: `EnterProtocol` is the head of the outer loop, `ScanSend` one turn of the innermost with the tests that follow it, `LeaveScan` and `CloseDriver` the way out. `handed` is what `send_cmd()` passed to the driver, `whole` unless its conversion had failed; `air` is what the driver transmitted: the same, part of it, or nothing, which the drivers of `MayLose` do not notice. |
| `Encoders` | the nine `format_cmd()`s | one operator each, from codes and raw command to the bytes of the frame, which are then its bits; `FormatCmd` dispatches. The rolling code is an argument. |
| `Protocols` | the drivers' tables | timings and maxima as compiled; extends `Encoders`. |
| `Receivers` | nobody's code | the decoding of each format, written from the formats' comments: what `Encoders` is compared with (`Carries`). `CodeBits` is the room each format has for the codes, `Carried` what is left of a command in it. |
| `Ook` | timing configurations and what they mean | `IdealFrame`: the levels and durations `README.md` describes. Reference for `RawFrame`, `SysfsGpio` and `OokGpio`. |
| `RawFrame` | RAW fallback | `FindBaseTime`, `Lengths`, `Estimate`, `Write`: the four stages of the computation. A frame is a list of runs of equal bits. |
| `Alsa` | the ALSA driver; extends `RawFrame` | `Convert`, `Configure`, `Play` are the three functions of `alsa_send_cmd()`; `NextCommand` is a scan. `samplerate` is the source's static variable, `card` what the card does. |
| `OokGpio` | the OOK-GPIO driver and the kernel module | `Format`, `SetTimings`, `SendFrame`, of any number of processes; `timings` is the kernel's, `sent` what it transmitted. Extends `Protocols` and `Receivers`. |
| `OokGpioText` | the text of a frame | its size and that of the string it is printed to. |
| `RollingCode` | the storage files | `pc` is the place of each process in `format_cmd()`: `StoragePath` makes the directory, then one action per call on the file, `Kill` anywhere. `disturbed` is history: files two processes met at, or lost a write of. |
| `RollingCounter` | what the files promise | per file a counter whose next value is taken at once. `RollingCode` implements it (`ImplementsCounter`). |
| `HidDevice` | the HID device, with libusb | `main` and `reader` are the places of the two threads; `xfer`, `status` the transfer; `cb` the thread inside the callback; `list` is `hid_enumerate()`'s. |
| `He853` | the HE853 driver and the dongle | `step` is the report being sent, `retry_count` the source's; `register` and `executed` are the dongle's. A frame is one value. |
| `He853Reports` | the bytes of the reports | `Report` is what fills the registers; `Understands` reads them back. |
| `He853Dongle` | the dongle, with its bytes; extends `He853` and `He853Reports` | `Content` says what each frame is; `Written` is what the registers hold. |
| `SysfsGpio` | the SYSFS driver and the kernel's GPIO | `Strokes` is the list of level changes and sleeps of `send_cmd`; `pos` how many are done; `wave` what the line did; `lost` is history: who has lost a write. |

How they compose: `OokGpio` takes the frames of `Encoders` through the driver to
`Receivers`; `MCRawFrame` takes them through `RawFrame` to `Alsa` and to
`OokGpioText`; `MCHe853` puts them behind the frames of `He853` by way of
`He853Dongle`; `RfCtrl` runs on the arguments `Options` accepts.

`MCRfCtrl`, `MCRollingCode`, `MCSysfsGpio`, `MCRawFrame`, `MCOokGpio` and `MCHe853`
give the constants that are functions or tables their values. `RfCtrlProofs`,
`RollingCodeProofs`, `HidDeviceProofs`, `He853Proofs`, `OokGpioProofs`,
`SysfsGpioProofs` and `RawFrameProofs` (which is about `Alsa` too) hold the
theorems; the lemmas about sequences, sums, recursive functions and division
that several of them need are in `Lemmas`.

An operator marked `\* mutant` is a plausible bug: the definition below it
replaced by the mutant makes the run named in `PROJECT.json` fail.

## 3. What the runs check

| Run | Configuration | What it shows |
|---|---|---|
| `invocation` | `MCRfCtrl.cfg` | nine invariants and termination of whole invocations, from the configuration file to the exit |
| `scan_stale_remote` | `MCRfCtrl_scan.cfg` | *violated*: `ScanWithinMaxima` |
| `rolling` | `MCRollingCode.cfg` | two invocations on two files, overlapping, killed, losing writes: indices in bounds; codes in order and the abstract counter implemented wherever nothing was disturbed |
| `rolling_overlap` | `MCRollingCode_overlap.cfg` | *violated*: `CurrentCodeIsOwn` |
| `hid` | `HidDevice.cfg` | both threads, libusb and disconnections: safety, no deadlock, open and close return |
| `hid_free` | `HidDevice_free.cfg` | *violated*: `TransferIdleAtFree` |
| `he853` | `MCHe853.cfg` | commands over a faulty connection, down to the bytes in the dongle |
| `he853_stale` | `He853_stale.cfg` | *violated*: `NothingStaleTransmitted` |
| `sysfs` | `MCSysfsGpio.cfg` | signal, level and export of a GPIO used by two invocations |
| `ook_gpio` | `MCOokGpio.cfg` | every command of every protocol from the codes to a receiver and back, through a kernel module two invocations use |
| `raw_frame` | `MCRawFrame.cfg` | all protocols' frames converted at all accuracies, printed for ook-gpio and played by ALSA |
| `raw_accuracy` | `MCRawFrame_accuracy.cfg` | *violated*: `HighAccuracyKeepsShape` |

### Bounds, and why they are enough

* `invocation`: three protocols, one of each kind the code tells apart (both
  codes needed, no remote code, RAW), in an order in which a stale bound shows;
  three drivers (HL only and probed; all formats and a GPIO; RAW only); codes
  of two bits, 3 standing for `0xFFFFFFFF`, with maxima below it as the real
  ones are; arguments on both sides of each test, among them `-n` with 0, 2
  and 256, which is stored as 0. The drivers like sysfs-gpio and alsa may lose
  what they are handed (`MayLose`). Options may come any number
  of times in any order: the state is finite because the parser only
  accumulates. The proofs cover the rest.
* `rolling`: two processes and two files, enough to overlap on one and to work
  side by side; a modulus of 3, of which `fscanf()` may read two values more; at
  most `MaxLost` = 2 codes lost in a row. `rolling_overlap`: Blyss's modulus, 5.
  The proofs cover every modulus.
* `hid`: `QueueLimit` is 2 in place of 30. A device may be opened, closed and
  pulled out again and again.
* `he853`: one frame of each of the dongle's five protocols, any of which may
  follow any other, and one that is refused; the source's five attempts.
* `sysfs`: two processes; all frames of one and two bits, and two of three with
  a bit repeated, which include each change of level between bits; a
  configuration per format with a zero duration in each place the compiled ones
  have one; two or three repetitions; any write of a direction or a level lost.
* `ook_gpio`: nothing is scaled. For every protocol: every command and one it
  does not know, with remote and device codes that have no bit, every bit, one
  bit or all but one, so that a bit lost or misplaced makes two of them alike,
  and with codes that have bits above those the format has room for, up to
  2^31 - 1, the largest number TLC has.
  One process of two has such a command; overlapping ones are one command per
  protocol, since the interleaving does not depend on the codes. The proofs
  cover every other code, every rolling code and any number of processes.
* `raw_frame`: nothing is scaled. The timings are the compiled ones, in
  microseconds, and the frames are made by the encoders from the smallest
  codes, the largest and a pair between; every accuracy from 0 to 104, and 150,
  200 and 255, which the configuration file lets through. What becomes of a
  floating-point number that does not fit its target is undefined in C:
  `Lengths` chooses between two outcomes seen in practice. Cards play at 44100,
  48000 or 96000 Hz; a scan is two commands (`MaxCommands`), the one before the
  rate is known and one after.

`CHECK_DEADLOCK FALSE` stands where the system really stops: an invocation
ends (`MCRfCtrl`, `MCSysfsGpio`, `MCOokGpio`), all commands have been played or the
conversion failed (`MCRawFrame`), and in
`MCRollingCode` the bound on lost codes is reached. `HidDevice` and `He853`
are checked for deadlock.

### Fairness

* `RfCtrl`: weak fairness of `Run`, every step after the arguments are parsed.
  The program is sequential and drivers return. Nothing is assumed of the
  user, who may never finish the command line.
* `HidDevice`: weak fairness of each thread's own steps: both are scheduled.
  Strong fairness of the returns of `libusb_handle_events()` and of
  `hid_write()`: each handles events in between, so that the return is enabled
  again and again rather than always, and each has a time-out (60 s, 1 s). Of
  the device, which need not answer, and of the time-out of the transfer no
  fairness is assumed: `hid_close()` must return without them.

### What the violated runs show

* `ScanWithinMaxima`: `remote_code_last` keeps the value of the protocol before
  when a protocol has no remote code (`rf-ctrl.c:842`). A scan sends every
  Home Easy command once per remote code of DI-O, the protocol before it.
  Nothing is missed (`ScanCovers` is proved), but the scan takes 2^26 times as long.
* `CurrentCodeIsOwn`: two overlapping invocations read the same rolling code
  (`somfy.c:139`); the receiver ignores the second.
* `TransferIdleAtFree`: `hid_close()` cancels the transfer before the read
  thread does; the thread's own cancellation then fails, and it ends without
  waiting for the first to complete (`hid-libusb.c:716`). The transfer is freed
  while libusb still has it. `FreedQuiescent` is what does hold.
* `NothingStaleTransmitted`: `he853_configure()` joins results that are -1 or
  positive with `&&` (`he853.c:302`), so no failure is ever seen, and the
  dongle transmits registers of two commands.
* `HighAccuracyKeepsShape`: above an accuracy of 90 the base time is so small
  for some protocols that long markers overflow the eight bits they are
  counted in (`raw.c:87`): at 94, the 9000 us after a frame of dio are 450
  periods of 20 us. More accuracy then makes the signal wrong.
  `SameShape` is what does hold, under a condition on timings and base time
  (`DurationsKept`) that the compiled timings meet at accuracies from 6 to 90
  (`SuitsDrivers`).

Behaviour met while modelling, for which there is no run because no text of
the repository says otherwise; the models do as the code does: an accuracy
over 100 is kept when it comes from the configuration file (`rf-ctrl.c:367`);
a GPIO number is stored modulo 256; no code is compared with the maxima of its
protocol (`rf-ctrl.c:683-691`) and the encoders cut off what is too much, so that
`-r 32` is `-r 0` to otax, without a message; with several `-p` only
what all of them need is required; a scan with `-r` or `-d 0xFFFFFFFF` never
ends; the ones of a frame are counted from the low end of its last byte
(`raw.c:99`) and written from the high end (`raw.c:73`), so that the length
checked against the buffer for the 57 bits of a Home Easy frame is up to four
periods less than the one written, which still fits (`LengthAsChecked` says
where the two agree, `SuitsDrivers` that every length is within the buffer);
the first command ALSA plays is too fast or too slow on a card without 48000 Hz
(`alsa.c:209`), and a write error of the card counts as success (`alsa.c:195`),
as does a lost write of ook-gpio and sysfs-gpio; two remote codes that share
their low bits share a receiver but not a file.

Two texts of the repository say something else than the code does, and the
runs, which do as the code does, pass: they are findings all the same.

* `FramesForced`: `-n 0` overrides nothing (`rf-ctrl.c:838` asks for more than
  0), where the usage text offers 0 to 255 (`rf-ctrl.c:557`).
* `QueueBounded`: the report queue holds up to 32 reports, two above the limit,
  where the comment says 30 (`hid-libusb.c:650`).

## 4. What is proved

All for every value of the constants, under the assumptions the modules name:
the tables are functions of the right types, every protocol needs at least a
command, there are fewer protocols than a `uint32_t` counts, a driver that does
not send RAW refuses formats it does not know (true of he853, the only one),
`M` is positive, and rolling codes are within the range of their file
(`CommandsAssumption`: what `IndicesSafe` proves of the files). Remote and
device codes are any naturals.

* **`OptionsSafe`** (`RfCtrlProofs`). The invariant says what
  `needed` is at every moment: after `-s` just the command; otherwise what all
  the protocols asked for need, with "protocol" itself until one was given.
  The properties themselves only speak of the end of parsing and are not
  inductive.
* **`RfCtrlProofs`**. `Invariance` proves one inductive invariant, from which
  all properties of the run `invocation` but termination follow, a theorem for
  each, and that no driver is started without the parameters it needs
  (`DriverStartedWithParams`). Its parts: what each phase relies on
  (`PhaseInv`); the loops of the scan (`ScanInv`: all protocols before `i` are
  done, for `i` all remote codes before `j`, for `j` all device codes before
  `k`), which is what makes `ScanCovers` inductive, and which survives a loop
  that wraps around; what was handed to the driver and what went to the air
  (`AirInv`); the current codes (`ForcedInv`). `ExitStatusTrue` is about the
  driver being handed the command; it concludes that the command was
  transmitted only for drivers that are not in `MayLose`.
* **`RollingCodeProofs`**, all four properties of the run `rolling`.
  `IndicesSafe`: everything ever stored is below `M`, so everything read is.
  `FilesImplementCounter` and `CodesInOrder` assume that each file has a
  receiver of its own. Both rest on `OnlyOne` and what follows from it: on an
  undisturbed file no second process is at work, so what a process has found
  there still holds when it acts on it. `CodesInOrder` adds `InOrder`: the file
  is ahead of the code its receiver was sent last by one and by the codes lost
  since, modulo `M`; the arithmetic (`Remainder`, `SuccessorMod`) is proved
  from the definition of the quotient.
* **`HidDeviceProofs`**, the five invariants of the run `hid`, from one
  inductive invariant. It places the two threads relative to each other (before
  the barrier, between barrier and join, after), and says when the transfer
  cannot be in flight: once both threads have tried to cancel it, and while
  the read thread waits to reap it, when its status is already final, so that
  the callback will not resubmit it.
* **`He853Proofs`**. The registers are filled in the order of the reports
  (`Filled`), and a dongle pulled out stays out until the command is over;
  `executed` grows only in the last step, by one for each attempt.
  `BytesUnderstood` goes down to the bytes: for any frame whose durations the
  tables have (`ContentAssumption`, which TLC evaluates for the five protocols),
  codes cut to one or two bytes and split over four reports are read back as
  what was asked for. A pair whose low time alone is in use gets its high time.
* **`OokGpioProofs`**, the three properties of the run `ook_gpio`, without a
  hypothesis on the encoders.
  * `RightWhenUndisturbed`: the frame transmitted for a process is right,
    whatever others do, and so are the timings if nobody replaced them and they
    were not lost. The invariant (an undisturbed process about to write its
    frame finds its own timings) reduces it to single commands
    (`OwnTransmission`), of which `EncodersRight` says that each is right by
    itself.
  * `EncodersRight`: for each of the nine protocols, all remote and device codes
    whatever their size, every rolling code and every command, the receiver
    recovers the command and as much of the codes as the format carries. First
    codes within that room (`HasRoom`, `CarriesWhole`): the
    fields an encoder cuts its arguments into are followed bit by bit through
    masks and shifts into the bytes of the frame, and from there into the bits
    the receiver reads; the receiver's sum over a field is then the number that
    has these bits. Where a bit is sent as two (Otax, IDK, the Manchester code of
    DI-O and Somfy), each pair reduces to one; where a nibble is a word of a
    table (Home Easy), the words are looked up one by one. Then every other
    code: `FormatReduced` shows of each encoder that it makes the same frame
    of a code and of the code reduced to that room, for a mask or a shift
    into a narrow type only sees the low bits (`LowPart`, `FieldReduced`).
  * Two formats need more. Auchan2's parities are sums over all bits, of which
    only evenness matters. Each of Somfy's seven bytes is xored with the one
    before; the receiver undoes this byte by byte, and the checksum, an xor of nibbles,
    cancels since xoring a value twice does. Its RAW frame of 2238 bits is a
    concatenation in which each of the ten copies is located, so that the
    receiver finds the same seven bytes in each.
  * The sums and folds of `Receivers` and `Encoders` are recursive functions
    the library chooses: of each it is shown that one exists and that it can be
    unrolled, by induction on the number of elements.
  * `TextAlwaysFits`: it is proved of the nine encoders that their frames are
    of the lengths they are, of any frame below a thousand bits that its text
    fits (`ShortTextFits`), and of a longer one that it does if a byte of it
    has less than three digits (`LongTextFits`); the frame of Somfy is such a
    one because of the gap after its first pulse (`SomfyQuiet`), whatever the
    codes.
* **`SysfsGpioProofs`**, the four invariants of the run `sysfs`. The
  transmitter is off and the GPIO released: a descriptor is open only where
  the driver has one, an exported GPIO has somebody still to give it back, and
  the level is low from `TurnOff` on unless a write was lost. `SignalCorrect`: the
  strokes of a whole transmission, of any number of frames of any length and format, make the
  wave `Ook` derives from the timings. The driver's list of strokes is a
  concatenation of concatenations; `StrokeSignal` and `WaveSignal`, the levels
  microsecond by microsecond of strokes and of a wave, take concatenation to
  concatenation, which reduces a frame to one edge of one bit, where zero
  durations are skipped and RAW levels repeated. The invariant (`WaveInv`) is:
  the wave so far is that of the strokes done.
* **`RawFrameProofs`**, six of the seven invariants of the run `raw_frame`, for
  any timings (`RawAssumption` asks that a 1 has a low time, which all compiled
  protocols have, that the durations fit their C types, and that bits come
  in whole bytes; `AlsaAssumption` bounds the rates). `SoundInv` says what each
  stage of the conversion has computed and what the driver holds.
  * `BaseTimeIsGcd` and the first half of `ConversionIsSafe`: Euclid's algorithm
    is a recursive function, of which it is proved that it exists, is the only
    one, and ends, with any tolerance (the first argument decreases), that the
    result is positive when the second argument is, and that without tolerance
    it has the divisors the two arguments have in common. Four nested calls
    then give the greatest common divisor of eight durations.
  * the second half of `ConversionIsSafe`: the length of a list of segments,
    added half by half, is the sum of their times; over the concatenation of
    edges it is the number of zeros and of ones, each times a bit's length;
    and in whole bytes counting the ones from the other end (`raw.c:99`) is a
    permutation, so the number is the same.
  * `SamplesStayInBounds` and `PlaysOnTimeAlways` are arithmetic on quotients:
    an index is below the number of samples for every repetition, run and
    sample; rounding to whole samples errs by half a sample at most. The
    second needs the invariant that the rate is the card's once `Configure`
    has succeeded, and that base time times rate fits 32 bits (`ProductFits`;
    base times from 22370 us on do not at 192 kHz). `SuitsDrivers` shows that
    no compiled protocol has such a base time, at any accuracy.
  * `ShapeIsKept`: the frame written has the runs of the frame that was meant,
    in the same order, none longer and each shorter by less than two periods.
    The invariant adds what was written (`FrameInv`). Written and meant frame
    match segment by segment (`FrameMatches`): a written segment is empty where
    the meant one is, and otherwise shorter by less than a period. `Runs` joins
    neighbours of one level by halves, recursively; of the function it is
    defined by it is proved that it exists (as many steps as an interval is
    long settle its value), and by induction over intervals that matching
    segments have matching runs (`RunsAlike`). Since a bit has both levels, and
    only a marker may lack one, at most two segments meet in a run, hence the
    two periods (`AtMostTwo`). Last, durations a period apart are
    counted differently (`CountsApart`), so that a 0 differs from a 1.
* **`Lemmas`**. The induction theorems of the library take an operator as a
  parameter and cannot be used; those needed here are stated for sets: a set
  of naturals that is not empty has a least element, and a function defined by
  its restrictions to smaller arguments exists. On these rest the lemmas about
  `FlattenSeq`, the signals of `Ook` and the recursive functions of the models.

Only model-checked: liveness (`Terminates`, `OpenReturns`, `CloseReturns`), which
is beyond the prover under fairness, and `SuitsDrivers`, which computes lengths
and base times from the compiled timings (with others it need not hold). Lengths
and texts depend on the codes too, of which the run takes the extremes; that
durations are kept and bits last a sample depends on timings, accuracy and rate
alone.

## 5. What is not modelled

* The dummy driver, `-v`, usage messages and logging: they only print.
* The functions of `hid-libusb.c` that rf-ctrl never calls (reading, feature
  reports, strings, `hid_error()`), and what is in descriptors and strings; a
  `pthread_create()` that fails; a HID interface with several alternate
  settings, which `hid_open_path()` would open once for each: the dongle has
  one.
* The calls that set up the sound library one by one, and the handles they
  leak when one fails; `Configure` may fail after any of them.
* A RAW conversion that reports failure and is sent on as a length of 65535
  bits: `RfCtrl` has it (`whole` is then false), but what the drivers read
  beyond the frame is not followed. `SuitsDrivers` shows that no compiled
  protocol gets there.
* The single-precision division of `alsa.c:209`, which is exact enough not to
  change the rounding at the base times of the compiled protocols.
* The undefined `sprintf(str, "%s,%u", str, ...)` of `ook-gpio.c:122`: the
  model has the text come out right, or the kernel not take it.
* The splitting of configuration lines and the conversions of `strtol()`: an
  action gets the number.
* The building of paths in `get_storage_path()`; that it makes the directory
  is modelled.
* The tests of the encoders that the buffer is large enough: it always is.
* What a receiver does with codes it is sent, beyond taking frames apart.

libusb, the sound library, the kernel's GPIO files and its ook-gpio module, the
dongle's registers and the file system are modelled from how the code uses
them; they are marked external in the map.

## 6. Plan

Done, in this order: `Options`, `RfCtrl` (most paths cross them), `RollingCode`
with its abstraction, `HidDevice`, `He853`, `Ook`, `SysfsGpio`, `RawFrame`;
then `Encoders` with `Receivers`, `OokGpio`, `Alsa`, `He853Reports`, the storage
directory, the list of devices, and the proofs. Left: an abstract transmitter (a
command is sent, or an error reported) that `He853`, `SysfsGpio` and `OokGpio`
implement, and `RfCtrl` uses in place of `SendCmd`'s nondeterminism; `He853`
composed with `HidDevice`.
