# Verification of the trackball firmware

TLA+ specifications of the RP2040 trackball firmware in `src/firmware`, the
TLC runs that check them on small instances, and TLAPS proofs of what matters
most. Source paths below are relative to `src/firmware/src/` unless they say
otherwise.

## The system

The firmware is one program on one core without an operating system. Three
kinds of code run:

* the **main loop** (`main.c:60-71`): heartbeat, `buttons_run`, `usb_run`
  (`tud_task`, then `hid_task`), `cnsl_run`, `pmw_run`;
* the **MOTION interrupt** of the sensor (`pmw_motion_irq`), which may hit
  between any two instructions while it is enabled at the GPIO;
* **USB callbacks**, which `tud_task` calls. The main loop calls it, and so does
  `usb_cdc_write` while it waits for room in its FIFO. So *every* line of
  output may run a callback, and a callback may run a console command, in the
  middle of whatever printed.

The last point is what makes this code harder than it looks: there is no second
thread, but nearly every function can be entered again while it runs.

| Component | State | Operations | Interacts with | What makes it correct |
|---|---|---|---|---|
| motion counters (`pmw3360.c:54-112, 282-333`, `util.c:60`) | `delta_x/y`, `mouse_motion` | interrupt adds, `pmw_get` takes | controls | no count is lost, doubled or torn |
| sensor driver (`pmw3360.c`) | the sensor's registers, IRQ enable | init, sensitivity, angle, frame capture, dump, health check | console, files, main loop | interrupt and driver never share the bus; the sensor is configured and reporting afterwards |
| switches (`buttons.c`) | `last_time`, `current_state`, `last_state` | `buttons_run` | controls | no bounce gets through, every real change does, in time |
| controls (`controls.c`) | `mouse`, `last_mouse`, `scroll_sum` | button event, read | counters, HID | motion becomes pointer or scrolling, a click is whole and deserved |
| HID reports (`usb_hid.c`) | the endpoint | poll, report complete | controls, host | the host ends up with the truth |
| debug log (`log.c`) | ring `log_buff`, `head`, `tail`, `full`; static line buffer | `debug`, replay, dump to disk | everything | keeps the newest characters and gives them back |
| console (`console.c`) | line buffer, last and repeated command | input, commands, repeat | driver, mass storage | a line is run once, as typed, and the buffer stays within bounds |
| serial port (`usb_cdc.c`) | DTR, FIFO | write, receive, connect | console, log | output ends; callbacks inside it do no harm |
| mass storage (`usb_msc.c`, `fat_disk.c`, `debug.c`) | `medium_available`, `mounted`, RAM disk | SCSI callbacks, mount, files | console, host | host and firmware never use the file system at once |
| time-outs (`util.c:42`, `pmw3360.c:579`, `console.c:204`, `usb_hid.c:140`) | last times | poll | main loop | fire again, also where the clock wraps |
| descriptors, register tables, host tools, hardware | constant | - | - | not modelled |

## Modules

| Module | What | Runs |
|---|---|---|
| `LogHistory` | abstract: the newest N characters in a list | as property of `log_buffer` |
| `LogBuffer` | the ring, its replay and its copy to disk | `log_buffer`, `log_replay` |
| `PmwMotion` | interrupt against `pmw_get` | through `Pointer` |
| `Controls` | operators for `controls.c`, over `PmwMotion` | through `Pointer` |
| `Pointer` | switch events, counters, controls, report, USB events, host | `pointer_scroll` |
| `Buttons` | debouncing | `buttons` |
| `Trackball` | composes `Buttons` with `Pointer` | `trackball` |
| `PmwDriver` | driver functions, console commands, health check, boot | `driver` |
| `MassStorage` | the disk that host and firmware share: `usb_msc.c`, `fat_disk.c`, the files of `debug.c`, `log.c` and `pmw3360.c`, the commands `stats`, `data` and `mount` | `mass_storage` |
| `DebugLog` | one message on its way: line buffer, FIFO, nested messages, terminals, suspend and bus reset | `debug_output`, `debug_print` |
| `Timers` | heartbeat, poll, repetition, health check and watchdog on a clock that wraps | `timers` |
| `LineEditor` | abstract: text is kept until its line is run | as property of `console_*` |
| `Console` | line editor, repeats, nested calls | `console_typed`, `console_following` |
| `LogBufferProofs`, `DebugLogProofs`, `ButtonsProofs`, `TimersProofs`, `MassStorageProofs`, `PmwDriverProofs`, `ConsoleProofs` | theorems about the module named | - |
| `PointerProofs` | theorems about `PmwMotion`, with them about `Pointer`, and with those about `Trackball` | - |
| `MCLogBuffer`, `MCPointer`, `MCTrackball`, `MCTimers`, `MCConsole` | values of constants | - |

A definition whose name has the form `X_Slip` is a plausible bug in `X`;
`PROJECT.json` says which property notices it when `X` is replaced by it.

### LogBuffer

`AddChar` is the body of the loop in `add_to_log`, one character per step;
`todo` is what is left of its argument. `LogDumpToUsb`, `ReplayStart` and
`ReplayChar` are `log_dump_to_usb`: the test for emptiness, the title (during
which callbacks may log), the reading of `head` and `tail` for the first piece,
then one step per character taken from the live ring, and `head` read again for
the second piece. `LogDumpToDisk` is one step since FatFS on a RAM disk runs no
callback; its three booleans are the outcomes of open, write and close, each
failure adding an error message to the log. What a message says is one of a few
strings. One replay is followed at a time: one that nests in another, as a
terminal that connects during the replay may cause, only reads the ring, and is
to the other a pause.

`TwoShapes` says that `head < tail` never happens, so `log.c:91-100` is dead
code and the two-piece branch of the replay is only reached when a callback
fills the ring while the title is printed. It also shows why `log_dump_to_disk`
writes an empty file once the ring is full, which `SavedLogExact` excepts.

Finding (`log_replay`): with exactly `head == tail` and `full`, as after every
4096 or more characters, `log_dump_to_usb` returns without a word, although
`log.h:23` promises the replay.

### DebugLog

`debug_log` formats every message into one static buffer, hands it to
`usb_cdc_write`, and copies it from there into the log when that returns. In
between `usb_cdc_write` runs `tud_task`, in which a callback may print. `stack`
holds the functions under way: a `usb_cdc_write` with what it has sent, or
`tud_cdc_line_state_cb`. `Begin` is `debug_log` up to the call (`Formatted` and
`LineBuffAfter` are `format_debug_log`, which cuts a message that is too long
and writes a note over it), `WriteChunk` and `TaskDone` are the loop,
`WriteEnds` is its end with `add_to_log`. A character is a pair of the call it
belongs to and its place, so that the properties can tell whose text is where.
`calls` is history: what each call has sent and stored, and which other calls
came in its output.

`SetLineState` is the host opening or closing the port, with the callback it
leads to; `LogDumpToUsb` is the callback's test for an opening together with the
beginning of `log_dump_to_usb`, which returns silently if `head` equals `tail`
(`log.c:53`), `LogDumpPiece` its further writes, `LineStateMessage` the message
that follows, `LineStateEnds` the assignment of `last_dtr`. Of the ring only
`head` and `full` are kept, on which the number of pieces depends; what they say
is the subject of `LogBuffer`. `BusReset`, which also stands for an unplugging,
closes the port without the callback. `Suspend` makes `tud_cdc_connected` false
while it lasts.

`LastTextIsKept` says what becomes of a message whatever else is printed in its
output. Its length is right. At every place the log has what the *last* message
left there that was formatted since: this is the message's own text if no other
came, and otherwise the other's, under the length of the first
(`log.c:132-135`). The terminal was sent the message's own text or that of one
in its output, and neither ever gets text older than the message.

Finding (`debug_print`): that other message may be a `print`, whose text is then
in the log in place of the debug's, although `log.h:30` says of `print` that it
is not stored and `log.h:22` of `debug` that it is.

`OpenIsReplayed` says that a terminal that has the port open has been given the
log. It names every way in which the code fails to do so:

* the ring is full, which `log.c:53` takes for empty;
* `disturbed`: the bus was reset while the port was open. No callback comes, so
  `last_dtr` stays TRUE while no terminal is there, and the next one gets neither
  the replay nor a fresh console;
* `disturbed`: `last_dtr` is stored at the end of the callback
  (`usb_cdc.c:110`), after all of its output. A terminal that closes the port
  during the replay is first noticed as closed, and then `last_dtr` is set to
  TRUE by the older call, with the same effect;
* `disturbed`: the bus is suspended before the replay has ended. What would be
  printed is skipped.

The ring stays full until the next boot. The others do not last: the next orderly
closing clears `disturbed`, so the terminal after it is owed the log again.
`OutputEnds` says that the loop of
`usb_cdc_write` ends as long as a terminal is connected and reads. The code has
nothing but the watchdog against one that does not read, or that closes the port
in the middle of an output: DTR is looked at once (`usb_cdc.c:44`), and then
nobody empties the FIFO.

### PmwMotion

`Interrupt` is the whole handler; it cannot be interrupted. `pmw_get` is split
into its statements (`pc`), which the interrupt may hit between any two. A motion
leaves the sensor as a 16 bit register (`DeltaRaw`) and is taken apart by hand
(`TwosComplement`, `util.c:60-65`) before it is added, in the run also the most
negative value there is.
`mouse_motion` is read before the interrupt is stopped, as in the code.
`Conserved` accounts for every count at every step; `NoTearing` says what
callers have got is the motion up to one moment, on both axes.

### Controls and Pointer

`Controls` translates `controls_mouse_new` and `controls_mouse_read`; the loops
that turn counts into scroll ticks are their closed form `Ticks`. `Pointer`
puts them between the counters and the host: `HidTask` begins a poll if the
endpoint is free, `Get` are the statements of `pmw_get`, `SendReport` is all
that happens when it returns, up to the report in the endpoint. `HostPoll`
fetches it. `Suspend`, `Resume` and `BusReset` come between polls. A poll may
come at any time, which includes the 10 ms of `hid_task` and any delay of it.

`Accounted` follows every count from the sensor to the host: it has arrived, is
in the endpoint, waits for a scroll tick, or was thrown away for a reason
(`dropped`). If a report field is too narrow for the motion of a poll, as
`int8_t` is (`usb_hid.c:82`), the loss is a multiple of its range; the fields of
`pointer_scroll` are that narrow on purpose. `ClickUnlessScrolled` and
`ClickLongEnough` are the contract of the scroll button that doubles as the
middle button, over any number of reads and overlapping clicks. The click is
judged by `mouse.delta_x`, an `int16_t`, so the first of them excepts a press in
which one read took more than that holds (`overrun`, forgotten when the button is
pressed again). How wide a report field is does not matter to it.

### Buttons

`Sample` is the loop body of `buttons_run` for one switch, `gap` milliseconds
after the one before; `Flip` is the wire, which bounces as it likes. The clock
wraps. `stable` and `quiet` are history clocks for the properties, cut off where
they no longer matter. That a switch at rest is reported at all is a property of
the composition below, whose fairness says that time passes: a main loop that
ran forever within one millisecond would report nothing.

### Trackball

`Trackball` extends `Pointer` and instantiates `Buttons` without its history
clocks. What `SwitchEvent` of `Pointer` leaves open, when which switch changes,
is here the call of `controls_mouse_new` that `SampleSwitch` leads to
(`Sample`). `UsbRun` is only enabled between two rounds of `buttons_run`, as in
the main loop; the interrupt and the host's poll come at any time.
`SwitchesShown` relates the debounced levels to the controls in every state,
`WireReachesHost` the bare wire to the host.

### PmwDriver

The functions of `pmw3360.c`, `debug.c` and the commands of `cnsl_interpret`
are sequences of operations (`Program`): switch the interrupt, read or write a
register, print, call, return early. `stack` is the C stack; each action is one
operation of its last frame. Three things may happen around it:

* a register access while the interrupt is `Live` may be hit: chip select is
  released half-way, so a read returns rubbish, and a write is lost or puts the
  interrupt's first byte into the register;
* a `Say` may run another command (`NestedCommand`) or never end, so that the
  watchdog resets the processor (`Watchdog`). `Restart` keeps the sensor's
  registers: it has no reset line;
* at rest the main loop takes a command, a health check or a `hid_task`.

Values of registers are named for where they come from (`reset`, `default`,
`user`, `corrupt`), because that is all the properties tell apart. The sensor's
identity and the outcome of mounting, opening and writing are free choices; a
failure prints an error before it returns (`MayFail`), and a command may nest in
that output too. `Upset` loses the sensitivity of either axis. One sample stands
for the thousand of a data dump. The command `data` stands for `stats` as well:
`console.c:156` asks again which of them the line says, after output in which
nested input may have overwritten it, so both answers are possible for both
(`Op("line")`).

`BusUnshared` names the only two places where the bus is shared. One is that
`pmw_init` sets the lift threshold (`pmw3360.c:570`) after `pmw_set_sensitivity`
has enabled the interrupt; on any initialisation but the first, as in `pmwr`,
that write may be lost while `pmw_init` returns 0. The other is what follows the output of
`pmw_init` (`pmw3360.c:533-537`) when a command ran inside it.

`IrqOnAtRest` and `FrameCaptureEnds` also show, by what they must except, that
the command `data` leaves the sensor in frame capture, where the pointer is
dead until `pmwr` or a reset, while `pmwf` initialises it again.

### MassStorage

Functions are sequences of operations on a stack, as in `PmwDriver`, here with
the operations on the disk: FatFS calls that succeed (`FMount`, `FOpen`,
`FWriteOrClose`, ...) or fail (`Fails`), and `SetMedium`. The two parties are
characterised by what they hold in memory of the file system: `fs` for FatFS,
`host` for the computer, each nothing, up to date or stale, since the other has
written. Whether a hand-over writes the two files of `data` is asked again after
its first output (`CompareLine`, `console.c:156`); since nested input shares the
line buffer, both answers are taken to be possible for `stats` and for `data`,
which is more than the code can do. `TestUnitReady` is how the host learns that
the medium is gone; it then forgets. `Read10` and `Write10` do not look at `medium_available`, because the
callbacks do not. The host has one SCSI command under way at a time, and what
it asks for comes in the main loop or inside an output. A file that was open
when its file system was unmounted is dead: FatFS answers with an error. The
variable `ejected` is left out: it is written only.

The hand-over works, and the exceptions in the properties are the complete list
of ways in which it does not: TLC finds a counterexample to the property if any
one of its exceptions is left out.

* unmounting fails, and the medium is plugged in all the same (`console.c:162`);
* a second command runs in the output of the first, which has no lock: it
  unmounts the file system under it, and plugs the medium in;
* the host does not ask between `medium_available = false` and `= true` and goes
  on with what it knew (`console.c:144-167`);
* the host writes although it was told that there is no medium, or was never
  told (`usb_msc.c:141`);
* `f_mount` fails, and the early return (`console.c:148-152`) leaves the host
  without the medium that the command has unplugged.

### Timers

`pc` walks through the main loop; time passes (`Tick`) between any two steps,
as long as the watchdog allows. `Due` is the comparison of each timer: the sum
`last + interval` modulo 2^32 for the heartbeat, the repetition and the health
check, the difference for `hid_task`. `LastAfter` is what the timer keeps.
`CnslRun` and `Repeated` are before and after the repeated command, which may
take time, and may itself be `repeat`; `RepeatCommand` starts with a time that
lies 1001 ms back, and so wraps in the first second. `age` is the time since the
timer was last due, which the properties compare with what the code decides.

`NotEarly` and `OnTime` name when the three sums are wrong: when the sum has
wrapped and the clock has not, the timer runs in every pass, for up to one
interval every 49.7 days; when the clock has wrapped between two looks at the
timer while the sum had not, it does not run for another 49.7 days (`slept`).
The latter takes a pass that spans the wrap within the last interval before it,
or a repetition that is started in the first half second. `hid_task` has
neither, and `CatchesUp` shows that what a long pass holds up is made up for.

### Console and LineEditor

`Console` has the buffer, its position and the commands byte for byte, and
`calls`, the calls of `cnsl_handle_input` and `cnsl_run` that are under way:
each stands at a place where it prints (`Prints`), and there the next chunk may
be received, by a nested call on the same buffer. `Edit` is the body of the
backspace loop, `FindLineEnd` what follows it up to the output of
`cnsl_interpret`, `Finish` what follows that. `cnsl_buff_pos` is unsigned; a
wrapped value is written as a negative number. Once memory outside the buffer
would be used (`outside`) the model stops, since nothing can be said of what
follows.

`LineEditor` is what the input promises. `EditorImplemented` maps its text to
the part of the buffer behind the line that is being run. It holds if keys
arrive one by one and nobody ends a line, erases, overflows the buffer or
connects while output is under way (`Quiet`); letters typed ahead do no harm.
`EnterRepeats` says which command Enter repeats: that of the line before, whatever
was typed while it printed, and none if the line before was itself empty. So a
second Enter in a row does nothing, as the first has stored the empty line as
the last command (`console.c:270`); the help text, "Press Enter with no input to
repeat last command" (84), does not say so.

Outside the conditions of `EditorImplemented`:

* the second of two backspaces in one chunk is skipped (`console.c:252`): the
  loop steps back by one although two characters were removed;
* `console_following`: a backspace (or Enter) while a command prints makes
  `cnsl_buff_pos` wrap. If the next chunk makes it wrap back it is copied in
  front of the buffer; otherwise the overflow check starts the editor over (a
  finding);
* a backspace and a newline in one chunk, on an empty line: removing the
  backspace copies the newline to the front and leaves it where it was, too
  (`console.c:243-246`). `cnsl_handle_input` takes the second for the LF of a
  CR LF and takes two characters away (273-279), so `cnsl_buff_pos` wraps.

## Runs and bounds

| Run | Bounds | Why they suffice |
|---|---|---|
| `log_buffer`, `log_replay` | ring of 3, two characters, messages up to length 2 | wraps several times, fills exactly and past the brim; a message may be logged at every point of a replay |
| `debug_output`, `debug_print` | buffer of 4, FIFO of 2, ring of 5, messages of length 3 and 4 (`debug_print`: 2 and 3), 3 messages, 3 functions under way (2) | one message fits and one is as long as the buffer; one takes two rounds of the loop, in each of which others nest; the second debug wraps or fills the ring; terminals come and go, and the bus resets and sleeps, without a bound |
| `pointer_scroll` | 3 interrupts, 2 switches with 4 events together, 1 bus reset, click of 2 reads, counters of 16 values, report fields of 8, motions of 3, -8 and 5 | the most negative reading; two interrupts may fall into one `pmw_get`, more between two; press, scroll, release and press again during the click; a fast move may exceed a field, two do in both axes; a lost report before and after each event |
| `buttons` | 2 switches, clock modulo 9, delay 2, gaps of 0, 1 or 2 | every phase of the wrap against the delay, with uneven rounds |
| `trackball` | 2 switches, of which one is the scroll button, delay 1, clock modulo 4, 1 bus reset, no bound on bounces | every phase of a bounce against the wrap, a poll between any two rounds, a reset between debouncing and the report; the ball does not move (`pointer_scroll` has that) |
| `driver` | 3 commands, 2 nested, one lost setting | a command inside each output of any other, and a third one before, inside or after; a failed initialisation and whatever follows |
| `mass_storage` | 2 commands nested, 2 faults between two boots, one callback that prints in each output | every command in each output of any other; each two faults at each two places; SCSI commands and hand-overs without a bound |
| `timers` | clock modulo 14, the smallest that holds an interval, the head start and two passes; intervals of 2 and 3, head start of 3, watchdog after 2, hid_task at most 4 behind | each timer meets the wrap in every phase; a pass is shorter than, as long as and, with the watchdog fed once, longer than an interval |
| `console_typed` | buffer of 4, 8 keys, 2 calls, 1 reconnect | lines of every length, overflow, repeat switched on and off, erasing at the beginning; a letter in every output, of an echo and of a command |
| `console_following` | 4 keys, 2 calls | smallest that shows it |

Each bound is a CONSTANT in the guard of the action it limits. Deadlock is checked in every passing run. Every module defines its type
invariant `TypeOK`. The runs of `LogBuffer`, `Pointer` and `Console` check it,
where it says that an index or a remainder cannot leave its range; it is proved
for every module.

### Fairness

* `Pointer`: weak fairness of the poll, of its statements and of the host's
  poll. The main loop does not block for good, or the watchdog resets the
  device; a host polls the interrupt endpoints of a device it has configured.
  Nothing is assumed of interrupts, switches, suspend or resume.
* `Trackball`: strong fairness of sampling with time passing and of the poll,
  each of which is disabled again and again by the other, since they take turns
  in one loop; weak fairness of a poll's statements and of the host.
* `DebugLog`: the processor goes on; strong fairness of `TaskDone`, since
  `tud_task` returns when it has emptied its queue, whatever callbacks it has
  run; strong fairness of `HostReads`, as a host that has the port open asks for data again and again, and is heard whenever
  the stack runs. Not assumed of a port that is closed.
* `MassStorage` has only safety properties and assumes no fairness. That an
  output runs one callback that prints, not arbitrarily many, is a bound.
* `Timers`: the loop and the clock go on.
* `PmwDriver` (`FairSpec`): the processor executes the function it is in, and
  the health check comes round. Not assumed: that the ball moves while
  `pmw_dump_data` waits for it, which `IrqComesBack` therefore allows for.

## Proofs

Every safety invariant, action property and refinement of the passing runs is a
theorem: for every value of the constants that
satisfies the modules' named assumptions, so for every buffer size, interval,
width of the clock, number of switches, and every bound on commands, nesting,
faults and messages, which a run must fix.

* `LogBufferProofs`. `TypeOK` and `TwoShapes` are inductive together with the
  ranges of a replay's pieces (`IInv`): a piece that is being written must stay
  below `LogSize` whatever is logged meanwhile. `Refinement`
  (`Spec => KeepsNewest`, the ring implements `LogHistory`) has two cases after
  `TwoShapes`: while the ring fills, `Retained` grows at its end; once it is
  full, it shifts by one. `ReplaysAreFaithful` needs `ReplayInv`: as long as only
  free slots were filled since the replay looked, each character of `snap` is
  still in the slot where the replay will look for it. `SavesExactly` is the
  action property of the copy to disk.
* `PointerProofs`, about `PmwMotion` first. The invariant says for each statement
  of `pmw_get` which axes are copied, which are cleared, and that the interrupt is
  off in between: `TypeCorrect`, `NothingLost`, `NothingTorn`. `UsesMotion` shows
  that every step of `Pointer` is a step of `PmwMotion` or leaves its variables
  alone, so these hold end to end (`NothingLostEndToEnd`). `NoStuckClick`,
  `ClicksExactlyUnscrolled` and `ClicksLast` follow from `ClickInv`, which ties
  `fake_middle`, the middle button, `scroll_sum` and their histories together: as
  long as no read of the press was `overrun`, `scroll_sum` is what was scrolled.
  `Conserved` needs the lemma `Converted`, that `TwosComplement` undoes `DeltaRaw`
  for every motion an `int16_t` holds.
  `EveryCountAccounted` and `PointerTypeCorrect` follow from `AccountInv`: per
  axis, what was taken from the sensor less what has arrived, is in the endpoint,
  waits for a tick or was thrown away is a multiple of a field's range, and 0 if
  no field was ever too narrow. It needs that a poll only runs while the endpoint
  is free (`PollAlone`), and the algebra of the two conversions, division with
  remainder for the ticks and `% 2^8` for the fields.
  Then `Trackball`: every step of the composition is one of `Pointer`, with a
  `SwitchEvent` for a sample that changes a level, or leaves it alone, so
  `PointerKeepsPromises` carries the invariants of `Pointer` over to switches that
  bounce; `ControlsShowSwitches` is inductive on top of them.
* `ButtonsProofs`. `IInv` says for each switch that the modular difference
  `now - last_time` is the true age of the level as long as it matters: a level
  that is seen and not reported is within the delay and one round (`Pending`), so
  the difference cannot have wrapped. `ReportedInTime` and `OnlyDebounced` follow.
* `TimersProofs`. `age` is time, `clock - last` is what the code computes. `IInv`
  ties them for the two cases: where the sum `last + interval` is in range, the
  clock is ahead of `last` by the age until it wraps (`InRange`); where it is not,
  the clock wraps before it reaches the sum and does not come round to `last`
  again before the loop looks, because `hid_task` keeps a pass below `MaxOwed`
  (`OutOfRange`). `NeverEarly` and `AlwaysOnTime` follow with the exceptions that
  the properties name.
* `DebugLogProofs`. `TextInv`: at every moment the line buffer holds, for *each*
  output on the stack and at each place of its message, what the newest of the
  call and the calls in its output left there, and no output has written more
  than the message is long; hence `LastTextStays`. `TerminalInv`: unless the
  session is disturbed, `last_dtr` is the state of the port, or a callback that
  will set it is under way (`Followed`), and a terminal that is open has the log,
  or such a callback is still showing it (`GivenTheLog`); hence
  `OpenTerminalHasTheLog`. The stack may be of any depth.
* `MassStorageProofs`. `IInv` gives every frame of the stack its role by the
  operation it is at: it keeps the file system mounted (`Keeps`), judges the
  result of `debug_msc_mount` (`Judges`), is on its way to `f_mount` (`Mounts`),
  has unplugged the medium and will plug it in (`Takes`). `Owned`: if no command is
  nested, who needs the file system has it, with the medium out, and no command
  runs above him; `Held` and `Accounted`: what is mounted, or unplugged, is some
  frame's; `Cached`: whose picture of the disk is current. `OneUser`,
  `HostNeverStale`, `FirmwareNeverStale`, `WritesReachFiles`, `DiskHandedBack`
  follow. None of the properties is inductive without the roles, since each
  speaks of a moment and the promise is kept over the operations before it.
* `PmwDriverProofs`. Likewise, for each operation of a frame: it has the bus for
  itself (`Off`: interrupt off, if it is the one that runs), it knows values of
  registers (`Knows`), its caller does (`Knew`, for `pmw_init`, whose two calls
  return into what it has configured), it will initialise the sensor
  (`WillInit`), or it will turn the interrupt on or fail (`Restores`). `Above` says
  which function may run over which; it is what makes an output a place where
  these promises are suspended (`nested`). The theorems are `BusIsUnshared`,
  `AxesStayEqual`, `RepairsAxes`, `InitLeavesDefaults`, `CaptureEnds` and
  `InterruptAtRest`; the lemmas before them state what each operation of the
  functions is, so that no proof has to expand a whole program twice.
* `ConsoleProofs`, under the condition `KeyByKey`: keys come one by one, as a
  terminal sends them, and nothing but letters comes while output is under way
  (without it the properties do not hold, as `console_following` shows). `IInv`
  says where the calls that are nested in each other's output stand: only the
  innermost may look at a character (`Nested`); at most one works on a line, which
  is in front of the buffer as it was run until the call removes it (`Working`);
  an end of a line that was not run yet is alone and belongs to the first call
  (`Ending`); a backspace is the last key, about to be looked at by the only call
  (`Erasing`); between them the text has no gaps (`Dense`); the commands that are
  kept were typed (`Remembered`). `TypeCorrect` and `RepeatsCommands` follow: in
  `TypeOK` it is `Finish` that needs it, since what it removes must still be where
  `FindLineEnd` has found it. `Refinement` (the console implements `LineEditor`)
  places the text in the buffer (`Placed`) and shows for each action what it does
  to it: `Receive` types, `Edit` erases, `FindLineEnd` enters, `StartOver`
  overflows, and `Finish`, which moves every byte, changes nothing.
  `RepeatsTheLineBefore` needs `LineBefore`: the command kept is the line before,
  or the call that works on that line will still copy it.

The assumptions the proofs use are stated where the constants are declared, and
TLC evaluates them in every run: buffers and intervals are not empty; the clock
holds a delay and a round of samples (`Buttons`), and an interval, the head start
of `repeat` and two passes (`Timers`; 2^32 ms against a watchdog of seconds); time
passes in a round (`MaxGap > 0`); the range of a report field divides that of the
counters (`Int16 % Int8 = 0`); the note of `format_debug_log` fits its buffer; a
backspace, an end of a line, a NUL and a letter of a command are different
characters.
Nothing is assumed about how a number is represented beyond that, nor that any
bound is small.

Only model-checked, and why:

* liveness under fairness, which the provers cannot do: `ButtonsReachHost`,
  `MotionIsTaken`, `WireReachesHost`, `IrqComesBack`, `OutputEnds`, `CatchesUp`;
* what the closed form `Ticks` of the scroll loops computes: it would take
  induction over data.

What no property speaks of, because the code promises nothing there; the models
contain it, and the properties name it as an exception or leave it open:

* a report field is narrower than a fast move (`usb_hid.c:82`; `Accounted` says
  how much is lost);
* a command in the output of `pmw_get_sensitivity` sets a sensitivity that is
  then overwritten with what was read before (`pmw3360.c:356`; `AxesRepaired`);
* a backspace and an end of line, or two backspaces, in one chunk
  (`console.c:252, 274`; see Console);
* a terminal that does not read, or closes the port in the middle of an output
  (`OutputEnds`; see DebugLog);
* the host writes to a medium that is unplugged, misses an unplugging, or a
  command nests in a hand-over, and the unmounting fails (see MassStorage).

## Plan

Every safety property and every refinement the passing runs check has its
theorem. What is left is to weaken the condition under which those of `Console`
hold. `KeyByKey` lets in one key per chunk; the code seems to need less, namely
that nothing but letters arrives while output is under way, and that a chunk is a
single backspace, or letters followed by at most one end of line, and no longer
than the buffer (`usb_cdc.c:73` reads 64 bytes, the buffer has 1024). For that:

* `LineEditor.Type` appends several characters, and `Overflow` starts over when
  the text and the chunk together exceed `Size`;
* `console_typed` gets chunks of several characters;
* in `ConsoleProofs`, the lemmas on the stored chunk and on overflow
  (`KeyComes`, `StoreKeeps`, `OverflowKeeps`, `StartOverKeeps`) and the two
  refinement steps built on them speak of a chunk instead of a key.

## Not modelled

USB descriptors and the sensor's register tables and firmware are constants.
TinyUSB, FatFS and the Pico SDK are submodules that are not part of this
repository; the modules take from the code how they are used. Formatting of
output, interrupt statistics and the LED are left out because nothing depends
on them, and so are the constant answers to SCSI inquiries and the calls by
which FatFS asks for the size of the disk. `debug_wait_input` (`log.c:148`) and
the rerouted input have no caller. That FatFS reads and writes in sectors, so that
a stale picture may destroy a file system, is abstracted to the picture being
stale. Scripts under `util/` and the OpenSCAD files are not firmware.
