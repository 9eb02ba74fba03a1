# Verification of the duagon 13Y063-90 wireless interface tools

TLA+ models, TLC runs and TLAPS proofs for the command line tools that control
the F229, ME10 and G239 boards: the standard tool (`src/13Y063.c` on the libusb
backend `src/hidapi/libusb/hid.c`, with `src/cJSON/cJSON.c` for its JSON output),
the minimal tool (`src/linux/13Y063-90_minimal.c` and its library, on the kernel's
hidraw node) and the two scripts that call them. Every definition names the code
it models in `PROJECT.json` under `map`.

## 1. Inventory of the system

| component | state | operations | what makes it correct |
|---|---|---|---|
| USB interface ownership (`hid.c` open/close, `OpenDevice`) | kernel driver bound to the interface, owner of the usbfs claim, open handles, `is_driver_detached` | probe, detach, claim, undo, release, attach; hidraw open/close; kill; re-enumeration | one standard process at a time and alone; the hid driver is lost only in known ways |
| Read thread (`hid.c`) | `shutdown_thread`, `transfer_loop_finished`, the transfer, `input_reports` | `read_thread`, `read_callback`, `hid_read`, feature reports, `hid_close` | the transfer belongs to the claim; no callback after it is freed; bounded queue; close and read return |
| SIM commands (`-s`, `--save-config`) | cards of both modems, configuration data | check-then-write in two reports, read in two reports, save | no card in both modems, now or after a restart |
| Power, off time, reset (`-p`, `-f`, `-r`) | supply, reported state, request in the firmware, off time | request, workaround waits, read-back loop | success means applied; waits protect later calls of old firmware; loops end |
| Command line and dispatch (`main` of both tools) | `optind`, `flag_*`, `arg_*`, place in the dispatch | option loop, fixed order of commands, stop at the first failure | reads what is written; a run does a prefix of its commands, each the change that its words name |
| LED, WWAN/GNSS, sensors, bootloader | registers | range check and one report each | registers stay in range |
| Enumeration and selection | lists of boards, `/dev/hidraw*` | `hid_enumerate`, `-i`, `-n`, `-g`, `-d`, `hid_open` | the board that is opened is the one that was asked for, and its firmware version is the one used |
| SIM crawler script | table of numbers, modem count, USB bus | power cycle, switch cards, wait for ModemManager, print rows | every card is shown, beside the number it has |
| Shutdown service | list of boards, the modules still to switch, time | list, set the off time, switch off, wait | a good exit means off; the time limit cuts off only a run that waits too long for it |
| JSON output (`cJSON.c`) | items linked by `child`, `next`, `prev`; print buffer | create, add, insert, detach, replace, duplicate, delete; print, parse, minify, look up, compare | the lists stay sound; nothing is written past the buffer; the text reads back |
| other hidapi backends, packaging | | | not modelled |

**Interaction.** `main` parses, enumerates, opens one board, runs its commands as
HID feature reports and exits. Processes interact only through the kernel (which
driver is bound, who owns the claim, the hidraw node) and through the firmware's
registers. Inside a process the read thread and the main thread share the device
structure, and both may run libusb callbacks. The scripts are sequential clients
of the tools and of ModemManager, and look at hardly any result.

**What is hard.** Open and close are sequences of kernel calls that interleave
between processes; a process may be killed and the board may restart between any
two of them; a feature report may time out and still have reached the firmware;
old firmware discards requests while it is busy and reports too early; boards come
and go between two enumerations; arguments are narrowed to `unsigned char`; the
two threads share flags without a lock; the scripts take a baseline after the
event they wait for. `PROJECT.json` lists each hazard at its line with the
properties that cover it.

## 2. Modules

| module | models | built on |
|---|---|---|
| `BoardAccess` | abstract: who may use the board (one standard process, or any minimal ones) | |
| `UsbInterface` | the kernel and libusb calls of open and close, kills, re-enumeration | implements `BoardAccess` |
| `HidReadThread` | the two threads of one open device | |
| `DeviceLife` | a run from `hid_open_path` to its end, again and again | composes `UsbInterface` and `HidReadThread` |
| `SimTable` | abstract: an atomic table of two modems' cards and its saved copy | |
| `Conversions` | narrowing to `unsigned char`, firmware version arithmetic | |
| `SimAssignment` | `-s` and `--save-config`, report by report | extends `UsbInterface`; implements `SimTable` |
| `ModulePower` | `-p`, `-f`, `-r` in time against old and new firmware | extends `BoardAccess` |
| `CommandLine` | the option loop of both tools | |
| `CommandRun` | abstract: a plan of changes to single settings, carried out in a fixed order | extends `Conversions` |
| `ToolRun` | a whole run: parse, open, all commands in order on a register model | extends `CommandLine`; implements `CommandRun` |
| `BusOrder` | lists of boards in their order on the bus | |
| `Selection` | enumerations, lists, selection and opening while boards come and go | extends `BusOrder`, `Conversions` |
| `SimCrawler` | `simcrawler.sh` against modems that leave and return, and those of other boards | uses what `SimAssignment` promises |
| `ShutdownModems` | `cell_modem_power_ctrl.sh` under its systemd unit | extends `BusOrder`; uses what `ModulePower` promises |
| `JsonTree` | cJSON's linked lists and every call that changes them | |
| `PrintBuffer` | `ensure` and `update_offset` | |
| `Utf16` | `parse_hex4` and `utf16_literal_to_utf8` | |
| `JsonText` | printing, parsing, minifying, looking up and comparing | extends `JsonTree`, `PrintBuffer`, `Utf16` |
| `*Proofs` | theorems (section 5) | |
| `MC*` | small instances for TLC; `MCScripts` runs the two scripts side by side | |

**State and actions.** In `UsbInterface`, `pc[p]` is the next call of process `p`
(`probe`, `detach`, `claim`, `undo`, `use`, `release`, `attach`), one action per
call, each with its success and its failure; `driver` is what the kernel has
bound, `alive` holds the processes whose handle still refers to the board as it
is enumerated now, and the history variable `leaks` records how a detached driver
was given up. A successful run returns from `main` without `hid_close`
(`ReturnSuccess`); only the error path closes (`ErrorExit`, `CloseRelease`,
`CloseAttach`).

`HidReadThread` has one action per libusb call or group of lines between shared
accesses; `TakeEvent` lets either thread run a completed transfer's callback, and
`CancelTransfer` may miss a transfer that is between completion and resubmission.
`DeviceLife` runs the two together for one standard process and any minimal ones:
the thread starts after the claim and has to be joined before the release, and a
restart of the board both makes the handle stale and unplugs the transfer.

`SimAssignment` runs its commands only in `pc = "use"` and refines the same
actions; `at[p]` is the place in `main` and `SetModemSim`. A transfer can fail in
two ways, with and without having reached the board. `CheckSim` reads the other
modem's card and `WriteSim` writes the own one, so another process can come in
between if `UsbInterface` lets it.

`ModulePower` abstracts opening to `BoardAccess!Enter`/`EnterShared` (justified by
`ImplementsAccess`) and adds time: the firmware has at most one request per module
in hand for a bounded number of ticks, `Tick` is one second, and `Accept` is where
old firmware discards. Standard runs are exclusive and each begins with an empty
memory, so successive runs of one identity are as good as several identities.

`CommandLine` represents an argument vector as a sequence of options, options with
attached text, numbers and words. `getopt_long` picks the next option; each case
of `main`'s switch is an action that moves `optind`. `ToolRun` continues with the
commands in `main`'s order: `Set` (range checks, the report, failure with or
without effect), `Show`, `SetBootloaderMode`. Time, other processes and the
check-then-write of `-s` are left to the modules above; here each command is one
step.

`CommandRun` knows no words, flags or registers: the line is a `plan` (the commands
asked for and, for those that set something, one key and one value) and the board a
table of `settings`. `ToolRun` maps to it at once, before `main` has read a word:
`Plan` is the reading of the whole line (`Given`, `Written`, `WrittenBlink`,
`WrittenReset`), `Registers` lists the registers one by one, `Left` the commands from
`pos` on. A command of the plan is carried out or, in a run that then fails, perhaps
not; the settings stay in their ranges; `-u` alone may go unheeded in a run that
returns 0; and the minimal tool may hang after `-p`.

`Selection` has an action per enumeration and per selection rule of the standard
tool, and per pass over the hidraw nodes of the minimal one; `Vanish`, `Appear`
and `Rebind` change the boards, their firmware and their node between any two.
`hid_open` enumerates once more and takes the first match. `opened` is the board
that the commands reach.

`SimCrawler` follows the script: `PowerCycle`, `Baseline`, `Poll`, the switches and
the rows; ModemManager lists and forgets a modem some time after it was switched
(`Leave`, `Return`). The list is one for all boards: `others` are the modems of other
boards (`OtherModems`, each a USB bus and a slot), which come and go as they like, are
counted by the wait, and may give `GetEquipmentIds` their bus. `printed`, `had`,
`back`, `refused` and `lost` are history. `ShutdownModems` has an action per call of
the tool and counts the seconds spent in its waits and, with `ReadBackAgain`, those in
which `-p` reads the state back again, as often as it likes (`late` counts them); when
`Limit` is reached systemd ends the script.

`JsonTree` keeps the pointers as the code has them beside `kids`, what the client
believes; each cJSON call is an action that moves the pointers as the code does.
`JsonText` is operators over those pointers: `Pieces` is what each `print_*`
function asks `ensure` for and writes, `Parse` what the parser makes of a text,
`Minify`, `GetArrayItem`, `GetObjectItem` and `Compare` the readers.

## 3. What the runs check

| run | instance | shows |
|---|---|---|
| `usb_interface` | 3 standard, 2 minimal processes, kills, restarts | `SoleUser`; `DriverAccounted` (no error path loses the hid driver); `OnlyClaimPreventsRestore` (the reattach fails only to the claim of another run); refinement of `BoardAccess` |
| `usb_close_race` | 2 standard | *violation*: `hid_close` can fail to restore the driver |
| `sim_assignment` | 2 standard, 1 minimal, one card | `NoSharedSim`, `SnapshotDistinct`, `SetAndSaved`, refinement of `SimTable` |
| `sim_two_minimal` | 2 minimal | *violation*: two minimal processes give both modems one card |
| `module_power` | standard runs one after the other, 2 minimal processes, 4 firmware versions | `DiscardedOnlyAfterOrphan`, `DoneMeansApplied`, `WaitEnds` |
| `power_hang` | 2 standard, old firmware | *violation*: the read-back loop never ends after a discarded request |
| `tool_run` | about 3900 command lines, both tools, three boards | `ReadAsWritten`, `ArgumentsSet`, `PrefixDone`, `BytesRefused`, refinement of `CommandRun` (`ImplementsRun`) |
| `tool_range` | the same | *violation*: arguments beyond the documented range are narrowed and accepted, and the minimal library takes card 7 on an ME10 |
| `device_life` | 1 standard process with both threads, 2 minimal, restarts | `TransferOwned`, `NoCallbackAfterEnd`, `TransferAccounted`, `QueueBounded`; `CloseEnds`, `ReadReturns`, `SoloOpens`, `FailedRunEnds` |
| `selection` | 3 boards, two with one serial number, old and new firmware, one disturbed | `RightBoard`, `VersionOfOpened`, `CrashOnlyWithoutGeo`, `FailsForAReason` |
| `scripts` | crawler with 4 cards and a modem of another board; up to 3 boards to shut down within 12 s | `WaitSound`, `RefusedOnlyFirst`, `CardsCovered`, `RowTruthful`; `ExitZeroMeansOff`, `KilledOnlyOverdue` |
| `json` | all trees of 4 items that any sequence of calls makes | `Forest`, `Linked`; `RoundTrip`, `PrintFits`, `FiveBytesMore`, `ReadersAgree` |

Each property of a passing run has a mutant in `PROJECT.json`: a plausible bug in
a modelled definition, kept next to the definition it replaces, with which the
property fails.

Several properties say how far the code can be relied on and no further:
`RightBoard` holds for the minimal tool only if the board did not get its node
during the run, `VersionOfOpened` not for a serial number that two boards have,
`CrashOnlyWithoutGeo` names the one string that is used unchecked,
`RefusedOnlyFirst` the one round in which the crawler's switch is refused unseen,
`RowTruthful` the two ways in which a row comes to a wrong number (the wait is ended
by another modem, of this board or of another, and the bus is taken from another
board's modem), `WaitEnds` the two in which the minimal tool waits for ever although
its request was accepted (a second minimal process switches the module back before the
first has read it; `-p 1 256` waits for a byte of 256). `KilledOnlyOverdue` says for
what systemd may stop the shutdown: the waits for the boards, or the seconds in which
`-p` reads back beyond its wait, which have no bound, so that one board is enough.
Two properties mark where a
violation ends: `OnlyClaimPreventsRestore` names the one reason for which
`usb_close_race` loses the driver, `BytesRefused` says that narrowing, and the
minimal library's own check of `-s`, are all that `tool_range` shows. `PrefixDone`
says what a run has done in terms of the arguments `main` holds, `ImplementsRun` in
terms of the words of the line; the latter also says that a command changes nothing
else, and that every value it leaves is in the range the usage text names.

**Bounds.** Processes are interchangeable and interact through one owner, one
driver and one board: three standard processes give a holder, a winner and a loser
of every race, two minimal ones give sharing, and the proofs lift these properties
to any number. `DeviceLife` needs one standard process only, since `UsbInterface`
covers their races; its queue limit of 3 stands for 30 (`ReadQueueBounded` is
proved for every limit). One SIM card is enough for two modems to compete;
requests include the values that narrow to valid ones (257), exceed the board
(255) and name the third module. Off times of one and two ticks are at and above
the fixed waits. For power one standard identity is enough (section 2; the proofs
cover any number), and two minimal ones, of which one can undo what the other waits
for. Firmware versions are the last old one, the first new one of both
kinds of board, and one whose stored byte wraps around. Command lines are all
pairs of some 50 phrases and all triples of the eleven phrases in which arguments
can be mistaken for options; an interaction of options needs two occurrences and
at most one word in front. Three boards give two that are confused and one that is
not; one disturbed board per run (`RestartMax`, `DisturbMax`) and one device whose strings
cannot be read (`FlawMax`) are enough for every wrong choice the code makes.
The crawler needs two rounds to get from the first card of each half to the second
(`SimMax = 4`), which start with the cards of the first round or none and with all
slots supplied; one modem of another board is enough to end a wait and to give its bus.
An off time of 2 and a limit of 12 stand for 3 s and 30 s: without late calls two boards
stay below the limit, three do not. Four items
give an only, a first, a middle and a last child and a nesting of two below a root;
`IntMax = 60` lies among the lengths of their texts, so that `ensure` meets its
limit, and `NestingLimit = 2` refuses the deepest trees.
The symmetry sets permute standard processes, minimal processes and items, and are
used only in runs without liveness; the view of `sim_assignment` drops `leaks`,
which no action reads.

`CHECK_DEADLOCK FALSE` is set where the modelled program ends or a bound is
exhausted: a tool run, a selection, the scripts, and the heap of four items.

## 4. Fairness

`PowerSpec` assumes that time passes (`TimePasses`: not everything happens in the last
second of a request, so it is a fairness of `Tick` over all moments at which somebody
waits and not over those at which it is enabled), that the firmware completes what it has
accepted and that running processes are scheduled; never that a process is killed
or a transfer fails. `LifeSpec` assumes that both threads run, that a run that has
begun to open or close goes on, that a submitted transfer is completed once it is
cancelled, has timed out or its board is gone, and strongly that the read thread
gets to handle an event that is offered to it again and again (the main thread may
take some, but is not always in a feature report) and that a timed wait times out.
Nobody has to start a run, call a function or unplug a board. Actions that can
fail do so by a nondeterministic choice inside a fair action, so progress never
relies on failures alone.

## 5. What is proved

With TLAPS, for every value of the constants under the named assumptions of the
modules (`ProcAssumption`: the two kinds of process are disjoint;
`CommandAssumption`: command lines are sequences of words; `TreeAssumption`: the
null pointer is no item; and the like). `SelectionAssumption` is the one that says
something of the host: there are at least as many hidraw numbers as boards. Linux
has 64 and the minimal tool looks at 256. The bounds that only keep TLC's state
space small (`RestartMax`, `DisturbMax`, `FlawMax`, `PollMax`) are any numbers.

- **`UsbInterfaceProofs`.** Types, `SoleUser`, `ClaimAccounted`,
  `DriverAccounted`, `QuietMeansBound` and the refinement `ImplementsAccess`. None
  of the first is inductive alone; `UsbInv` adds `HandlesAccounted`: a handle
  exists only while its process runs, hidraw descriptors die with the hid driver,
  and `is_driver_detached` is set exactly from the detach to the call that
  answers for it. `SoleUser` follows: a standard user owns the claim, so no other
  standard process does, and hid is not bound, so no hidraw descriptor is alive.
  `OnlyClaimPreventsRestore` follows too: after the release the driver is absent or
  another run's claim is in its place. With at most one standard process there is no
  other run, and `CloseRestoresDriver` is a theorem (`UsbSoloCloseRestores`), so the
  two processes of `usb_close_race` are the least that break it.
- **`SimAssignmentProofs`.** Types, `NoSharedSim`, `SnapshotDistinct`,
  `SetAndSaved` and `ImplementsTable`, under the two hypotheses
  `AtMostOneMinimal` and `LimitsAgree`. The first is necessary:
  `sim_two_minimal` refutes `NoSharedSim` without it; `tool_range` shows a board
  on which the second does not hold. Every step of `SimAssignment` is a step of
  `UsbInterface`, so `UsbInv` is inherited; `SimInv` adds `CheckStillHolds` (what the check
  established is still true when the write acts on it), which only a second user
  of the board could break, and `SoleUser` excludes one. For the last two
  `RunsUpToDate` says what each run knows of the board at each place in `main`.
- **`DeviceLifeProofs`.** For the read thread alone `TransferAccounted`,
  `QueueBounded`, `NoCallbackAfterEnd` from `ReadInv`, which adds which steps of
  the two threads go together (`ThreadsInStep`) and who may be inside the callback
  (`CallbackOwned`). In the composition `UsbInv` and `ReadInv` hold together with
  the tie between them (the thread exists only from the claim to the release), and
  `TransferOwned` follows.
- **`ModulePowerProofs`.** `DiscardedOnlyAfterOrphan` and `DoneMeansApplied` for
  any processes, firmware, off times and command lines. The heart of `PowerInv`
  is `SentIsAwaited`: with old firmware the sender of a request in hand still
  waits for it, for longer than it takes, and nobody else is on the board; so a
  request is discarded only if a run was cut short. `SeenIsDone` adds that a
  request whose sender has seen it succeed changes nothing any more.
  `NewFirmwareNotWaitedFor` says how far the narrowing of the firmware version goes:
  nothing from 2.03 to 2.55 gets a workaround (`WaitsOnlyForOld`).
- **`ToolRunProofs`.** `ArgumentsSet`, `RegistersInRange` and `PrefixDone` for any
  set of command lines. `RunInv` adds `ArgumentsThere` (the same already while the
  options are read) and `StillToDo` (a command has no effect before its turn).
  `ReadAsWritten` compares the option loop with a reading of the whole line;
  `ReadSoFar` says that flags and arguments are at every step what the part of the
  line before `optind` says, and that `optind` is never at the word that a required option
  takes or at the second half of `-c -s` (`AtWord`). `IsArgument` counts back to the last option that none takes;
  `ArgumentUnfolds` shows that this is the recursion one would write.
  `BytesRefused` needs `ChecksPassed`: a run that goes on has passed the checks of
  all commands before this one.
  `ToolImplementsRun` is the refinement of `CommandRun`. It stands on the results
  above: `ReadAsWritten` turns what `main` holds into what the line says
  (`PlanRead`, `PlannedChange`), `StillToDo` says that a register is as it was before
  its command, so that one report is one change of one key (`AppliedSetting`), and
  `RegistersInRange` that the new table is legal (`LegalSettings`). `RefineInv` adds
  that the cards exist, that a modem is reset at most once in a run and that `-l` keeps
  `main` from the commands. Reading options and going on to the next command are
  stutters (`ReadingStutters`), `Left` shrinks by the command done (`ProceedPasses`).
- **`SelectionProofs`.** `RightBoard`, `VersionOfOpened`, `NameIsKind`,
  `CrashOnlyWithoutGeo` and `FailsForAReason` for any boards, serial numbers,
  addresses, firmware and number of disturbed boards. `SelInv` carries each of them
  back through the run: an entry of the list stays true of its board unless the
  board restarts (`EntriesTrue`), the place selected is one that was asked for
  (`SelectedMeant`, `NotedMeant`), strings have been checked from a certain step on
  (`Checked`), and as long as nothing is disturbed the list has every board met so
  far exactly once, with its strings (`Undisturbed`, `ListComplete`), so that a run
  fails only for what it was asked.
- **`ScriptsProofs`.** For the shutdown service `ExitZeroMeansOff` and
  `KilledOnlyOverdue` for any number of boards, off time and limit: `ShutInv`
  adds that a module which is on and undisturbed is still among the targets
  (`NonePassedOver`) and that the time spent is at most that of the targets done and
  of the seconds read back late (`TimeSpent`). For the crawler `WaitSound`,
  `RefusedOnlyFirst`, `CardsCovered` and `RowTruthful` for any even number of cards and
  any finite set of modems of other boards: `CrawlInv` says that the list of
  modems does not grow until one is listed anew (`ListShrinks`), what the rounds
  so far have put into the modems and printed (`SingleCards`, `PairCards`), that a modem
  which is alone on the board's bus is found there and shows its own card until
  another board's is listed anew (`AloneIsRight`), and where numbers come from with the
  bus taken from this board and from another (`NumbersKnown`).
- **`JsonProofs`.** `Forest` and `Linked` for any number of items. The missing
  part is `Rooted`: every set of items has one that is held or whose parent is
  outside, that is, nobody is its own ancestor; deleting a tree needs it.
  `PrintNeverOverruns`: no sequence of pieces of any sizes
  into any buffer is written past its end, up to `INT_MAX`; a caller's buffer does
  not grow. `Utf8Exact`, `CodePointExact` and `LiteralFits`: an escape sequence
  gives the UTF-8 of its code point, for every code point, and fits in what
  `parse_string` allocated.

**Only model-checked.** Liveness (`WaitEnds`, `CloseEnds`, `ReadReturns`,
`SoloOpens`, `FailedRunEnds`), which the prover does not handle with fairness; and
`RoundTrip`, `PrintFits`, `FiveBytesMore` and `ReadersAgree`: `JsonText` walks trees
with RECURSIVE operators, which no other module does and about which nothing can be
proved. Every other property of a passing run is a theorem.
`ClaimAccounted`, `QuietMeansBound`, `NameIsKind`, `WaitsOnlyForOld` and
`RegistersInRange` are theorems, too, that no run repeats; TLC checks the ranges of the last one as a part of
`ImplementsRun`.

## 6. Disagreements between code and documentation

Each violation run above is a finding in `PROJECT.json` with the quoted line:
the reattach of `hid_close` that can lose a race, the unprotected check of the
minimal library, the read-back loop without a limit, and arguments that are
narrowed before they are checked (with the limit of ten cards on an ME10). Two more
have no run of their own. `g_fw_version` is an `unsigned char`, so version 3.00
becomes 44 and gets the "workarounds for known issues in FW versions <= 2.02"
(`13Y063.c:523`): `StoredFwVersion` models it, its effect is a superfluous wait, and
`NewFirmwareNotWaitedFor` shows that no version below 2.56 is concerned.
`minify_string` takes the second half of an escaped backslash at the end of a
string for the escape of the closing quote, and white space is then removed from
the next string: `RoundTrip` fails as soon as `StringValue` ends with a backslash.
The tool does not call `cJSON_Minify`.

## 7. Not modelled

- How digits become a number, options bundled in one word, and long names; `char`
  is taken as signed, as on the boards' x86 hosts.
- `hid_init`, string descriptors in other languages and other accessors of
  hidapi that the tool does not use or that only return a field.
- In cJSON: references (`cJSON_CreateStringReference`, `cJSON_AddItemReferenceTo...`),
  the digits of numbers, failing allocations inside `ensure`, the `Create...Array` helpers.
- The wording and layout of all output, `--show-config`, `--help`.
- The other hidapi backends (hidraw, Windows, macOS): vendored, and not what the
  package is built on. Packaging and CI have no run-time behaviour.
- The firmware is external: `ModulePower`, `SimTable` and `ToolRun` assume of it
  only what the tools' comments and code rely on. In `ModulePower` a request takes as
  long as the tool's comments and waits say, and an off time of 0 is left out.
- The time that calls take beyond the waits and the read-back of `-p` is taken as zero
  in `ShutdownModems`, so a slow host is stopped earlier than `KilledOnlyOverdue` says.
- In the crawler: the exit on a third modem of a bus, a modem that vanishes between two
  `mmcli` calls of one step, and what other boards' users do to their own modems
  beyond listing and leaving.
- `cJSON_Duplicate` copies the pointers of a tree by a bijection to fresh items, so
  `Linked` checks what becomes of a copy, not the walk that makes it (`cJSON.c:2772`).

## 8. Plan

What is left are the parts of cJSON named in section 7: references, whose deletion
must not free what they share, and failing allocations inside `ensure`, which frees
the buffer, so that printing has to give up at every level. The tool uses no
references.
