# Formal models of the CAL-BPM software and firmware

This directory holds TLA+ models of the beam position monitor: the application that runs on the
MicroBlaze processor (`src/BPM.sdk/SDK/SDK_Export/BPM_APP/src`, called `APP` below) and the logic
of the FPGA (`src/BPM.srcs/sources_1/edk/bpm`, `HDL`). TLC checks the models on small instances;
TLAPS proves the theorems for every value of the constants. `PROJECT.json` lists the components,
the runs with what each shows, the source lines behind every definition, the hazards and the findings.

## The system

The processor runs one loop (`main.c:81`): take one packet from the network, then `checkForWork`
(publisher, console, clocks, SFP modules). There is no operating system and handlers run
to their end, so what interleaves is: the main loop with the hardware, packets with one
another (lost, repeated, reordered by the network), and the power with everything. There is one
exception: while the flash driver waits for the device it calls `checkForWork` itself
(`xilflash_intel.c:1407`), so the console runs in the middle of a write.

| component | state | operations | interacts with | hard parts |
|---|---|---|---|---|
| waveform recorder service, `waveformRecorder.c` | one `struct recorder` each, the round-robin index | IOC commands, `wfrCheckForWork`, `wfrAckPacket` | hardware registers, publisher port, command server | stop-and-wait over UDP, re-arming under a transfer |
| publisher, `publisher.c` | subscriber, times of the last packets | subscription, acknowledgements, slow data, system monitor | all readings | change of subscriber |
| command server, `server.c` | last command, last reply, statics of handlers | one handler per point | every other part | duplicates, two IOCs |
| TFTP server, `tftp.c` | file, offset, block, buffer, times: one set for all clients | RRQ, WRQ, DATA, ACK | flash, tables, parameters | repeated packets, failing writes, several clients |
| flash memory and driver, `linearFlash.c`, `xilflash_intel.c` | the contents, the device's mode and status | erase and program by blocks and buffers, poll | TFTP server, start-up, console | torn writes, a write inside a write |
| system parameters, `systemParameters.c` | the structure, its image | readback, upload, console | every initialisation | partial updates, defaults |
| attenuators, `afeAtten.c`; local oscillators, `localOscillator.c/.v` | tables, what the FPGA works with | upload, readback, commands | TFTP server, parameters | tables that do not fit, several writers of one register |
| console, `console.c` | line, pending question | commands, answers | parameters, flash | one packet at a time |
| recorder hardware, `genericWaveformRecorder.v`, `adcWaveformRecorder.v` | registers, FIFO, AXI master | a clock | memory, software | the clock at which several things happen |
| cell links, `cellComm.c`, `cellCommunication.v` | two reset sequences, one control register | status poll, index command | Aurora cores | links that come and go, a time that wraps |
| ADC clock, `afePLL.c` | lock state, delay, jog | scans, jogs, synchronisation | PLL, event receiver, main loop, command server | three writers of one delay |
| event receiver, `evr.c` | triggers of events, time of day | start-up, assignments, time | command server, everything with a time stamp | shared table, time read in parts |
| cell data switch, event synchronisation, clock crossing | packets, counters of two clock domains | a clock | Aurora cores | clock domains |
| autotrim, SFP, sensors | sequencers | a clock or a poll | I2C, SPI | order of operations |
| signal processing, position calculation | filters | a sample | | arithmetic |

What makes each part correct is stated in its module, at the properties. The hazards, each at its
line, are in `PROJECT.json`.

## Modules

| module | models | runs |
|---|---|---|
| `WfrTransfer` | recorder service, its port, hardware as registers show it, network, IOC | `MCWfr` (module `MCWfr`: three settings), `WfrLive` |
| `WaveformArchive` | abstract: what an IOC may rely on | implemented by `WfrTransfer` (`MCWfr`) |
| `PointHardware` | what is behind the points the hardware changes: autotrim register, self-trigger register, armed bit | part of `CommandServer` |
| `CommandServer` | command server, network, IOCs, console's debug command | `CmdOrder`, `CmdTwoIocs` (module `MCCommand`: two settings each) |
| `AtMostOnce` | abstract: each command is carried out at most once | implemented by `CommandServer` (`CmdOrder`) |
| `TftpServer` | TFTP server, flash pages, clients, network | `MCTftp` (module `MCTftp`: uploads and downloads) |
| `FlashDriver` | flash device and its driver, what runs while it waits, the power | `FlashOps`; counterexample `FlashNested` |
| `CellLinks` | link state machines and the register they share | `MCLinks` |
| `AfeClocks` | delay of the ADC clock: scans, jogs, both checks of the main loop | `MCLinks` |
| `EventReceiver` | start-up, table of triggers, time of day | `MCLinks` |
| `SystemParameters` | the parameters from upload and console to start-up | `MCService`; counterexample `ParRotation` |
| `DuplicateIoc` | detection of a second IOC, system monitor flag | `MCService` |
| `CalibrationTables` | attenuators and oscillators: tables from upload to the FPGA | `MCService` |
| `GenericRecorder` | recorder hardware, clock by clock | `RecRing`; counterexample `RecFull` |
| `WfrTransferProofs`, `CommandServerProofs`, `TftpServerProofs`, `RecorderProofs`, `FlashDriverProofs`, `FlashStorageProofs` | proofs about the component each is named after | |
| `LinksProofs`, `ServiceProofs` | proofs about what `MCLinks` and `MCService` put side by side | |

`MCLinks` and `MCService` put three modules side by side. Those parts share no state, so nothing is lost by
running one at a time: `part` says which, and the others rest. `MCWfr`, `MCTftp` and `MCCommand` run one module with
two or three sets of constants, told apart by `setting` or `kind`, by an `INSTANCE` with other values.
A counterexample run checks what a document or a comment says, and TLC shows how the code departs
from it (below, Findings).

An operator marked "mutant" is how the definition after it might have been written
wrongly; no specification uses it. `PROJECT.json` says which property then fails.

### What each run shows

| run | question | distinct states |
|---|---|---|
| `MCWfr` | ring recorders re-armed, disarmed and reconfigured at any time: is what leaves under one number one stable acquisition, and does the IOC see an archive? With counts left alone under an acquisition and samples stored when they are announced: does each block hold the samples captured? | 1 637 000 |
| `WfrLive` | does every transfer end, is every full recorder served and, once buffers are to be had, announced unless the IOC arms or disarms it? | 15 300 |
| `CmdOrder` | order-keeping network, one IOC, resets and a restart, settings or points the hardware changes: is each command carried out at most once, do accepted writes hold, does exactly the sequence reset? | 2 540 000 |
| `CmdTwoIocs` | two IOCs, any order, settings or points the hardware changes: is every reply an answer to its question? | 1 560 000 |
| `MCTftp` | is an upload that ended well in the flash, and a download that ended well complete? | 945 000 |
| `FlashOps` | does what was written stay, is nothing else touched, can the device be read afterwards? | 713 000 |
| `MCLinks` | do the resets, the delay and the triggers stay those of their owners, is the time consistent, do links and clocks recover? | 321 000 |
| `MCService` | what does start-up make of parameters and tables that were written, torn or not written; does the FPGA work with whole tables; are two IOCs detected? | 948 000 |
| `RecRing` | does the ring hold the window asked for? | 983 000 |
| `RecFull`, `ParRotation`, `FlashNested` | see Findings | |

### WfrTransfer

`rec[r]` is the `struct recorder`, `recorderIndex` the static of `wfrCheckForWork`, `hw[r]` the
registers (armed, full, counts) with the samples the buffer holds, `net` every datagram
ever sent: any may be delivered at any time and any number of times, or never. `Complete` ends an acquisition and raises
full; a ring recorder's FIFO may then still hold samples (`lag`), and `Drain` moves them to the buffer and the address
register with them, so that `headerPacket` may read an address that is still on its way (`Address`). `AnnounceFull`,
`RetryPacket`, `Abandon` and `PassOver` are the four ways through `wfrCheckForWork`;
`WfrAckPacket` is the acknowledgement; `ArmCommand` and `ArmWrite` are the two halves of the arm
command, between which the hardware may complete an acquisition. `pbuf_alloc` may fail.
Quantities are in samples, and `aged` says that the time-out has passed.

- Blocks: `BufferStable` (no acquisition while a transfer runs), `OneAcquisitionPerNumber`,
  `AckedBlocksReceived`, `TransfersOfQuietCounts` (each block holds the samples captured, wherever
  the ring pointer stopped, and the transfer ends with the last one), and the refinement of `WaveformArchive`
  by the blocks received that were read when all their samples were stored (`Kept`): one that is read earlier
  and then sent again may hold other samples under the same number.
- Liveness (`WfrLive`): every transfer ends, every full recorder is served, and, once no allocation fails any more, its
  header goes out unless the IOC arms it again or disarms it: disarming clears the full flag, too
  (`waveformRecorder.c:582`), and no header is ever sent (`withdrawn`).
- Bounds: up to two arm commands and two acquisitions, a buffer of five samples in packets
  of two (a full packet, a short last one, and a wrap), two retries; counts and pretrigger counts above
  what fits, so that they are clamped. The software's copy of the counts is what positions are computed from; the history
  variable `disturbed` has the recorders whose counts were changed between arming and readout and those whose header
  went out before their samples were stored, and `TransfersOfQuietCounts`
  is about the others. In the setting "anytime" counts of one ring recorder change at any time, and it is full when its samples are
  stored; in "late" the FIFO lags behind by up to one sample and the counts stay; "quiet"
  adds the ADC recorder, counts change only while a recorder is quiet and headers wait for the samples. At most one
  allocation fails, in "anytime". The proofs do not depend on the bounds.
- Fairness: strong for `wfrCheckForWork`, since the main loop comes back to it after each packet,
  so packets that disable it for a moment cannot keep it away; weak for the arm command's write,
  which is the next statement, and for time.

### CommandServer

`number`, `latest` and `times` are the IOC's side; the server keeps `lastCommand`, the last reply and
the settings. A point stands for every handler of its kind: stored as it is, clamped, the reset sequence, points that
answer zero or nothing (`Settings`, `ZeroPoints`, `SilentPoints`), and points that read what the hardware makes of
them (`HardwarePoints`). In `CmdOrder` the network keeps the
order and loses and repeats; then each command is carried out at most once between restarts. With reordering
(`CmdTwoIocs`) this is not so, because the server remembers only the last command.

`PointHardware` models what is behind the last kind of points. The autotrim block takes a mode and a filter shift into its
register as pending and puts them into effect when it is idle (`autotrim.v:148,186`); its status follows at the next pilot
tone (`Check`), and that is what `atEnable` is answered with. The handlers read the register, change a field and write
it back, but what they read is in effect, not pending, so that of two settings
in quick succession the second takes the first one back (`Written`); selecting the algorithm does the same, as it
selects the kind of pilot tone. Of `selfTrigLevel` the level is as written and the overload bits above it are the hardware's
(`bpmTop.v:216`); the armed bit drops when an acquisition ends. The hardware moves between any two steps of the program
(`HardwareMoves`) and up to two steps between the accesses of a handler (`Later`).

- `ReplyTellsSetting`: a reply tells what a setting reads at the moment it is sent, also when it is the kept one
  sent again. For a point of the hardware it tells what the point read when its last command was
  carried out; a repeated reply is as old as that (`shown`). The debug flags are left out, for the console writes them.
- `AcceptedWriteHolds`: what the IOC was answered of a setting is true until its next command or a restart. What the
  hardware shows is not, but a mode, a shift or a level that was written is still in its register, pending or in effect,
  until the next command; that one may take it back.
- `ResetBySequence`, `CarriedOutOnce`.

Bounds: four commands are enough for a reset sequence with one value too many, three for two autotrim settings and
another command. The setting "plain" has points that keep what is written, and the reset sequence or the console; "hardware"
has the points of the hardware. The IOCs of `CmdTwoIocs` use the same numbers, so a command of one may be taken for a
duplicate of the other's.

### TftpServer

The statics of `handlePacket` are the variables. Files are kept in flash by pages, tables
are collected in `ioBuf` and handed to a parser. Clients take turns, but packets of one that gave up may still be
under way. Writes, allocations and the power may fail (`FaultKinds`, `MaxFaults`). Every unit tells which file and place it
was in at first, or which transfer it was sent by, so units of two files are never taken for each other.

- `UploadStored`: whoever saw its last block acknowledged finds the file in flash, unless
  a failure occurred that the server does not report (see Findings).
- `DownloadIntact`: a client that has got a short block has the file as it is in the memory at that moment.

The network keeps the order of all packets ("upload") or of the requests only ("download"). Uploads need the order: a late
block of a transfer that is over would be stored in the file of the next. Downloads need that of the requests: TLC
showed that a request of an earlier client, delivered when the server has had no data or acknowledgement for thirty
seconds, changes the file in the middle of a download, whose next block then comes from the other file (`tftp.c:259`; the comment at
line 228 grants as much). The server does not ask whether an acknowledgement belongs to a transfer that reads (`tftp.c:368`);
packets in order, no acknowledgement of a download reaches it once an upload has begun.

Bounds: units instead of bytes, blocks of two, pages of four, an area of five; an upload that just fits and one that does
not, downloads whose last block is a short one or an empty one; block numbers wrap at three for uploads and not for downloads,
of files that have fewer blocks than there are numbers (see Proofs).
Out of scope: `FLASHIMAGE.bin`, which covers all files, and power failing inside `setSize`.

### FlashDriver

`cells` is the device's memory, `dev` its mode (contents, status or identification), whether it is busy and its latched
error, `pending` what it is about to change: an erase or program operation that fails or loses its power has
changed any part of that. `frame` is the stack of writes under way: one of the main program, and inside it, whenever it
polls, one of the console. The steps are the commands of the driver in their order:
`Unlock`, `EraseBlock`/`BlockErased`, `ProgramBuffer`/`BufferProgrammed`, and three ends, `Written`, `PollError` and
`UnlockFails`. A write erases the page it begins in when it begins at the page's start or
reaches a new page. A word is the set of its bits that are one, and a program operation can only clear bits; a status
register is such a word, so that contents can be taken for a status as the code would. The poll takes exactly 0x0080
for success, and any other word with the ready bit for an error.

- `UndisturbedPoll`, `RestsInArrayMode` relate what the driver does next to the mode the device is in.
- `StoredInFlash`: what a write has reported as stored stays, over all writes, failures and
  power failures that follow, until it is written anew; if the console has written inside a write this is not so. TLC
  found, with 0x0080 among the data, that a disturbed poll takes such a word of the contents for the status and
  reports blocks as stored that are not; this follows from the finding `FlashNested`.
- `OnlyWhatIsWritten` is an action property; `WriteEnds` holds unless the console has written inside a write: the
  outer poll may then read contents without the ready bit for ever.
- Bounds: three pages of two erase blocks and four buffers, blocks of four words of which two make a page, the
  parameters in the last page, one failure, one nested write, three writes of the main program. So a file crosses a page, its second
  block finds its page erased, and parameters are written before and after.
- Fairness: weak for the driver, which is the running program, and for the device's end of an operation.

### CellLinks

`CellCommStatus` is the publisher's poll, which cranks one machine after the other; `Goto`, `Control` and the six
states are those of `crank`. `control` is the software's copy of the shared register, `csr` the register. A link that
goes down needs none, one or both resets to come back (`needs`), and takes time (`training`).
`LinksResetByTheirState`: neither the other link's machine nor an index command disturbs a link's resets.
`CellLinksComeBack`: a link is up again and again, however it fails. It rests on the count of microseconds:
that is computed from 32-bit ticks and so wraps at `Wrap`, well below 2^32, which makes a difference taken over the
wrap a large number modulo 2^32: a wait may end early, never late. The mutant with a signed difference waits for ever.
Bounds: `Wrap` 6, waits of 3, 1 and 0, one failure of one or both links. Fairness: the publisher polls, links that can train do, time passes.

### AfeClocks

`afeCheck` and `afeLOsyncCheck` alternate, and the command `RescanAdcClkDelay` falls between passes. Which delays are
good is external; a scan returns any delay that the code computes from square waves (`Waves`): each clock may rise and fall
anywhere in the range, or not at all, so the scan that finds only falls is among them (`afePLL.c:360`).
`DelayNearScan`, `AfeTypeOK`: whoever moved it last, the delay is within three steps of the last scan and in range.
`AfeOscillatorsStayInStep`: once the timing system calms down the delay ends where the oscillators stay in step, if there
is such a delay within three steps of the scan. `AfeReferenceIsScanned`: a reference that is back is scanned for.
Bounds: six delays, two ADCs, two upsets, times of one tick. Fairness: weak for the passes of the main loop, for the timing
system coming back and for time; strong for the pass that jogs, because oscillators
out of step are found so again and again, but perhaps not on every pass.

### EventReceiver

`action` is the table of triggers of each event. `SystemTriggersHold`: what the IOC assigns never takes a trigger of
the system away or gives it to another event. `evrCurrentTime` is modelled read by read: `TimeIsConsistent`.
Bounds: three events, one trigger of the IOC, two ticks in a second, two seconds; one event has two triggers of the system.

### SystemParameters

Five fields stand for twenty, one for each way a field is checked. Writes
erase the page and fill it from its start, so a torn write leaves good fields and then erased ones.
`SavedSurvives`: what was last written is what start-up comes up with, whatever was refused
or declined in between. `NoMixAtBoot`: a torn image is never used in part but for network
parameters, and these are never what an erased page holds.
Bounds: one good value besides the default and one odd value per field. A division by
zero in `systemParametersReadback` (an FA marker of zero with whatever checksum) is modelled as a refusal.

### DuplicateIoc

`duplicateIOCcheck` with its two times as ages, in the proportions of the code's (10, 15 and 2 seconds as 6, 9 and 2).
`FlagTellsContention`: two senders each heard often enough are detected and stay detected; one
that has the BPM to itself clears the flag at the latest after both times. The property is about what the function returns, not
about the flag of the monitor packet sent last, which takes that value when it is sent.

### CalibrationTables

The image of each table in flash, the copy in memory and what the FPGA holds are three variables; uploads
(`AttenSetTable`, `LocalOscSetTable`, `UploadTrims`), commands (`AttenSetCommand`, `SetGainCompensation`, `SetSumShift`),
`Start` and a power failure (`Stop`) move them. Writes to flash may fail half-way, and an oscillator's upload that is refused has
overwritten part of the table in memory. `GainFollowsTable`: the gains in the hardware are those of table,
attenuation and command in use, whichever changed last. `WholeTablesInUse`: no part of a failed write is ever in use.
`StoredTablesComeBack`: the next start uses what was stored, but for the two kinds of tables named under Findings.
`FaShiftIsLargest`: the shift of the fast data is the largest that does not overflow, for each length of the pilot tone table
the oscillators run with. Gain factors are in quarters, or `NaN`: what `strtod` makes of "nan" and what an erased word
is. The upload lets it through, and a product with it is anything. Bounds: two channels, two rows,
tables of up to six rows with room for five, three changes, one failure.

### GenericRecorder

One action, `Clock`. All registers are read as they were before the clock, and of two
assignments the later in the text counts, so arming, the end of an acquisition, a word written
and an AXI answer may fall on the same clock. `RingHoldsWindow`: when an acquisition is complete and the FIFO
drained, the ring holds the samples asked for, in order, up to the address register that `headerPacket`
starts from; this is what `WfrTransfer` assumes of `Complete` and `Drain`. `TransferInRing`: no AXI transfer leaves the memory.
Excluded are acquisitions that lost samples (FIFO
overflow, AXI error). Bounds: a ring of four samples, transfers of two, five samples, two
acquisitions of one or three samples, two of them pretrigger.

## Findings

| run | what |
|---|---|
| `FlashNested` | while a write to the flash waits, the console may write too; it ends with the device answering with its contents, which the outer write then polls for its status (`xilflash_intel.c:1407`) |
| `ParRotation` | a rotation that an upload refuses is in the structure already; a later `net` or `mac` command stores it with a good checksum (`systemParameters.c:374`) |
| `RecFull` | the full flag rises when the sample after the last one arrives, before the last ones are in memory (`genericWaveformRecorder.v:155`) |

Seen while modelling, and stated in the assumptions of the properties rather than in runs of their own:

- A header for which no packet buffer is to be had is lost with the full flag (`waveformRecorder.c:495`), so `WaveformIsAnnounced` counts from the last failed allocation.
- Disarming a full recorder withdraws its waveform without a word (`waveformRecorder.c:582`).
- A ring recorder may be announced before its samples are stored (finding `RecFull`): the start is then computed from an address that is
  still moving (`waveformRecorder.c:334`) and the blocks sent may hold older samples. `TransfersOfQuietCounts` leaves such waveforms out, the archive their blocks.
- Of two autotrim settings in quick succession the second restores what the first has changed (`autotrim.c:47`, `autotrim.v:148`), and
  `atEnable` is answered with a status that does not follow a write before the next pilot tone (`server.c:121`).
- A gain factor "nan" passes the test of the upload (`afeAtten.c:129`) and is stored; the start, which tests for
  it (`afeAtten.c:180`), calls the table corrupt and takes ones. `StoredTablesComeBack` leaves such tables out.
- A count written after arming shifts what is sent, since `headerPacket` uses the software's copy (`waveformRecorder.c:334`); `EPICSnotes.html:1258` promises otherwise. `TransfersOfQuietCounts` is about counts left alone.
- A request for block 0 and its acknowledgement are the same datagram, so a repeated request fetches block 1 unasked (`waveformRecorder.c:295`).
- ADC counts up to the capacity with few pretrigger samples read on at the beginning of the linear buffer (`waveformRecorder.c:220`).
- The size of a file that could not be noted does not keep the last block from being acknowledged (`tftp.c:122`), and a table that was refused has its last block, repeated, acknowledged (`tftp.c:316`); `UploadStored` leaves both out.
- A second client may start while a first has sent no block for a while (`tftp.c:259`); the clients of the model take turns, and requests of earlier ones are not delivered late.
- A table whose timing is out of range is accepted and thrown away by the next start (`systemParameters.c:374`).
- Uploaded trims come into use with the next attenuation command, before the restart, and the attenuation is not limited to the rows of the table (`afeAtten.c:74`).
- An oscillator table with exactly as many rows as there is room for is stored and then called corrupt at the start (`localOscillator.c:302`), a refused one leaves the table in memory half overwritten, and the range test at line 218 cannot fail. `StoredTablesComeBack` leaves the full table out.
- Software reads the oscillators' synchronisation flags from bits 27 and 28 (`localOscillator.c:41,390`); the hardware has them in bits 5 and 4 (`localOscillator.v:94`).
- The fields `auroraReset` and `gtReset` hold each other's bit (`cellComm.c:65,72`), so the short reset is the transceiver's; links come back all the same, after both.
- The latch of an unlocked clock is not cleared, since address and value of the write are swapped (`afePLL.c:629`).
- A flash block that cannot be unlocked leaves the device answering with its status (`xilflash_intel.c:866`); `RestsInArrayMode` leaves it out.
- The duplicate-IOC flag is up for the first seconds after each start (`server.c:33`); `FlagTellsContention` counts from then.

## Proofs

| theorem | says |
|---|---|
| `WfrTransferProofs!TypeCorrect` | types, in particular offsets within the buffer and counts within the capacity |
| `WfrTransferProofs!BufferIsStable`, `NumbersNameAcquisitions`, `StopAndWait` | the three safety properties |
| `WfrTransferProofs!ImplementsArchive` | `WfrTransfer` implements `WaveformArchive` by the blocks that were stored when they were sent |
| `CommandServerProofs!CommandsOnce` | with one IOC and an order-keeping network `CommandServer` implements `AtMostOnce` |
| `FlashDriverProofs!FlashTypesHold`, `PollsReadStatus`, `DeviceIsReadable` | addresses in the device; undisturbed polls read the status; the device rests readable |
| `FlashDriverProofs!OthersAreKept` | a step changes words of a write under way only (action property) |
| `FlashStorageProofs!WrittenStays` | what was written stays (`StoredInFlash`) |
| `TftpServerProofs!TftpTypes` | types: offsets, counts and what is left to read stay within file and buffer |
| `TftpServerProofs!TftpUploads` | `UploadStored`, when packets keep their order |
| `TftpServerProofs!TftpDownloads` | `DownloadIntact` (action property), for files of fewer blocks than there are block numbers |
| `LinksProofs!CellTypesHold`, `ResetsAreTheStates` | types; `LinksResetByTheirState` |
| `LinksProofs!DelayInRange`, `JogsStayNear` | the delay stays in range and near the last scan |
| `LinksProofs!TriggersStayTheSystems`, `TimeReadWas`, `EvrTypesHold` | triggers of the system; the time read; types |
| `WfrTransferProofs!QuietTransfers` | `TransfersOfQuietCounts` |
| `CommandServerProofs!ServerTypesHold`, `RepliesTellSettings`, `ResetsBySequence` | types; every reply is an answer to its question (`ReplyTellsSetting`); the reset sequence: for any IOCs and any network, whatever the hardware does |
| `CommandServerProofs!AcceptedWritesHold` | with one IOC and an order-keeping network an accepted write holds until the next command |
| `RecorderProofs!TransfersInRing`, `WindowsHeld` | AXI transfers stay in the memory; the ring holds the window (`RingHoldsWindow`) |
| `ServiceProofs!ParametersTypesHold`, `BootsFromOneImage`, `WrittenIsBooted` | types; `NoMixAtBoot`; `SavedSurvives` (action properties of the start-up) |
| `ServiceProofs!DuplicateTypesHold`, `FlagIsRight` | types; `FlagTellsContention` |
| `ServiceProofs!TablesTypesHold`, `GainsFollowTables`, `TablesAreWhole`, `StoredIsInUse` | types; `GainFollowsTable`; `WholeTablesInUse`; `StoredTablesComeBack` |
| `ServiceProofs!ServiceTypes` | the three keep their types side by side |

They rest on the named assumptions about the constants; TLC evaluates them in every run. Most say that
sizes are positive and fit each other. Besides: the marks `Odd` and `Erased` are not versions of a field
(`VersionAssumption`), there are finitely many IOCs, and there is a channel. The theorems about
`CommandServer` that need one IOC and an order-keeping network have these as hypotheses. So have those about `TftpServer`:
`Mode` (packets keep their order, or clients only read) for types and downloads, `InOrder` for uploads, and `FewBlocks`
for downloads, which the code meets: its largest file is just under 16 MB in blocks of 512, half as many as there are numbers of 16 bits. `FLASHIMAGE.bin` would not meet it. Each inductive invariant was
model-checked on the constants of its component's run before it was proved.

- `WfrTransfer`: the invariant is `IInv`. The properties alone are not inductive, because whether a block may be
  overwritten by another version depends on what numbers may still be used (`Numbering`, `UnpublishedUntilServed`), on
  every block in the network being preceded by its header (`HeaderFirst`) and by the blocks before it
  (`BlocksInOrder`), and on acknowledgements being receipts (`AcksAreReceipts`). The proof treats sending a data block
  and a header once each (`SendData`, `SendHeader`) and uses that in retries, acknowledgements and announcements.
  `TransfersOfQuietCounts` rests on `QuietInv`: for a recorder left alone the counts in the hardware are the software's
  (`CountsAgree`), the pointer rests at the end of the window (`PointerAtEnd`), and the transfer is at its place in it
  (`AtItsPlace`) with all its samples stored. It needs `IInv`, which keeps the buffer still and the header's number to itself.
- `CommandServer`: `OnceInv` says that a number names a command and that the command remembered is the latest carried
  out; order comes from the assumption that the network keeps it (`InOrder`), and the theorem needs it.
  `RepliesInv` needs no order: the kept answer tells what its point reads now, or read then if it is the hardware's, since
  every command that changes a setting replaces it (`AnswerKept`), and a reset that returns has a command to answer (`ResetRemembered`).
  `WriteKept` says that the register of a write just carried out has what was asked for: lemmas about `PointHardware` show that a
  write leaves it there, pending or in effect (`WrittenTells`, `AfterWriteTells`), and that no step of the hardware
  takes it away (`StepsKeep`, `LaterKeeps`). `SequenceSeen` says what the index of
  `io_fpgaReset` tells of the last three values. `AcceptedInv` says that the command remembered
  is the newest delivered (`LastIsNewest`), that a reply to it carries the kept answer (`RepliesAnswer`), and that the IOC has
  sent nothing newer than what it was answered (`AcceptedIsKept`): so no other write can come after an accepted one.
- `TftpServer`: `NetInv`, common to all three theorems, says of every packet ever sent whose it is, which block it is about and
  that the sender has got as far (`NetOK`), that clients take turns and nothing was delivered of a later one (`TurnsOK`), that
  a client is where it was told to go (`HeardOK`), and that what is left of a download is in the file (`PlaceOK`).
  For uploads, `ProgressOK` ties the server's block number and offset to the newest block delivered, says that what is before
  the offset is the client's (`PrefixOK`) and that the rest of a page begun is erased (`RestErased`), without which the next write would
  spoil it; a last block that was acknowledged has been stored (`StoredOK`), and `FileOK` keeps other files out.
  Block numbers may wrap as often as they like: a client is never more than one block ahead (`DataUp`, `AckTaken`), and
  two numbers in a row differ (`BlockNumber`). For downloads, `SourceOK` says that the server reads in the client's file, where the block of number `lastBlock` begins; so
  every block in the network of a client that goes on is that block of its file (`DataOK`), and what a client
  has put together is the beginning of its file (`GotOK`). The block number 0 is what a refused request leaves (`tftp.c:258`):
  then `SourceOK` does not tell the place, and no client takes the block. That is why numbers may not wrap
  here (`AnsweredBlock`): a client would take it.
- `GenericRecorder`: `RingInv` says that the FIFO holds what the transfer under way still has to read (`TransferFed`).
  `WindowInv` says, unless a sample was lost, what the counters tell of the acquisition (`Counting`), and that the samples counted
  are the last ones recorded, to be found in the FIFO, at its output and in the ring back from the write address (`Placed`).
  A transfer left over from an earlier acquisition may still be writing elsewhere, but then has no sample of this
  one: this part TLC showed to be needed. `ClockIsTick` splits the one action into what each register becomes; the lemma
  `Around` does the arithmetic of positions in the ring.
- `SystemParameters`: `ParametersInv` says that nothing in memory is ever what an erased page holds, that the flash memory is complete with its
  checksum or has none (`FlashWhole`), and that what was saved is there.
- `DuplicateIoc`: `DuplicateInv` relates the ages of the last change and of the last suspect change to
  how long each sender has been silent: all but the last sender since the change (`OldSpokeLast`), two of them at
  a suspect change (`SuspectsSpoke`), and a contention makes the changes follow each other (`ContendersChangeOld`).
- `CalibrationTables`: `TablesInv` adds to the properties that a complete image in flash is one that was
  accepted and that a partial one is not taken for complete (`GainsWhole`, `OscillatorsWhole`).
- `FlashDriver`: `FlashInv` adds to the properties what each write under way may be doing (`FramesOK`), that the device is
  busy only with what a write waits for (`BusyOK`), and that every write but the innermost is marked as interrupted.
  For what stays stored, `StoreInv` describes how far the write has got: which words of its page are erased
  (`Erasing`), which are programmed and which are still erased (`Programming`), that it goes where the file ends or to
  the parameters (`WhereTo`), and that the rest of the page is erased for the next block (`ReadyForNext`).
  It speaks of behaviours up to the first nested write, since nothing like it holds afterwards. The arithmetic of
  pages, blocks and buffers is in lemmas of its own (`PageBounds` to `NextBlock`).
- `CellLinks`: `ResetsInv` relates register, copy and states of both machines at once; each way through a machine changes one
  link's and rewrites the other's.
- `AfeClocks`: `DelayInv`; the lemmas `EndsOf` and `ScanInRange` show that the ends of the ranges of edges exist.
- `EventReceiver`: `TableOK` keeps the table of the start-up until it ends, since what `evrInit` leaves depends on it;
  `ReaderOK` orders the three readings of the time.

Only model-checked:

- Liveness, in `WfrLive`, `FlashOps` and `MCLinks`: fairness and ENABLED are out of the prover's reach.
- `FaShiftIsLargest`: it is about powers, for which the provers have no theory, and powers need an induction over data, which
  the provers at hand cannot instantiate. `TablesTypesHold` shows that the shift stays in range.

## Not modelled

- The cell data switch, the crossing of clock domains and the event synchronisation: their promises rest on the ratio of
  clocks and on vendor cores. Hazards there (a watchdog that cuts a packet, a value taken over while it
  changes) are therefore not in the list of hazards.
- The two-phase buffer of `adcWaveformRecorder.v`; the variants of the flash driver for other bus widths, which are
  not used; the slow data of the publisher; filter coefficients; console commands that only print.
- Whether TFTP transfers come to an end, which the code does not promise: the only time-out is the one at the next request.
- The gains of autotrim, position calculation and signal processing: arithmetic on wide samples. SFP modules and sensors: periodic readouts
  without a decision that lasts.
- A change of subscriber in the middle of a transfer (`publisher.c:230`) and waveform numbers after a restart
  (`waveformRecorder.c:122`) are hazards without a property: both take an IOC that does not
  ask for a header again, of which the code says nothing.
- Wiring, constants, formatting of numbers and messages, host scripts. `PROJECT.json` gives the reason for each component.

## Plan

Done: the recorder service, the command server, the TFTP server, the parameters, the recorder
hardware, the detection of a second IOC, the flash driver, the cell links, the ADC clock, the event receiver, the calibration tables.

1. A second subscriber in `WfrTransfer`; `GenericRecorder` composed with the service.
2. `AdcRecorder`, the other recorder hardware; the console's line editor.
3. The integer square root and the position calculation against reference definitions over bounded inputs.
