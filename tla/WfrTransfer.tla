---------------------------- MODULE WfrTransfer ----------------------------
(***************************************************************************)
(* The waveform recorder service of the BPM application: the recorders'     *)
(* state machines in waveformRecorder.c, the publisher's UDP port through   *)
(* which waveforms leave and acknowledgements arrive (publisher.c), the     *)
(* recorder hardware as its registers show it, and, external to the         *)
(* repository, the network and the IOC that collects the waveforms.         *)
(*                                                                         *)
(* Quantities are in samples: a recorder's bytes are bytesPerSample times   *)
(* as many and the packet payload is a whole number of samples for both     *)
(* sample sizes.  The network is the set of datagrams ever sent: one that   *)
(* is never delivered is lost, one may be delivered at any time, in any     *)
(* order and any number of times.                                          *)
(***************************************************************************)
EXTENDS Integers

CONSTANTS
  NRec,            \* BPM_PROTOCOL_RECORDER_COUNT; recorder 0 is the ADC one
  Used,            \* the recorders the IOC arms and configures
  Capacity,        \* acqSampleCapacity, the size of a recorder's buffer
  Payload,         \* samples in a full data packet
  FixedPretrigger, \* ADC_WFR_HW_PRETRIG_COUNT
  RetryLimit,      \* RETRY_LIMIT
  AcqValues,       \* values the IOC writes to the acquisition count
  PretrigValues,   \* values the IOC writes to the pretrigger count
  InitialCount,    \* acqCount at start-up
  MaxWaveform,     \* bound on waveformNumber
  MaxAcq,          \* bound on the acquisitions of one recorder
  MaxAllocFailures,\* bound on failed pbuf allocations
  Disarmed,        \* recorders the IOC may disarm
  MaxLag           \* samples a ring recorder's FIFO holds

ASSUME NRecAssumption == NRec \in Nat \ {0}
ASSUME UsedAssumption == Used \subseteq 0 .. NRec - 1
ASSUME SizeAssumption ==
  /\ Capacity \in Nat \ {0}
  /\ Payload \in Nat \ {0}
  /\ FixedPretrigger \in 0 .. Capacity
  /\ RetryLimit \in Nat \ {0}
  /\ InitialCount \in 1 .. Capacity
ASSUME InputAssumption == AcqValues \subseteq Nat /\ PretrigValues \subseteq Nat
ASSUME BoundAssumption ==
  /\ MaxWaveform \in Nat
  /\ MaxAcq \in Nat
  /\ MaxAllocFailures \in Nat
  /\ Disarmed \subseteq Used
  /\ MaxLag \in 0 .. Capacity

Recorder == 0 .. NRec - 1
Adc == 0
NoRecorder == NRec

Smaller(a, b) == IF a < b THEN a ELSE b

VARIABLES
  rec,           \* the struct recorder of each recorder
  recorderIndex, \* the recorder wfrCheckForWork served last
  arming,        \* recorder whose arm command has not yet written its CSR
  subscribed,    \* subscriberPort # 0
  hw,            \* the recorder hardware and the contents of its buffer
  net,           \* every datagram sent so far
  got,           \* data packets the IOC has received
  allocFailures, \* pbuf allocations that failed so far
  disturbed      \* recorders whose counts changed under an acquisition, or
                 \* whose waveform was announced before it was stored

vars == <<rec, recorderIndex, arming, subscribed, hw, net, got, allocFailures, disturbed>>

(***************************************************************************)
(* Types                                                                   *)
(***************************************************************************)
CommState == {"IDLE", "HEADER", "ACTIVE"}

RecorderRecord ==
  [ commState      : CommState,
    pretrigCount   : Nat,
    acqCount       : 1 .. Capacity,
    waveformNumber : Nat,
    startOffset    : 0 .. Capacity, \* startByteOffset
    left           : Nat,     \* bytesLeft
    previous       : Nat,     \* bytesInPreviousPacket
    aged           : BOOLEAN, \* a timeout has passed since the last packet
    retryCount     : Nat,
    txBlock        : Nat ]

\* The samples an acquisition captured: where it starts in the buffer and how
\* many samples it has.
Window == [start : Int, count : Nat]

Hardware ==
  [ armed    : BOOLEAN,
    full     : BOOLEAN,
    acqCount : Nat,           \* acquisition count register
    pretrig  : Nat,           \* pretrigger count register
    next     : Nat,           \* where the next sample goes once all are stored
    lag      : Nat,           \* samples of the last acquisition in the FIFO
    withdrawn : BOOLEAN,      \* its full flag has been cleared by disarming
    acq      : Nat,           \* how many acquisitions have completed
    window   : Window ]       \* the samples of the last one

Header == [type : {"Header"}, rec : Recorder, wf : Nat, total : Nat, acq : Nat]
Data == [type : {"Data"}, rec : Recorder, wf : Nat, block : Nat,
         first : Nat, len : Nat, acq : Nat, window : Window, stored : BOOLEAN]
Ack == [type : {"Ack"}, rec : Recorder, wf : Nat, block : Nat]

TypeOK ==
  /\ rec \in [Recorder -> RecorderRecord]
  /\ rec[Adc].pretrigCount <= FixedPretrigger
  /\ recorderIndex \in Recorder
  /\ arming \in Recorder \cup {NoRecorder}
  /\ subscribed \in BOOLEAN
  /\ hw \in [Recorder -> Hardware]
  /\ net \subseteq Header \cup Data \cup Ack
  /\ got \subseteq Data
  /\ allocFailures \in Nat
  /\ disturbed \subseteq Recorder

(***************************************************************************)
(* Initial state: wfrInit has run.  The recorders start at waveform 1 and   *)
(* their CSR has been written, which leaves them neither armed nor full.   *)
(***************************************************************************)
InitRecorder(r) ==
  [ commState |-> "IDLE",
    pretrigCount |-> IF r = Adc THEN FixedPretrigger ELSE 0,
    acqCount |-> InitialCount, waveformNumber |-> 1,
    startOffset |-> 0, left |-> 0, previous |-> 0, aged |-> FALSE,
    retryCount |-> 0, txBlock |-> 0 ]

InitHardware ==
  [ armed |-> FALSE, full |-> FALSE, acqCount |-> 0, pretrig |-> 0,
    next |-> 0, lag |-> 0, withdrawn |-> FALSE, acq |-> 0,
    window |-> [start |-> 0, count |-> 0] ]

Init ==
  /\ rec = [r \in Recorder |-> InitRecorder(r)]
  /\ recorderIndex = 0
  /\ arming = NoRecorder
  /\ subscribed = FALSE
  /\ hw = [r \in Recorder |-> InitHardware]
  /\ net = {}
  /\ got = {}
  /\ allocFailures = 0
  /\ disturbed = {}

(***************************************************************************)
(* The recorder hardware                                                   *)
(***************************************************************************)

\* What the processor reads back from the acquisition count register.  The
\* ADC recorder has no such register and always answers its capacity.
ReadAcqCount(r) == IF r = Adc THEN Capacity ELSE hw[r].acqCount

\* The address register: where the next sample taken from the FIFO goes.
Address(r) ==
  IF hw[r].lag <= hw[r].next THEN hw[r].next - hw[r].lag
                             ELSE hw[r].next + Capacity - hw[r].lag

\* The samples the acquisition that now ends has captured, if the ring's
\* write pointer is to come to rest at next.  The ADC recorder fills a linear
\* buffer with FixedPretrigger samples from before the trigger; what was
\* asked for is the part of it that the counts written at arming select.
CapturedWindow(r, next) ==
  [ start |-> IF r = Adc THEN FixedPretrigger - hw[r].pretrig
                         ELSE (next + Capacity - hw[r].acqCount) % Capacity,
    count |-> hw[r].acqCount ]

\* A write of the CSR: full is cleared, the armed bit is as written.  A new
\* acquisition has its own samples and its own full flag.
CsrWrite(h, arm) ==
  [h EXCEPT !.full = FALSE, !.armed = arm,
            !.lag = IF arm THEN 0 ELSE @,
            !.withdrawn = IF arm THEN FALSE ELSE @]

\* The trigger has come and the last sample has: armed drops and full rises.
\* A ring recorder stops wherever the wait for its trigger put it, and does
\* not wait for what its FIFO still holds; the ADC recorder's full flag comes
\* with the acknowledgement of its last write.
Complete(r) ==
  /\ hw[r].armed
  /\ hw[r].acq < MaxAcq
  /\ \E next \in IF r = Adc THEN {0} ELSE 0 .. Capacity - 1,
        lag \in IF r = Adc THEN {0} ELSE 0 .. MaxLag :
       hw' = [hw EXCEPT ![r].armed = FALSE,
                        ![r].full = TRUE,
                        ![r].next = next,
                        ![r].lag = lag,
                        ![r].acq = @ + 1,
                        ![r].window = CapturedWindow(r, next)]
  /\ UNCHANGED <<rec, recorderIndex, arming, subscribed, net, got, allocFailures, disturbed>>

\* Samples of the acquisition that has ended go from the FIFO to the buffer.
Drain(r) ==
  /\ hw[r].lag > 0
  /\ \E lag \in 0 .. hw[r].lag - 1 : hw' = [hw EXCEPT ![r].lag = lag]
  /\ UNCHANGED <<rec, recorderIndex, arming, subscribed, net, got, allocFailures, disturbed>>

(***************************************************************************)
(* Packets                                                                 *)
(***************************************************************************)

\* Is a packet buffer to be had?  A failure uses up one of the bound.
Allocate(ok) ==
  IF ok THEN UNCHANGED allocFailures
  ELSE /\ allocFailures < MaxAllocFailures
       /\ allocFailures' = allocFailures + 1

\* dataPacket: send the current block of rp, or leave the transfer if nothing
\* is left to send or no buffer is to be had.  acq, window and stored say whose
\* samples the buffer holds at this moment, and whether all of them; they are
\* not part of the datagram.
DataOf(r, rp) ==
  [ type |-> "Data", rec |-> r, wf |-> rp.waveformNumber, block |-> rp.txBlock,
    first |-> (rp.startOffset + rp.txBlock * Payload) % Capacity,
    len |-> Smaller(rp.left, Payload),
    acq |-> hw[r].acq, window |-> hw[r].window, stored |-> hw[r].lag = 0 ]

DataPacket(r, rp, ok) ==
  IF rp.left > 0 /\ ok
  THEN /\ rec' = [rec EXCEPT ![r] = [rp EXCEPT !.commState = "ACTIVE",
                                               !.previous = DataOf(r, rp).len,
                                               !.aged = FALSE]]
       /\ net' = net \cup {DataOf(r, rp)}
       /\ UNCHANGED allocFailures
  ELSE /\ rec' = [rec EXCEPT ![r] = [rp EXCEPT !.commState = "IDLE",
                                               !.previous = 0]]
       /\ UNCHANGED net
       /\ Allocate(rp.left = 0)

\* headerPacket: announce the waveform the recorder holds.
StartOffsetOfNextSample(r, rp) == \* mutant: forgets the samples before it
  IF r = Adc THEN FixedPretrigger ELSE Address(r) % Capacity

StartOffset(r, rp) ==
  IF r = Adc THEN FixedPretrigger - rp.pretrigCount
             ELSE (Address(r) + Capacity - rp.acqCount) % Capacity

HeaderOf(r, rp) ==
  [ type |-> "Header", rec |-> r, wf |-> rp.waveformNumber,
    total |-> Smaller(ReadAcqCount(r), rp.acqCount), acq |-> hw[r].acq ]

HeaderPacket(r, rp, ok) ==
  LET rq == [rp EXCEPT !.startOffset = StartOffset(r, rp), !.previous = 0]
  IN
  /\ disturbed' = IF hw[r].lag = 0 THEN disturbed ELSE disturbed \cup {r}
  /\ IF ok
     THEN /\ rec' = [rec EXCEPT ![r] = [rq EXCEPT !.commState = "HEADER",
                                                  !.left = HeaderOf(r, rp).total,
                                                  !.txBlock = 0,
                                                  !.aged = FALSE]]
          /\ net' = net \cup {HeaderOf(r, rp)}
          /\ UNCHANGED allocFailures
     ELSE /\ rec' = [rec EXCEPT ![r] = rq]
          /\ UNCHANGED net
          /\ Allocate(FALSE)

(***************************************************************************)
(* The application's main loop.  A handler runs to completion before the    *)
(* next, except that the hardware may act between an arm command's test of  *)
(* the armed bit and its write of the CSR.                                 *)
(***************************************************************************)
Ready == arming = NoRecorder

NextIndexShort == \* mutant: never reaches the last recorder
  IF recorderIndex >= NRec - 2 THEN 0 ELSE recorderIndex + 1

NextIndex == IF recorderIndex >= NRec - 1 THEN 0 ELSE recorderIndex + 1

\* wfrCheckForWork, one call: the next recorder in turn is full and idle, so
\* its full flag is cleared and its header goes out.
AnnounceFull(ok) ==
  /\ Ready /\ subscribed
  /\ rec[NextIndex].commState = "IDLE"
  /\ hw[NextIndex].full
  /\ recorderIndex' = NextIndex
  /\ hw' = [hw EXCEPT ![NextIndex] = CsrWrite(@, FALSE)]
  /\ HeaderPacket(NextIndex, [rec[NextIndex] EXCEPT !.retryCount = 0], ok)
  /\ UNCHANGED <<arming, subscribed, got>>

RetriesLeft(rp) == rp.retryCount < RetryLimit

\* wfrCheckForWork: the last packet has waited too long for its answer.
RetryPacket(ok) ==
  LET rp == [rec[NextIndex] EXCEPT !.retryCount = @ + 1]
  IN /\ Ready /\ subscribed
     /\ rp.commState # "IDLE"
     /\ rp.aged
     /\ RetriesLeft(rp)
     /\ recorderIndex' = NextIndex
     /\ IF rp.commState = "HEADER"
        THEN HeaderPacket(NextIndex, rp, ok)
        ELSE DataPacket(NextIndex, rp, ok) /\ UNCHANGED disturbed
     /\ UNCHANGED <<arming, subscribed, hw, got>>

\* wfrCheckForWork: it has waited too often, the transfer is abandoned.
Abandon ==
  LET rp == [rec[NextIndex] EXCEPT !.retryCount = @ + 1]
  IN /\ Ready /\ subscribed
     /\ rp.commState # "IDLE"
     /\ rp.aged
     /\ ~RetriesLeft(rp)
     /\ recorderIndex' = NextIndex
     /\ rec' = [rec EXCEPT ![NextIndex] = [rp EXCEPT !.commState = "IDLE"]]
     /\ UNCHANGED <<arming, subscribed, hw, net, got, allocFailures, disturbed>>

\* wfrCheckForWork: nothing to do for the next recorder.
PassOver ==
  /\ Ready /\ subscribed
  /\ IF rec[NextIndex].commState = "IDLE" THEN ~hw[NextIndex].full
                                          ELSE ~rec[NextIndex].aged
  /\ recorderIndex' = NextIndex
  /\ UNCHANGED <<rec, arming, subscribed, hw, net, got, allocFailures, disturbed>>

WfrCheckForWork ==
  \/ \E ok \in BOOLEAN : AnnounceFull(ok) \/ RetryPacket(ok)
  \/ Abandon
  \/ PassOver

\* publisher_callback, two-byte datagram: the IOC subscribes.
Subscribe ==
  /\ Ready
  /\ subscribed' = TRUE
  /\ UNCHANGED <<rec, recorderIndex, arming, hw, net, got, allocFailures, disturbed>>

\* wfrAckPacket's sanity check.
AckFitsAnyBlock(m) == \* mutant: does not compare the block number
  /\ rec[m.rec].commState \in {"ACTIVE", "HEADER"}
  /\ m.wf = rec[m.rec].waveformNumber

AckFits(m) ==
  /\ rec[m.rec].commState \in {"ACTIVE", "HEADER"}
  /\ m.wf = rec[m.rec].waveformNumber
  /\ m.block = rec[m.rec].txBlock

\* wfrAckPacket: the block last sent has arrived; an answer to a header has
\* nothing to take off.
AcknowledgedNot(rp) == rp \* mutant: the block is sent again

Acknowledged(rp) ==
  IF rp.commState = "HEADER" THEN rp
  ELSE [rp EXCEPT !.txBlock = @ + 1,
                  !.left = IF rp.previous < @ THEN @ - rp.previous ELSE 0]

\* publisher_callback and wfrAckPacket: an acknowledgement that fits the
\* packet last sent fetches the next one.  Any other is dropped.
WfrAckPacket(m, ok) ==
  /\ Ready /\ subscribed
  /\ m.type = "Ack"
  /\ AckFits(m)
  /\ DataPacket(m.rec, Acknowledged([rec[m.rec] EXCEPT !.retryCount = 0]), ok)
  /\ UNCHANGED <<recorderIndex, arming, subscribed, hw, got, disturbed>>

\* More than TIMEOUT_TICKS pass with no packet sent.
TimePasses(r) ==
  /\ rec[r].commState # "IDLE"
  /\ ~rec[r].aged
  /\ rec' = [rec EXCEPT ![r].aged = TRUE]
  /\ UNCHANGED <<recorderIndex, arming, subscribed, hw, net, got, allocFailures, disturbed>>

(***************************************************************************)
(* waveformRecorderCommand                                                 *)
(***************************************************************************)

\* Nothing of a waveform is in flight between the recorder and the IOC.
Quiet(r) == rec[r].commState = "IDLE" /\ ~hw[r].armed /\ ~hw[r].full

\* A history of the recorders whose counts were changed between arming and the
\* end of the transfer (or that HeaderPacket adds).
Disturb(r) == disturbed' = IF Quiet(r) THEN disturbed ELSE disturbed \cup {r}

WriteAcqCount(r, val) ==
  /\ Ready
  /\ val > 0
  /\ rec' = [rec EXCEPT ![r].acqCount = Smaller(val, Capacity)]
  /\ Disturb(r)
  /\ UNCHANGED <<recorderIndex, arming, subscribed, hw, net, got, allocFailures>>

\* The ADC recorder's limit is what its hardware stores; a ring's is its size.
MaxPretriggerOfRing(r) == Capacity \* mutant: one limit for all recorders

MaxPretrigger(r) == IF r = Adc THEN FixedPretrigger ELSE Capacity

WritePretrigCount(r, val) ==
  /\ Ready
  /\ rec' = [rec EXCEPT ![r].pretrigCount = Smaller(val, MaxPretrigger(r))]
  /\ Disturb(r)
  /\ UNCHANGED <<recorderIndex, arming, subscribed, hw, net, got, allocFailures>>

\* WF_ARM with a non-zero value leaves the transfer that may be under way
\* and, unless the recorder is armed already, takes a new number.
LeaveTransferNot(rp) == rp \* mutant: the transfer goes on

LeaveTransfer(rp) == [rp EXCEPT !.commState = "IDLE"]

NextWaveformSame(rp) == rp \* mutant: the number is used again

NextWaveform(rp) == [rp EXCEPT !.waveformNumber = @ + 1]

\* WF_ARM, as far as the test of the armed bit and what depends on it ...
ArmCommand(r) ==
  /\ Ready
  /\ rec[r].waveformNumber < MaxWaveform
  /\ arming' = r
  /\ IF hw[r].armed
     THEN /\ rec' = [rec EXCEPT ![r] = LeaveTransfer(@)]
          /\ UNCHANGED hw
     ELSE /\ rec' = [rec EXCEPT ![r] = LeaveTransfer(NextWaveform(@))]
          /\ hw' = [hw EXCEPT ![r].acqCount = rec[r].acqCount,
                              ![r].pretrig = rec[r].pretrigCount]
  /\ UNCHANGED <<recorderIndex, subscribed, net, got, allocFailures, disturbed>>

\* ... and its write of the CSR: full is cleared, and a recorder that is not
\* armed (any more) is.
ArmWrite ==
  /\ arming # NoRecorder
  /\ arming' = NoRecorder
  /\ hw' = [hw EXCEPT ![arming] = CsrWrite(@, TRUE)]
  /\ UNCHANGED <<rec, recorderIndex, subscribed, net, got, allocFailures, disturbed>>

\* WF_ARM with zero: a full recorder is not announced any more.
Unannounced(h, full) == [h EXCEPT !.withdrawn = IF full THEN TRUE ELSE @]
Disarm(r) ==
  /\ Ready
  /\ hw' = [hw EXCEPT ![r] = Unannounced(CsrWrite(@, FALSE), hw[r].full)]
  /\ UNCHANGED <<rec, recorderIndex, arming, subscribed, net, got, allocFailures, disturbed>>

WaveformRecorderCommand(r) ==
  \/ \E val \in AcqValues : WriteAcqCount(r, val)
  \/ \E val \in PretrigValues : WritePretrigCount(r, val)
  \/ ArmCommand(r)
  \/ \E d \in Disarmed \cap {r} : Disarm(d)

(***************************************************************************)
(* The IOC (external): it answers a header by asking for block 0 and a      *)
(* block by acknowledging it, and keeps what it receives.                  *)
(***************************************************************************)
IocHeader(m) ==
  /\ m.type = "Header"
  /\ net' = net \cup {[type |-> "Ack", rec |-> m.rec, wf |-> m.wf, block |-> 0]}
  /\ UNCHANGED <<rec, recorderIndex, arming, subscribed, hw, got, allocFailures, disturbed>>

IocData(m) ==
  /\ m.type = "Data"
  /\ got' = got \cup {m}
  /\ net' = net \cup
       {[type |-> "Ack", rec |-> m.rec, wf |-> m.wf, block |-> m.block]}
  /\ UNCHANGED <<rec, recorderIndex, arming, subscribed, hw, allocFailures, disturbed>>

Software ==
  \/ WfrCheckForWork
  \/ Subscribe
  \/ \E m \in net, ok \in BOOLEAN : WfrAckPacket(m, ok)
  \/ \E r \in Used : WaveformRecorderCommand(r)
  \/ ArmWrite

Environment ==
  \/ \E r \in Recorder : Complete(r) \/ Drain(r) \/ TimePasses(r)
  \/ \E m \in net : IocHeader(m) \/ IocData(m)

Next == Software \/ Environment

Spec == Init /\ [][Next]_vars

\* The main loop calls publisherCheck again and again between the commands it
\* handles, a handler that has started ends, and time passes.  Nothing is
\* promised of the network, the IOC, the trigger or the supply of packet buffers.
Fairness ==
  /\ SF_vars(WfrCheckForWork)
  /\ WF_vars(ArmWrite)
  /\ \A r \in Recorder : WF_vars(TimePasses(r))

FairSpec == Spec /\ Fairness

(***************************************************************************)
(* Safety                                                                  *)
(***************************************************************************)
Blocks(n) == (n + Payload - 1) \div Payload

DataPackets == {m \in net : m.type = "Data"}
Headers == {m \in net : m.type = "Header"}

\* No acquisition is under way, and none has ended, while a buffer is being
\* read out: from a recorder's header to the end of its transfer it is neither
\* armed nor full (waveformRecorderCommand leaves the transfer before it arms).
\* What its FIFO still holds of the acquisition announced may go on arriving.
BufferStable ==
  \A r \in Recorder :
    rec[r].commState # "IDLE" => ~hw[r].armed /\ ~hw[r].full /\ arming # r

\* What leaves under one waveform number, headers and data alike, belongs to
\* one acquisition, whatever the IOC commands and the network does: a block
\* that is late cannot complete somebody else's waveform.
OneAcquisitionPerNumber ==
  \A m1, m2 \in Headers \cup DataPackets :
    m1.rec = m2.rec /\ m1.wf = m2.wf => m1.acq = m2.acq

\* As long as counts are not changed under an acquisition and its samples are
\* stored when its header goes out, block n of a waveform holds exactly the
\* n-th payload of the samples captured, although the position is computed from
\* the software's copy of the count and the hardware's pointer ...
CarriesTheWindow(m) ==
  /\ m.stored
  /\ m.first = (m.window.start + m.block * Payload) % Capacity
  /\ m.len = Smaller(m.window.count - m.block * Payload, Payload)
  /\ m.len > 0

\* ... and what the recorder still has to send and the block it is at account
\* for the size the header announced, so a transfer ends with its last block.
\* A ring recorder is full before its samples are stored
\* (GenericRecorder!FullMeansStored); nothing keeps a header from going out
\* then, with a start computed from where the pointer was.
Accounts(m, rp) ==
  rp.commState # "IDLE" /\ rp.waveformNumber = m.wf =>
    /\ rp.left = m.total - rp.txBlock * Payload
    /\ rp.txBlock < Blocks(m.total)

TransfersOfQuietCounts ==
  /\ \A m \in DataPackets : m.rec \notin disturbed => CarriesTheWindow(m)
  /\ \A m \in Headers : m.rec \notin disturbed => Accounts(m, rec[m.rec])

\* The recorder moves past a block other than the first only when the IOC has
\* it: stop-and-wait survives loss, duplication and reordering.
AckedBlocksReceived ==
  \A r \in Recorder :
    rec[r].commState = "ACTIVE" =>
      \A n \in 1 .. rec[r].txBlock - 1 :
        \E m \in got : /\ m.rec = r /\ m.block = n
                       /\ m.wf = rec[r].waveformNumber

(***************************************************************************)
(* The inductive invariant behind BufferStable, OneAcquisitionPerNumber,    *)
(* AckedBlocksReceived and the archive.                                    *)
(***************************************************************************)
Sent == Headers \cup DataPackets

\* Nothing has left under the recorder's present number yet.
Unpublished(r) ==
  \A m \in Sent : m.rec = r => m.wf < rec[r].waveformNumber

Numbering ==
  \A m \in Sent :
    /\ m.wf <= rec[m.rec].waveformNumber
    /\ m.wf = rec[m.rec].waveformNumber => m.acq = hw[m.rec].acq

UnpublishedUntilServed ==
  \A r \in Recorder :
    hw[r].armed \/ hw[r].full \/ arming = r => Unpublished(r)

HeaderFirst ==
  \A r \in Recorder :
    rec[r].commState = "HEADER" =>
      /\ rec[r].txBlock = 0
      /\ \A m \in DataPackets : m.rec = r => m.wf # rec[r].waveformNumber

\* A data packet, whether all of its samples were stored or not.
Block(m) == [m EXCEPT !.stored = TRUE]

BlocksInOrder ==
  \A r \in Recorder : \A m \in DataPackets :
    rec[r].commState = "ACTIVE" /\ m.rec = r /\ m.wf = rec[r].waveformNumber =>
      /\ m.block <= rec[r].txBlock
      /\ m.block = rec[r].txBlock => Block(m) = Block(DataOf(r, rec[r]))

OneVersionOfABlock ==
  \A m1, m2 \in DataPackets :
    m1.rec = m2.rec /\ m1.wf = m2.wf /\ m1.block = m2.block => Block(m1) = Block(m2)

AcksAreReceipts ==
  \A m \in net :
    m.type = "Ack" /\ m.block > 0 =>
      \E g \in got : g.rec = m.rec /\ g.wf = m.wf /\ g.block = m.block

\* A recorder publishes an acquisition only once it can no longer change, a
\* number is not published before its acquisition is complete, blocks go out
\* in order and each in one version only.
IInv ==
  /\ BufferStable
  /\ Numbering
  /\ UnpublishedUntilServed
  /\ OneAcquisitionPerNumber
  /\ HeaderFirst
  /\ BlocksInOrder
  /\ OneVersionOfABlock
  /\ AcksAreReceipts
  /\ AckedBlocksReceived
  /\ got \subseteq net

(***************************************************************************)
(* The inductive invariant behind TransfersOfQuietCounts, besides IInv: for  *)
(* a recorder left alone the hardware's counts are the software's, the       *)
(* pointer rests at the end of the window, and the transfer is at its place *)
(* in it.                                                                  *)
(***************************************************************************)
CountsAgree(r) ==
  ~Quiet(r) \/ arming = r =>
    hw[r].acqCount = rec[r].acqCount /\ hw[r].pretrig = rec[r].pretrigCount

PointerAtEnd(r) ==
  hw[r].full \/ rec[r].commState # "IDLE" =>
    hw[r].window = CapturedWindow(r, hw[r].next)

AtItsPlace(r) ==
  rec[r].commState # "IDLE" =>
    /\ hw[r].lag = 0
    /\ rec[r].startOffset = hw[r].window.start
    /\ rec[r].left = hw[r].window.count - rec[r].txBlock * Payload
    /\ rec[r].left > 0
    /\ rec[r].commState = "ACTIVE" => rec[r].previous = Smaller(rec[r].left, Payload)

LeftAlone(r) == CountsAgree(r) /\ PointerAtEnd(r) /\ AtItsPlace(r)

AnnouncesTheWindow(m) ==
  rec[m.rec].commState # "IDLE" /\ m.wf = rec[m.rec].waveformNumber =>
    m.total = hw[m.rec].window.count

QuietInv ==
  /\ \A r \in Recorder \ disturbed : LeftAlone(r)
  /\ \A m \in Headers : m.rec \notin disturbed => AnnouncesTheWindow(m)
  /\ \A m \in DataPackets : m.rec \notin disturbed => CarriesTheWindow(m)

(***************************************************************************)
(* What the IOC may rely on: the abstract specification                     *)
(***************************************************************************)
Kept == {m \in got : m.stored}

Archive == INSTANCE WaveformArchive WITH archive <- Kept
\* Every received block agrees with the blocks of the same number: the
\* numbering at arming, the block numbers and the transfer's states together
\* implement the archive.  Blocks read while the recorder's FIFO still held
\* samples of the waveform are left out: one of them that is sent again may
\* hold other samples.
ArchiveSpec == Archive!Spec

(***************************************************************************)
(* Liveness                                                                *)
(***************************************************************************)

\* Every transfer ends, whatever the network and the IOC do.
TransferEnds ==
  \A r \in Recorder : rec[r].commState # "IDLE" ~> rec[r].commState = "IDLE"

\* A full recorder does not wait for ever for its turn in the rotation.
FullIsServed ==
  \A r \in Recorder : hw[r].full /\ subscribed ~> ~hw[r].full

\* "When a waveform recorder completes acquisition it sends the header
\* unsolicited ... The header is retransmitted if a block request does not
\* arrive" (bpmProtocol.h): a full recorder gets its header out unless the
\* IOC arms it again or disarms it, which clears its full flag with no header
\* sent.  A header that finds no packet buffer is lost together with the full
\* flag, so this holds only once no allocation fails any more.
WaveformIsAnnounced ==
  \A r \in Recorder :
    hw[r].full /\ subscribed /\ allocFailures = MaxAllocFailures
      ~> rec[r].commState = "HEADER" \/ arming = r \/ hw[r].withdrawn
=============================================================================
