------------------------- MODULE WfrTransferProofs -------------------------
(***************************************************************************)
(* Proofs about the waveform transfer, for every number of recorders,       *)
(* buffer size, payload, retry limit and bound, with or without failed      *)
(* allocations and with counts changed at any time: its types, its safety,  *)
(* and that it implements the archive.                                     *)
(***************************************************************************)
EXTENDS WfrTransfer, TLAPS

\* The ADC recorder is one of the recorders.
LEMMA AdcIsRecorder == Adc \in Recorder
BY NRecAssumption DEF Adc, Recorder

\* The round robin stays among them.
LEMMA NextIndexInRange ==
  ASSUME recorderIndex \in Recorder
  PROVE  NextIndex \in Recorder
BY NRecAssumption DEF NextIndex, Recorder

\* The smaller of two numbers.
LEMMA SmallerOf ==
  ASSUME NEW a \in Nat, NEW b \in Nat
  PROVE  /\ Smaller(a, b) \in Nat
         /\ Smaller(a, b) <= a
         /\ Smaller(a, b) <= b
         /\ a > 0 /\ b > 0 => Smaller(a, b) > 0
BY DEF Smaller

\* Positions in a buffer stay inside it.
LEMMA Position ==
  ASSUME NEW a \in Int, NEW b \in Int
  PROVE  (a + b) % Capacity \in 0 .. Capacity
BY SizeAssumption

\* The parts of the type invariant that making a packet can disturb.
PacketTypes ==
  /\ rec \in [Recorder -> RecorderRecord]
  /\ rec[Adc].pretrigCount <= FixedPretrigger
  /\ net \subseteq Header \cup Data \cup Ack
  /\ allocFailures \in Nat

\* The updates a handler makes to a recorder's record keep its type and its
\* pretrigger count.
KeepsType(rq, rp) == rq \in RecorderRecord /\ rq.pretrigCount = rp.pretrigCount

\* What the service makes of a struct recorder is one.
LEMMA UpdateType ==
  ASSUME NEW rp \in RecorderRecord
  PROVE  /\ KeepsType([rp EXCEPT !.retryCount = @ + 1], rp)
         /\ KeepsType([rp EXCEPT !.retryCount = 0], rp)
         /\ KeepsType(LeaveTransfer(rp), rp)
         /\ KeepsType(NextWaveform(rp), rp)
         /\ KeepsType(Acknowledged(rp), rp)
<1>1. KeepsType([rp EXCEPT !.retryCount = @ + 1], rp)
  BY DEF RecorderRecord, KeepsType
<1>2. KeepsType([rp EXCEPT !.retryCount = 0], rp)
  BY DEF RecorderRecord, KeepsType
<1>3. KeepsType(LeaveTransfer(rp), rp)
  BY DEF RecorderRecord, CommState, KeepsType, LeaveTransfer
<1>4. KeepsType(NextWaveform(rp), rp)
  BY DEF RecorderRecord, KeepsType, NextWaveform
<1>5. KeepsType(Acknowledged(rp), rp)
  <2> DEFINE left == IF rp.previous < rp.left THEN rp.left - rp.previous ELSE 0
             block == rp.txBlock + 1
             rq == [rp EXCEPT !.txBlock = block, !.left = left]
  <2>1. left \in Nat /\ block \in Nat
    BY DEF RecorderRecord
  <2>2. rp.commState # "HEADER" => Acknowledged(rp) = rq
    BY DEF Acknowledged
  <2> HIDE DEF left, block
  <2>3. KeepsType(rq, rp)
    BY <2>1 DEF RecorderRecord, KeepsType
  <2>4. rp.commState = "HEADER" => Acknowledged(rp) = rp
    BY DEF Acknowledged
  <2>5. QED BY <2>2, <2>3, <2>4 DEF KeepsType
<1>6. QED BY <1>1, <1>2, <1>3, <1>4, <1>5

\* Putting it back keeps the types.
LEMMA PutRecord ==
  ASSUME TypeOK, NEW r \in Recorder, NEW rp \in RecorderRecord,
         r = Adc => rp.pretrigCount <= FixedPretrigger,
         rec' = [rec EXCEPT ![r] = rp]
  PROVE  /\ rec' \in [Recorder -> RecorderRecord]
         /\ (rec[Adc].pretrigCount <= FixedPretrigger)'
BY AdcIsRecorder DEF TypeOK

\* A block has its type.
LEMMA DataOfType ==
  ASSUME TypeOK, NEW r \in Recorder, NEW rp \in RecorderRecord
  PROVE  DataOf(r, rp) \in Data
<1>1. rp.startOffset \in Int /\ rp.txBlock * Payload \in Int
  BY SizeAssumption DEF RecorderRecord
<1>2. (rp.startOffset + rp.txBlock * Payload) % Capacity \in Nat
  BY <1>1, Position
<1>3. Smaller(rp.left, Payload) \in Nat
  BY SmallerOf, SizeAssumption DEF RecorderRecord
<1>4. (hw[r].lag = 0) \in BOOLEAN
  OBVIOUS
<1>5. QED
  BY <1>2, <1>3, <1>4 DEF DataOf, Data, RecorderRecord, TypeOK, Hardware

\* So do the packets when it is sent, or not for want of a buffer.
LEMMA DataPacketType ==
  ASSUME TypeOK, NEW r \in Recorder, NEW rp \in RecorderRecord, NEW ok \in BOOLEAN,
         r = Adc => rp.pretrigCount <= FixedPretrigger,
         DataPacket(r, rp, ok)
  PROVE  PacketTypes'
<1>1. CASE rp.left > 0 /\ ok
  <2> DEFINE rq == [rp EXCEPT !.commState = "ACTIVE",
                              !.previous = DataOf(r, rp).len, !.aged = FALSE]
  <2>1. DataOf(r, rp) \in Data
    BY DataOfType
  <2>2. DataOf(r, rp).len \in Nat
    BY <2>1 DEF Data
  <2>3. rq \in RecorderRecord /\ rq.pretrigCount = rp.pretrigCount
    BY <2>2 DEF RecorderRecord, CommState
  <2>4. /\ rec' = [rec EXCEPT ![r] = rq]
        /\ net' = net \cup {DataOf(r, rp)}
        /\ allocFailures' = allocFailures
    BY <1>1 DEF DataPacket
  <2> HIDE DEF rq
  <2>5. QED
    BY <2>1, <2>3, <2>4, PutRecord DEF PacketTypes, TypeOK
<1>2. CASE ~(rp.left > 0 /\ ok)
  <2> DEFINE rq == [rp EXCEPT !.commState = "IDLE", !.previous = 0]
  <2>1. rq \in RecorderRecord /\ rq.pretrigCount = rp.pretrigCount
    BY DEF RecorderRecord, CommState
  <2>2. /\ rec' = [rec EXCEPT ![r] = rq]
        /\ net' = net
        /\ allocFailures' = allocFailures \/ allocFailures' = allocFailures + 1
    BY <1>2 DEF DataPacket, Allocate
  <2> HIDE DEF rq
  <2>3. QED
    BY <2>1, <2>2, PutRecord DEF PacketTypes, TypeOK
<1>3. QED BY <1>1, <1>2

\* A header has its type.
LEMMA HeaderOfType ==
  ASSUME TypeOK, NEW r \in Recorder, NEW rp \in RecorderRecord
  PROVE  HeaderOf(r, rp) \in Header
<1>1. ReadAcqCount(r) \in Nat /\ rp.acqCount \in Nat
  BY SizeAssumption DEF ReadAcqCount, TypeOK, Hardware, RecorderRecord
<1>2. Smaller(ReadAcqCount(r), rp.acqCount) \in Nat
  BY <1>1, SmallerOf
<1>3. QED
  BY <1>2 DEF HeaderOf, Header, RecorderRecord, TypeOK, Hardware

\* The start of the waveform is in the buffer.
LEMMA StartOffsetType ==
  ASSUME TypeOK, NEW r \in Recorder, NEW rp \in RecorderRecord,
         r = Adc => rp.pretrigCount <= FixedPretrigger
  PROVE  StartOffset(r, rp) \in 0 .. Capacity
<1>1. CASE r = Adc
  BY <1>1, SizeAssumption DEF StartOffset, RecorderRecord
<1>2. CASE r # Adc
  <2> DEFINE a == Address(r)
             b == Capacity - rp.acqCount
  <2>1. a \in Int /\ b \in Int
    BY SizeAssumption DEF TypeOK, Hardware, RecorderRecord, Address
  <2>2. StartOffset(r, rp) = (a + b) % Capacity
    BY <1>2 DEF StartOffset
  <2> HIDE DEF a, b
  <2>3. (a + b) % Capacity \in 0 .. Capacity
    BY <2>1, Position
  <2>4. QED BY <2>2, <2>3
<1>3. QED BY <1>1, <1>2

\* So the types hold when a header is sent.
LEMMA HeaderPacketType ==
  ASSUME TypeOK, NEW r \in Recorder, NEW rp \in RecorderRecord, NEW ok \in BOOLEAN,
         r = Adc => rp.pretrigCount <= FixedPretrigger,
         HeaderPacket(r, rp, ok)
  PROVE  PacketTypes'
<1> DEFINE rq == [rp EXCEPT !.startOffset = StartOffset(r, rp), !.previous = 0]
           rs == [rq EXCEPT !.commState = "HEADER",
                            !.left = HeaderOf(r, rp).total,
                            !.txBlock = 0, !.aged = FALSE]
<1>1. StartOffset(r, rp) \in 0 .. Capacity
  BY StartOffsetType
<1>2. HeaderOf(r, rp) \in Header
  BY HeaderOfType
<1>3. rq \in RecorderRecord /\ rq.pretrigCount = rp.pretrigCount
  BY <1>1 DEF RecorderRecord
<1>4. HeaderOf(r, rp).total \in Nat
  BY <1>2 DEF Header
<1>5. /\ ok => /\ rec' = [rec EXCEPT ![r] = rs]
               /\ net' = net \cup {HeaderOf(r, rp)}
               /\ allocFailures' = allocFailures
      /\ ~ok => /\ rec' = [rec EXCEPT ![r] = rq]
                /\ net' = net
                /\ allocFailures' = allocFailures + 1
  BY DEF HeaderPacket, Allocate
<1> HIDE DEF rq
<1>6. rs \in RecorderRecord /\ rs.pretrigCount = rp.pretrigCount
  BY <1>3, <1>4 DEF RecorderRecord, CommState
<1> HIDE DEF rs
<1>7. CASE ok
  BY <1>2, <1>5, <1>6, <1>7, PutRecord DEF PacketTypes, TypeOK
<1>8. CASE ~ok
  BY <1>3, <1>5, <1>8, PutRecord DEF PacketTypes, TypeOK
<1>9. QED BY <1>7, <1>8

\* The type invariant is inductive.
LEMMA TypeStep ==
  ASSUME TypeOK, [Next]_vars
  PROVE  TypeOK'
<1> USE DEF TypeOK
<1>1. ASSUME NEW ok \in BOOLEAN, AnnounceFull(ok) PROVE TypeOK'
  <2> DEFINE r == NextIndex
             rp == [rec[r] EXCEPT !.retryCount = 0]
  <2>1. r \in Recorder
    BY NextIndexInRange
  <2>2. rp \in RecorderRecord /\ rp.pretrigCount = rec[r].pretrigCount
    BY <2>1 DEF RecorderRecord
  <2>3. HeaderPacket(r, rp, ok)
    BY <1>1 DEF AnnounceFull
  <2>4. PacketTypes'
    BY <2>1, <2>2, <2>3, HeaderPacketType
  <2>5. hw' \in [Recorder -> Hardware]
    BY <1>1, <2>1 DEF AnnounceFull, CsrWrite, Hardware
  <2>6. disturbed' \subseteq Recorder
    BY <2>1, <2>3 DEF HeaderPacket
  <2>7. QED
    BY <1>1, <2>1, <2>4, <2>5, <2>6 DEF AnnounceFull, PacketTypes
<1>2. ASSUME NEW ok \in BOOLEAN, RetryPacket(ok) PROVE TypeOK'
  <2> DEFINE r == NextIndex
             rp == [rec[r] EXCEPT !.retryCount = @ + 1]
  <2>1. r \in Recorder
    BY NextIndexInRange
  <2>2. rp \in RecorderRecord /\ rp.pretrigCount = rec[r].pretrigCount
    BY <2>1 DEF RecorderRecord
  <2>3. HeaderPacket(r, rp, ok) \/ DataPacket(r, rp, ok)
    BY <1>2 DEF RetryPacket
  <2>4. PacketTypes'
    BY <2>1, <2>2, <2>3, HeaderPacketType, DataPacketType
  <2>5. disturbed' \subseteq Recorder
    BY <1>2, <2>1 DEF RetryPacket, HeaderPacket
  <2>6. QED
    BY <1>2, <2>1, <2>4, <2>5 DEF RetryPacket, PacketTypes
<1>3. CASE Abandon
  <2>1. NextIndex \in Recorder
    BY NextIndexInRange
  <2> DEFINE rp == [rec[NextIndex] EXCEPT !.retryCount = @ + 1]
             rq == LeaveTransfer(rp)
  <2>2. rec' = [rec EXCEPT ![NextIndex] = rq]
    BY <1>3 DEF Abandon, LeaveTransfer
  <2>3. KeepsType(rp, rec[NextIndex])
    BY <2>1, UpdateType
  <2> HIDE DEF rp
  <2>4. KeepsType(rq, rp)
    BY <2>3, UpdateType DEF KeepsType
  <2> HIDE DEF rq
  <2>5. QED
    BY <1>3, <2>1, <2>2, <2>3, <2>4, PutRecord DEF Abandon, KeepsType
<1>4. CASE PassOver
  BY <1>4, NextIndexInRange DEF PassOver
<1>5. CASE Subscribe
  BY <1>5 DEF Subscribe
<1>6. ASSUME NEW m \in net, NEW ok \in BOOLEAN, WfrAckPacket(m, ok) PROVE TypeOK'
  <2> DEFINE rp == [rec[m.rec] EXCEPT !.retryCount = 0]
             rq == Acknowledged(rp)
  <2>1. m.rec \in Recorder
    BY DEF Ack, Data, Header
  <2>2. rp \in RecorderRecord /\ rp.pretrigCount = rec[m.rec].pretrigCount
    BY <2>1 DEF RecorderRecord
  <2> HIDE DEF rp
  <2>3. rq \in RecorderRecord /\ rq.pretrigCount = rp.pretrigCount
    BY <2>2, UpdateType DEF KeepsType
  <2>4. DataPacket(m.rec, rq, ok)
    BY <1>6 DEF WfrAckPacket, rp
  <2>5. PacketTypes'
    BY <2>1, <2>2, <2>3, <2>4, DataPacketType
  <2>6. QED
    BY <1>6, <2>5 DEF WfrAckPacket, PacketTypes
<1>7. ASSUME NEW r \in Used, NEW val \in AcqValues, WriteAcqCount(r, val)
      PROVE  TypeOK'
  <2>1. r \in Recorder
    BY UsedAssumption DEF Recorder
  <2>2. Smaller(val, Capacity) \in 1 .. Capacity
    BY <1>7, InputAssumption, SizeAssumption, SmallerOf DEF WriteAcqCount
  <2> DEFINE rq == [rec[r] EXCEPT !.acqCount = Smaller(val, Capacity)]
  <2>3. rq \in RecorderRecord /\ rq.pretrigCount = rec[r].pretrigCount
    BY <2>1, <2>2 DEF RecorderRecord
  <2>4. rec' = [rec EXCEPT ![r] = rq]
    BY <1>7, <2>1 DEF WriteAcqCount
  <2> HIDE DEF rq
  <2>5. disturbed' \subseteq Recorder
    BY <1>7, <2>1 DEF WriteAcqCount, Disturb
  <2>6. QED
    BY <1>7, <2>1, <2>3, <2>4, <2>5, PutRecord DEF WriteAcqCount
<1>8. ASSUME NEW r \in Used, NEW val \in PretrigValues, WritePretrigCount(r, val)
      PROVE  TypeOK'
  <2>1. r \in Recorder
    BY UsedAssumption DEF Recorder
  <2>a. val \in Nat /\ MaxPretrigger(r) \in Nat
    BY InputAssumption, SizeAssumption DEF MaxPretrigger
  <2>b. r = Adc => MaxPretrigger(r) = FixedPretrigger
    BY DEF MaxPretrigger
  <2>2. /\ Smaller(val, MaxPretrigger(r)) \in Nat
        /\ r = Adc => Smaller(val, MaxPretrigger(r)) <= FixedPretrigger
    BY <2>a, <2>b, SmallerOf
  <2> DEFINE rq == [rec[r] EXCEPT !.pretrigCount = Smaller(val, MaxPretrigger(r))]
  <2>3. /\ rq \in RecorderRecord
        /\ r = Adc => rq.pretrigCount <= FixedPretrigger
    BY <2>1, <2>2 DEF RecorderRecord
  <2>4. rec' = [rec EXCEPT ![r] = rq]
    BY <1>8, <2>1 DEF WritePretrigCount
  <2> HIDE DEF rq
  <2>5. disturbed' \subseteq Recorder
    BY <1>8, <2>1 DEF WritePretrigCount, Disturb
  <2>6. QED
    BY <1>8, <2>1, <2>3, <2>4, <2>5, PutRecord DEF WritePretrigCount
<1>9. ASSUME NEW r \in Used, ArmCommand(r) PROVE TypeOK'
  <2>1. r \in Recorder
    BY UsedAssumption DEF Recorder
  <2> DEFINE rq == IF hw[r].armed THEN LeaveTransfer(rec[r])
                   ELSE LeaveTransfer(NextWaveform(rec[r]))
  <2>2. rq \in RecorderRecord /\ rq.pretrigCount = rec[r].pretrigCount
    <3>1. KeepsType(NextWaveform(rec[r]), rec[r])
      BY <2>1, UpdateType
    <3>2. /\ KeepsType(LeaveTransfer(rec[r]), rec[r])
          /\ KeepsType(LeaveTransfer(NextWaveform(rec[r])), NextWaveform(rec[r]))
      BY <2>1, <3>1, UpdateType DEF KeepsType
    <3>3. QED BY <3>1, <3>2 DEF KeepsType
  <2>3. rec' = [rec EXCEPT ![r] = rq]
    BY <1>9, <2>1 DEF ArmCommand
  <2>4. hw' \in [Recorder -> Hardware]
    BY <1>9, <2>1 DEF ArmCommand, Hardware, RecorderRecord
  <2> HIDE DEF rq
  <2>5. QED
    BY <1>9, <2>1, <2>2, <2>3, <2>4, PutRecord DEF ArmCommand
<1>10. CASE ArmWrite
  BY <1>10 DEF ArmWrite, CsrWrite, Hardware
<1>11. ASSUME NEW r \in Used, Disarm(r) PROVE TypeOK'
  <2>1. r \in Recorder
    BY UsedAssumption DEF Recorder
  <2>2. PICK h \in Hardware : h = CsrWrite(hw[r], FALSE)
    BY <2>1 DEF CsrWrite, Hardware
  <2>3. Unannounced(h, hw[r].full) \in Hardware
    BY <2>2 DEF Hardware, Unannounced
  <2>4. hw' = [hw EXCEPT ![r] = Unannounced(h, hw[r].full)]
    BY <1>11, <2>1, <2>2 DEF Disarm
  <2>a. hw' \in [Recorder -> Hardware]
    BY <2>1, <2>3, <2>4
  <2>5. QED
    BY <1>11, <2>a DEF Disarm
<1>12. ASSUME NEW r \in Recorder, Complete(r) PROVE TypeOK'
  <2>1. PICK next \in (IF r = Adc THEN {0} ELSE 0 .. Capacity - 1),
             lag \in (IF r = Adc THEN {0} ELSE 0 .. MaxLag) :
          hw' = [hw EXCEPT ![r].armed = FALSE, ![r].full = TRUE,
                           ![r].next = next, ![r].lag = lag, ![r].acq = @ + 1,
                           ![r].window = CapturedWindow(r, next)]
    BY <1>12 DEF Complete
  <2>2. next \in Nat /\ lag \in Nat
    BY SizeAssumption, BoundAssumption
  <2>3. CapturedWindow(r, next) \in Window
    BY <2>2, SizeAssumption DEF CapturedWindow, Window, Hardware
  <2>4. hw' \in [Recorder -> Hardware]
    BY <2>1, <2>2, <2>3 DEF Hardware
  <2>5. QED
    BY <1>12, <2>4 DEF Complete
<1>13. ASSUME NEW r \in Recorder, TimePasses(r) PROVE TypeOK'
  <2> DEFINE rq == [rec[r] EXCEPT !.aged = TRUE]
  <2>1. rq \in RecorderRecord /\ rq.pretrigCount = rec[r].pretrigCount
    BY DEF RecorderRecord
  <2>2. rec' = [rec EXCEPT ![r] = rq]
    BY <1>13 DEF TimePasses
  <2> HIDE DEF rq
  <2>3. QED
    BY <1>13, <2>1, <2>2, PutRecord DEF TimePasses
<1>14. ASSUME NEW m \in net, IocHeader(m) PROVE TypeOK'
  <2>1. m.rec \in Recorder /\ m.wf \in Nat
    BY DEF Ack, Data, Header
  <2>2. QED
    BY <1>14, <2>1 DEF IocHeader, Ack
<1>15. ASSUME NEW m \in net, IocData(m) PROVE TypeOK'
  <2>1. m \in Data
    BY <1>15 DEF IocData, Ack, Header
  <2>2. m.rec \in Recorder /\ m.wf \in Nat /\ m.block \in Nat
    BY <2>1 DEF Data
  <2>3. QED
    BY <1>15, <2>1, <2>2 DEF IocData, Ack
<1>16. ASSUME NEW r \in Recorder, Drain(r) PROVE TypeOK'
  <2>1. PICK lag \in 0 .. hw[r].lag - 1 : hw' = [hw EXCEPT ![r].lag = lag]
    BY <1>16 DEF Drain
  <2>2. hw[r].lag \in Nat
    BY DEF Hardware
  <2>3. hw' \in [Recorder -> Hardware]
    BY <2>1, <2>2 DEF Hardware
  <2>4. QED
    BY <1>16, <2>3 DEF Drain
<1>17. CASE UNCHANGED vars
  BY <1>17 DEF vars
<1>18. QED
  BY <1>1, <1>2, <1>3, <1>4, <1>5, <1>6, <1>7, <1>8, <1>9, <1>10, <1>11, <1>12,
     <1>13, <1>14, <1>15, <1>16, <1>17
     DEF Next, Software, Environment, WfrCheckForWork, WaveformRecorderCommand

\* The types hold at first.
LEMMA TypeInit ==
  ASSUME Init
  PROVE  TypeOK
<1>1. Adc \in Recorder /\ 0 \in Recorder
  BY AdcIsRecorder DEF Adc
<1>2. \A r \in Recorder : InitRecorder(r) \in RecorderRecord
  BY SizeAssumption DEF InitRecorder, RecorderRecord, CommState
<1>3. InitRecorder(Adc).pretrigCount = FixedPretrigger
  BY DEF InitRecorder
<1>4. InitHardware \in Hardware
  BY DEF InitHardware, Hardware, Window
<1>5. QED
  <2>1. /\ rec \in [Recorder -> RecorderRecord]
        /\ rec[Adc].pretrigCount <= FixedPretrigger
    BY <1>1, <1>2, <1>3, SizeAssumption DEF Init
  <2>2. hw \in [Recorder -> Hardware]
    BY <1>4 DEF Init
  <2>3. QED
    BY <1>1, <2>1, <2>2 DEF Init, TypeOK

\* The variables have their types in every reachable state.  In particular the
\* start of a waveform, which headerPacket computes with unsigned
\* subtractions, stays within the recorder's buffer whatever counts the IOC
\* writes, and the ADC recorder's pretrigger count never exceeds what its
\* hardware stores.
THEOREM TypeCorrect == Spec => []TypeOK
BY TypeInit, TypeStep, PTL DEF Spec
(***************************************************************************)
(* The inductive invariant IInv, what it implies, and the refinement of     *)
(* WaveformArchive.                                                        *)
(***************************************************************************)
\* The invariant holds at first.
LEMMA IInvInit ==
  ASSUME Init
  PROVE  IInv
BY NRecAssumption, AdcIsRecorder
   DEF Init, IInv, BufferStable, Numbering, UnpublishedUntilServed, Unpublished,
       OneAcquisitionPerNumber, HeaderFirst, BlocksInOrder, OneVersionOfABlock,
       AcksAreReceipts, AckedBlocksReceived, Sent, Headers, DataPackets,
       InitRecorder, InitHardware, NoRecorder, Recorder

\* What disarming leaves of a recorder.
LEMMA DisarmedHardware ==
  ASSUME NEW h \in Hardware, NEW b
  PROVE  LET g == Unannounced(CsrWrite(h, FALSE), b)
         IN /\ ~g.armed /\ ~g.full /\ g.lag = h.lag /\ g.next = h.next
            /\ g.acq = h.acq /\ g.window = h.window
            /\ g.acqCount = h.acqCount /\ g.pretrig = h.pretrig
<1>a. PICK g \in Hardware : g = CsrWrite(h, FALSE)
  BY DEF CsrWrite, Hardware
<1>1. /\ ~g.armed /\ ~g.full /\ g.lag = h.lag
      /\ g.next = h.next /\ g.acq = h.acq /\ g.window = h.window
      /\ g.acqCount = h.acqCount /\ g.pretrig = h.pretrig
  BY <1>a DEF CsrWrite, Hardware
<1>2. PICK w : Unannounced(g, b) = [g EXCEPT !.withdrawn = w]
  BY DEF Unannounced
<1>3. QED BY <1>a, <1>1, <1>2 DEF Hardware

\* What a step leaves alone that neither touches the hardware nor the
\* acknowledgements.
Aside == hw' = hw /\ got' = got /\ arming' = arming

\* A recorder in the middle of its transfer makes its next data packet: the
\* block it is at, or the one after it if the IOC has that one.
LEMMA SendData ==
  ASSUME TypeOK, IInv, NEW r \in Recorder, NEW rp \in RecorderRecord, NEW ok \in BOOLEAN,
         DataPacket(r, rp, ok), Aside,
         rec[r].commState \in {"HEADER", "ACTIVE"},
         rp.waveformNumber = rec[r].waveformNumber,
         \/ rp.txBlock = rec[r].txBlock /\ DataOf(r, rp) = DataOf(r, rec[r])
         \/ /\ rec[r].commState = "ACTIVE"
            /\ rp.txBlock = rec[r].txBlock + 1
            /\ rec[r].txBlock > 0 =>
                 \E g \in got : /\ g.rec = r /\ g.wf = rec[r].waveformNumber
                                /\ g.block = rec[r].txBlock
  PROVE  IInv'
<1> DEFINE d == DataOf(r, rp)
           rq == IF rp.left > 0 /\ ok
                 THEN [rp EXCEPT !.commState = "ACTIVE", !.previous = d.len,
                                 !.aged = FALSE]
                 ELSE [rp EXCEPT !.commState = "IDLE", !.previous = 0]
<1>1. rec' = [rec EXCEPT ![r] = rq]
  BY DEF DataPacket
<1>2. /\ rq.waveformNumber = rec[r].waveformNumber
      /\ rq.txBlock = rp.txBlock
      /\ rq.startOffset = rp.startOffset
      /\ rq.left = rp.left
      /\ rq.commState = "ACTIVE" \/ rq.commState = "IDLE"
      /\ rq.commState = "ACTIVE" <=> rp.left > 0 /\ ok
  BY DEF RecorderRecord, CommState
<1>3. /\ rq.commState = "ACTIVE" => net' = net \cup {d}
      /\ rq.commState # "ACTIVE" => net' = net
  BY <1>2 DEF DataPacket
<1>4. /\ d.type = "Data" /\ d.rec = r /\ d.wf = rec[r].waveformNumber
      /\ d.block = rp.txBlock /\ d.acq = hw[r].acq
  BY DEF DataOf
<1>5. DataOf(r, rq) = d
  BY <1>2 DEF DataOf
<1> HIDE DEF rq, d
<1>6. /\ rec'[r] = rq
      /\ \A s \in Recorder : s # r => rec'[s] = rec[s]
      /\ \A s \in Recorder : rec'[s].waveformNumber = rec[s].waveformNumber
  BY <1>1, <1>2 DEF TypeOK
<1>7. /\ Headers' = Headers
      /\ DataPackets' = DataPackets \/ DataPackets' = DataPackets \cup {d}
      /\ rq.commState = "ACTIVE" \/ DataPackets' = DataPackets
      /\ {m \in net' : m.type = "Ack"} = {m \in net : m.type = "Ack"}
  BY <1>3, <1>4 DEF Headers, DataPackets
<1>8. /\ ~hw[r].armed /\ ~hw[r].full /\ arming # r
      /\ \A m \in Sent : m.rec \in Recorder
      /\ DataPackets \subseteq Sent /\ \A m \in DataPackets : m.block \in Nat
      /\ rec[r].waveformNumber \in Nat /\ rec[r].txBlock \in Nat
  BY DEF IInv, BufferStable, TypeOK, Sent, Headers, DataPackets, Header, Data, Ack,
         RecorderRecord
<1>9. BufferStable'
  BY <1>6, <1>8 DEF IInv, BufferStable, Aside
<1>10. Numbering'
  BY <1>4, <1>6, <1>7, <1>8 DEF IInv, Numbering, Sent, Aside
<1>11. UnpublishedUntilServed'
  BY <1>4, <1>6, <1>7, <1>8
     DEF IInv, UnpublishedUntilServed, Unpublished, Sent, Aside
<1>12. OneAcquisitionPerNumber'
  BY <1>4, <1>7, <1>8 DEF IInv, OneAcquisitionPerNumber, Numbering, Sent
<1>13. HeaderFirst'
  BY <1>2, <1>4, <1>6, <1>7 DEF IInv, HeaderFirst
<1>14. BlocksInOrder'
  <2> SUFFICES ASSUME NEW s \in Recorder, NEW m \in DataPackets',
                      rec'[s].commState = "ACTIVE", m.rec = s,
                      m.wf = rec'[s].waveformNumber
               PROVE  /\ m.block <= rec'[s].txBlock
                      /\ m.block = rec'[s].txBlock => Block(m) = Block(DataOf(s, rec[s])')
    BY DEF BlocksInOrder, Block
  <2>1. CASE s # r
    <3>1. DataOf(s, rec[s])' = DataOf(s, rec[s])
      BY <1>6, <2>1 DEF DataOf, Aside
    <3>2. QED
      BY <1>4, <1>6, <1>7, <2>1, <3>1 DEF IInv, BlocksInOrder
  <2>2. CASE s = r
    <3>1. DataOf(s, rec[s])' = d
      BY <1>5, <1>6, <2>2 DEF DataOf, Aside
    <3>2. CASE m = d
      BY <1>2, <1>4, <1>6, <2>2, <3>1, <3>2, <1>8
    <3>3. CASE m # d
      <4>1. m \in DataPackets
        BY <1>7, <3>3
      <4>2. rec[s].commState = "ACTIVE"
        BY <1>6, <2>2, <4>1 DEF IInv, HeaderFirst
      <4>3. /\ m.block <= rec[r].txBlock
            /\ m.block = rec[r].txBlock => Block(m) = Block(DataOf(r, rec[r]))
        BY <1>6, <2>2, <4>1, <4>2 DEF IInv, BlocksInOrder
      <4>4. m.block \in Nat
        BY <1>8, <4>1
      <4>5. CASE rp.txBlock = rec[r].txBlock /\ d = DataOf(r, rec[r])
        BY <1>2, <1>6, <2>2, <3>1, <4>3, <4>5
      <4>6. CASE rp.txBlock = rec[r].txBlock + 1
        BY <1>2, <1>6, <1>8, <2>2, <4>3, <4>4, <4>6
      <4>7. QED BY <4>5, <4>6 DEF d
    <3>4. QED BY <3>2, <3>3
  <2>3. QED BY <2>1, <2>2
<1>15. OneVersionOfABlock'
  <2>1. ASSUME NEW m \in DataPackets, m.rec = r, m.wf = d.wf, m.block = d.block
        PROVE  Block(m) = Block(d)
    <3>1. rec[r].commState = "ACTIVE"
      BY <1>4, <2>1 DEF IInv, HeaderFirst
    <3>2. /\ m.block <= rec[r].txBlock
          /\ m.block = rec[r].txBlock => Block(m) = Block(DataOf(r, rec[r]))
      BY <1>4, <2>1, <3>1 DEF IInv, BlocksInOrder
    <3>3. m.block \in Nat
      BY <1>8
    <3>4. QED BY <1>4, <1>8, <2>1, <3>2, <3>3 DEF d
  <2>2. QED
    BY <1>4, <1>7, <2>1 DEF IInv, OneVersionOfABlock
<1>16. AcksAreReceipts'
  BY <1>7 DEF IInv, AcksAreReceipts, Aside
<1>17. AckedBlocksReceived'
  <2> SUFFICES ASSUME NEW s \in Recorder, rec'[s].commState = "ACTIVE",
                      NEW n \in 1 .. rec'[s].txBlock - 1
               PROVE  \E g \in got : /\ g.rec = s /\ g.block = n
                                     /\ g.wf = rec[s].waveformNumber
    BY <1>6 DEF AckedBlocksReceived, Aside
  <2>1. CASE s # r
    BY <1>6, <2>1 DEF IInv, AckedBlocksReceived
  <2>2. CASE s = r /\ rec[r].commState = "HEADER"
    <3>1. rp.txBlock = 0
      BY <2>2 DEF IInv, HeaderFirst
    <3>2. QED BY <1>2, <1>6, <2>2, <3>1
  <2>3. CASE s = r /\ rec[r].commState = "ACTIVE"
    BY <1>2, <1>6, <1>8, <2>3 DEF IInv, AckedBlocksReceived
  <2>4. QED BY <2>1, <2>2, <2>3
<1>18. (got \subseteq net)'
  BY <1>2, <1>3 DEF IInv, Aside
<1>19. QED
  BY <1>9, <1>10, <1>11, <1>12, <1>13, <1>14, <1>15, <1>16, <1>17, <1>18 DEF IInv

\* A recorder makes its header packet, for the first time or again: nothing of
\* its present number has left but headers.
LEMMA SendHeader ==
  ASSUME TypeOK, IInv, NEW r \in Recorder, NEW rp \in RecorderRecord, NEW ok \in BOOLEAN,
         HeaderPacket(r, rp, ok), got' = got, arming' = arming,
         hw' \in [Recorder -> Hardware],
         \A s \in Recorder : s # r => hw'[s] = hw[s],
         hw'[r].acq = hw[r].acq, ~hw'[r].armed, ~hw'[r].full, arming # r,
         rp.waveformNumber = rec[r].waveformNumber,
         rp.commState = rec[r].commState, rp.txBlock = rec[r].txBlock,
         rec[r].commState = "HEADER" \/ (rec[r].commState = "IDLE" /\ Unpublished(r))
  PROVE  IInv'
<1> DEFINE h == HeaderOf(r, rp)
           rs == [rp EXCEPT !.startOffset = StartOffset(r, rp), !.previous = 0]
           rq == IF ok THEN [rs EXCEPT !.commState = "HEADER", !.left = h.total,
                                       !.txBlock = 0, !.aged = FALSE]
                 ELSE rs
<1>1. rec' = [rec EXCEPT ![r] = rq]
  BY DEF HeaderPacket
<1>2. /\ rq.waveformNumber = rec[r].waveformNumber
      /\ ok => rq.commState = "HEADER" /\ rq.txBlock = 0
      /\ ~ok => rq.commState = rec[r].commState /\ rq.txBlock = rec[r].txBlock
  <2>1. /\ rs.waveformNumber = rp.waveformNumber
        /\ rs.commState = rp.commState
        /\ rs.txBlock = rp.txBlock
        /\ DOMAIN rs = DOMAIN rp
    BY DEF RecorderRecord
  <2>2. {"waveformNumber", "commState", "txBlock"} \subseteq DOMAIN rp
    BY DEF RecorderRecord
  <2> HIDE DEF rs, h
  <2>3. CASE ok
    BY <2>1, <2>2, <2>3
  <2>4. CASE ~ok
    BY <2>1, <2>4
  <2>5. QED BY <2>3, <2>4
<1>3. /\ ok => net' = net \cup {h}
      /\ ~ok => net' = net
  BY DEF HeaderPacket
<1>4. h.type = "Header" /\ h.rec = r /\ h.wf = rec[r].waveformNumber /\ h.acq = hw[r].acq
  BY DEF HeaderOf
<1> HIDE DEF rq, rs, h
<1>5. /\ rec'[r] = rq
      /\ \A s \in Recorder : s # r => rec'[s] = rec[s]
      /\ \A s \in Recorder : rec'[s].waveformNumber = rec[s].waveformNumber
      /\ \A s \in Recorder : hw'[s].acq = hw[s].acq
  BY <1>1, <1>2 DEF TypeOK
<1>6. /\ DataPackets' = DataPackets
      /\ Headers' = Headers \/ Headers' = Headers \cup {h}
      /\ {m \in net' : m.type = "Ack"} = {m \in net : m.type = "Ack"}
  BY <1>3, <1>4 DEF Headers, DataPackets
<1>7. /\ \A m \in Sent : m.rec \in Recorder
      /\ \A s \in Recorder : rec[s].waveformNumber \in Nat
      /\ rq.commState = "HEADER" \/ rq.commState = "IDLE"
      /\ \A m \in DataPackets : m.rec = r => m.wf # rec[r].waveformNumber
    <2>1. /\ \A m \in Sent : m.rec \in Recorder /\ m.wf \in Nat
          /\ \A s \in Recorder : rec[s].waveformNumber \in Nat
      BY DEF TypeOK, Sent, Headers, DataPackets, Header, Data, Ack, RecorderRecord
    <2>2. rq.commState = "HEADER" \/ rq.commState = "IDLE"
      BY <1>2
    <2>3. \A m \in DataPackets : m.rec = r => m.wf # rec[r].waveformNumber
      BY <2>1 DEF IInv, HeaderFirst, Unpublished, Sent
    <2>4. QED BY <2>1, <2>2, <2>3
<1>8. BufferStable'
  BY <1>5 DEF IInv, BufferStable
<1>9. Numbering'
  BY <1>4, <1>5, <1>6, <1>7 DEF IInv, Numbering, Sent
<1>10. UnpublishedUntilServed'
  BY <1>4, <1>5, <1>6, <1>7 DEF IInv, UnpublishedUntilServed, Unpublished, Sent
<1>11. OneAcquisitionPerNumber'
  BY <1>4, <1>6, <1>7 DEF IInv, OneAcquisitionPerNumber, Numbering, Sent
<1>12. HeaderFirst'
  BY <1>2, <1>5, <1>6, <1>7 DEF IInv, HeaderFirst
<1>13. BlocksInOrder'
  <2> SUFFICES ASSUME NEW s \in Recorder, NEW m \in DataPackets,
                      rec'[s].commState = "ACTIVE", m.rec = s,
                      m.wf = rec'[s].waveformNumber
               PROVE  /\ m.block <= rec'[s].txBlock
                      /\ m.block = rec'[s].txBlock => Block(m) = Block(DataOf(s, rec[s])')
    BY <1>6 DEF BlocksInOrder, Block
  <2>1. s # r
    BY <1>5, <1>7
  <2>2. DataOf(s, rec[s])' = DataOf(s, rec[s])
    BY <1>5, <2>1 DEF DataOf
  <2>3. QED BY <1>5, <2>1, <2>2 DEF IInv, BlocksInOrder
<1>14. OneVersionOfABlock'
  BY <1>6 DEF IInv, OneVersionOfABlock
<1>15. AcksAreReceipts'
  BY <1>6 DEF IInv, AcksAreReceipts
<1>16. AckedBlocksReceived'
  BY <1>5, <1>7 DEF IInv, AckedBlocksReceived
<1>17. (got \subseteq net)'
  BY <1>3 DEF IInv
<1>18. QED
  BY <1>8, <1>9, <1>10, <1>11, <1>12, <1>13, <1>14, <1>15, <1>16, <1>17 DEF IInv

\* Steps that neither send nor receive and let no recorder enter a transfer:
\* those that only change counts, timers or the state of leaving one.
LEMMA NoTraffic ==
  ASSUME TypeOK, IInv, TypeOK', net' = net, got' = got, arming' = arming, hw' = hw,
         \A s \in Recorder :
           /\ rec'[s].waveformNumber = rec[s].waveformNumber
           /\ \/ rec'[s].commState = "IDLE"
              \/ /\ rec'[s].commState = rec[s].commState
                 /\ rec'[s].txBlock = rec[s].txBlock
                 /\ rec'[s].startOffset = rec[s].startOffset
                 /\ rec'[s].left = rec[s].left
  PROVE  IInv'
<1>1. Headers' = Headers /\ DataPackets' = DataPackets /\ Sent' = Sent
  BY DEF Headers, DataPackets, Sent
<1>2. \A m \in Sent : m.rec \in Recorder
  BY DEF TypeOK, Sent, Headers, DataPackets, Header, Data, Ack
<1>3. BufferStable'
  BY DEF IInv, BufferStable
<1>4. Numbering' /\ UnpublishedUntilServed' /\ OneAcquisitionPerNumber'
  BY <1>1, <1>2 DEF IInv, Numbering, UnpublishedUntilServed, Unpublished,
                    OneAcquisitionPerNumber
<1>5. HeaderFirst'
  BY <1>1 DEF IInv, HeaderFirst
<1>6. BlocksInOrder'
  <2> SUFFICES ASSUME NEW s \in Recorder, NEW m \in DataPackets,
                      rec'[s].commState = "ACTIVE", m.rec = s,
                      m.wf = rec'[s].waveformNumber
               PROVE  /\ m.block <= rec'[s].txBlock
                      /\ m.block = rec'[s].txBlock => Block(m) = Block(DataOf(s, rec[s])')
    BY <1>1 DEF BlocksInOrder, Block
  <2>1. DataOf(s, rec[s])' = DataOf(s, rec[s])
    BY DEF DataOf
  <2>2. QED BY <2>1 DEF IInv, BlocksInOrder
<1>7. OneVersionOfABlock' /\ AcksAreReceipts' /\ (got \subseteq net)'
  BY <1>1 DEF IInv, OneVersionOfABlock, AcksAreReceipts
<1>8. AckedBlocksReceived'
  BY DEF IInv, AckedBlocksReceived
<1>9. QED
  BY <1>3, <1>4, <1>5, <1>6, <1>7, <1>8 DEF IInv

\* Steps of the hardware and of the commands, in which nothing is sent and no
\* recorder is in or enters a transfer that was not: an acquisition may end
\* only where nothing has been published, but may be stored at any time.
LEMMA NoTransfer ==
  ASSUME TypeOK, IInv, TypeOK', net' = net, got' = got,
         \A s \in Recorder :
           \/ /\ rec'[s] = rec[s]
              /\ hw'[s].armed = hw[s].armed /\ hw'[s].full = hw[s].full
              /\ hw'[s].acq = hw[s].acq /\ hw'[s].window = hw[s].window
              /\ arming' = s => arming = s
           \/ /\ rec'[s] = rec[s]
              /\ ~hw'[s].armed /\ ~hw'[s].full /\ arming' # s
              /\ hw'[s].acq = hw[s].acq /\ hw'[s].window = hw[s].window
           \/ /\ rec'[s].commState = "IDLE"
              /\ rec'[s].waveformNumber = rec[s].waveformNumber
              /\ Unpublished(s)
           \/ /\ rec'[s].commState = "IDLE"
              /\ rec'[s].waveformNumber > rec[s].waveformNumber
  PROVE  IInv'
<1>1. Headers' = Headers /\ DataPackets' = DataPackets /\ Sent' = Sent
  BY DEF Headers, DataPackets, Sent
<1>2. /\ \A m \in Sent : m.rec \in Recorder /\ m.wf \in Nat
      /\ \A s \in Recorder : rec[s].waveformNumber \in Nat
      /\ \A s \in Recorder : rec'[s].waveformNumber \in Nat
  BY DEF TypeOK, Sent, Headers, DataPackets, Header, Data, Ack, RecorderRecord
<1>3. \A m \in Sent :
        /\ m.wf <= rec[m.rec].waveformNumber
        /\ m.wf = rec[m.rec].waveformNumber => m.acq = hw[m.rec].acq
  BY DEF IInv, Numbering
<1>4. BufferStable'
  BY DEF IInv, BufferStable
<1>5. Numbering'
  <2> SUFFICES ASSUME NEW m \in Sent
               PROVE  /\ m.wf <= rec'[m.rec].waveformNumber
                      /\ m.wf = rec'[m.rec].waveformNumber => m.acq = hw'[m.rec].acq
    BY <1>1 DEF Numbering
  <2> DEFINE s == m.rec
  <2>1. s \in Recorder /\ m.wf \in Nat /\ m.rec = s
    BY <1>2
  <2>2. /\ rec[s].waveformNumber \in Nat /\ rec'[s].waveformNumber \in Nat
        /\ m.wf <= rec[s].waveformNumber
        /\ m.wf = rec[s].waveformNumber => m.acq = hw[s].acq
    <3>1. rec[s].waveformNumber \in Nat /\ rec'[s].waveformNumber \in Nat
      BY <1>2, <2>1
    <3>2. /\ m.wf <= rec[m.rec].waveformNumber
          /\ m.wf = rec[m.rec].waveformNumber => m.acq = hw[m.rec].acq
      BY <1>3
    <3>3. QED BY <3>1, <3>2
  <2>3. Unpublished(s) => m.wf < rec[s].waveformNumber
    BY DEF Unpublished
  <2> HIDE DEF s
  <2>4. QED BY <2>1, <2>2, <2>3
<1>6. UnpublishedUntilServed'
  <2> SUFFICES ASSUME NEW s \in Recorder, hw'[s].armed \/ hw'[s].full \/ arming' = s,
                      NEW m \in Sent, m.rec = s
               PROVE  m.wf < rec'[s].waveformNumber
    BY <1>1 DEF UnpublishedUntilServed, Unpublished
  <2>1. /\ m.wf \in Nat
        /\ rec[s].waveformNumber \in Nat /\ rec'[s].waveformNumber \in Nat
        /\ m.wf <= rec[s].waveformNumber
    <3>1. /\ m.wf \in Nat
          /\ rec[s].waveformNumber \in Nat /\ rec'[s].waveformNumber \in Nat
      BY <1>2
    <3>2. m.wf <= rec[m.rec].waveformNumber
      BY <1>3
    <3>3. QED BY <3>1, <3>2
  <2>2. Unpublished(s) => m.wf < rec[s].waveformNumber
    BY DEF Unpublished
  <2>3. hw[s].armed \/ hw[s].full \/ arming = s => Unpublished(s)
    BY DEF IInv, UnpublishedUntilServed
  <2>4. QED BY <2>1, <2>2, <2>3
<1>7. OneAcquisitionPerNumber' /\ OneVersionOfABlock' /\ AcksAreReceipts'
  BY <1>1 DEF IInv, OneAcquisitionPerNumber, OneVersionOfABlock, AcksAreReceipts
<1>8. HeaderFirst'
  BY <1>1 DEF IInv, HeaderFirst
<1>9. BlocksInOrder'
  <2> SUFFICES ASSUME NEW s \in Recorder, NEW m \in DataPackets,
                      rec'[s].commState = "ACTIVE", m.rec = s,
                      m.wf = rec'[s].waveformNumber
               PROVE  /\ m.block <= rec'[s].txBlock
                      /\ m.block = rec'[s].txBlock => Block(m) = Block(DataOf(s, rec[s])')
    BY <1>1 DEF BlocksInOrder, Block
  <2>1. /\ rec'[s] = rec[s]
        /\ hw'[s].acq = hw[s].acq /\ hw'[s].window = hw[s].window
    OBVIOUS
  <2>2. DataOf(s, rec[s])' = [DataOf(s, rec[s]) EXCEPT !.stored = (hw'[s].lag = 0)]
    BY <2>1 DEF DataOf
  <2>a. Block(DataOf(s, rec[s])') = Block(DataOf(s, rec[s]))
    BY <2>2 DEF DataOf, Block
  <2>3. QED BY <2>1, <2>a DEF IInv, BlocksInOrder
<1>10. AckedBlocksReceived' /\ (got \subseteq net)'
  BY DEF IInv, AckedBlocksReceived
<1>11. QED
  BY <1>4, <1>5, <1>6, <1>7, <1>8, <1>9, <1>10 DEF IInv

\* The IOC answers.
LEMMA IocStep ==
  ASSUME TypeOK, IInv, NEW m \in net, IocHeader(m) \/ IocData(m)
  PROVE  IInv'
<1> DEFINE a == [type |-> "Ack", rec |-> m.rec, wf |-> m.wf,
                 block |-> IF m.type = "Header" THEN 0 ELSE m.block]
<1>1. /\ net' = net \cup {a} /\ rec' = rec /\ hw' = hw /\ arming' = arming
      /\ \/ a.block = 0 /\ got' = got
         \/ got' = got \cup {m} /\ m.rec = a.rec /\ m.wf = a.wf /\ m.block = a.block
  BY DEF IocHeader, IocData
<1>2. a.type = "Ack"
  OBVIOUS
<1> HIDE DEF a
<1>3. Headers' = Headers /\ DataPackets' = DataPackets /\ Sent' = Sent
  BY <1>1, <1>2 DEF Headers, DataPackets, Sent
<1>4. got \subseteq got' /\ got' \subseteq net'
  BY <1>1 DEF IInv
<1>5. AcksAreReceipts'
  BY <1>1, <1>2, <1>4 DEF IInv, AcksAreReceipts
<1>6. AckedBlocksReceived'
  BY <1>1, <1>4 DEF IInv, AckedBlocksReceived
<1>7. BlocksInOrder'
  BY <1>1, <1>3 DEF IInv, BlocksInOrder, DataOf
<1>8. QED
  BY <1>1, <1>3, <1>4, <1>5, <1>6, <1>7
     DEF IInv, BufferStable, Numbering, UnpublishedUntilServed, Unpublished,
         OneAcquisitionPerNumber, HeaderFirst, OneVersionOfABlock

\* Each step keeps it.
LEMMA IInvStep ==
  ASSUME TypeOK, IInv, [Next]_vars
  PROVE  IInv'
<1> USE TypeStep
<1>1. ASSUME NEW ok \in BOOLEAN, AnnounceFull(ok) PROVE IInv'
  <2> DEFINE r == NextIndex
             rp == [rec[r] EXCEPT !.retryCount = 0]
  <2>1. r \in Recorder
    BY NextIndexInRange DEF TypeOK
  <2>2. /\ rp \in RecorderRecord
        /\ rp.waveformNumber = rec[r].waveformNumber
        /\ rp.commState = rec[r].commState /\ rp.txBlock = rec[r].txBlock
    BY <2>1 DEF TypeOK, RecorderRecord
  <2>3. HeaderPacket(r, rp, ok) /\ got' = got /\ arming' = arming /\ arming # r
    BY <1>1, <2>1 DEF AnnounceFull, Ready, NoRecorder, Recorder
  <2>4. rec[r].commState = "IDLE" /\ Unpublished(r)
    BY <1>1, <2>1 DEF AnnounceFull, IInv, UnpublishedUntilServed
  <2>5. hw' = [hw EXCEPT ![r] = CsrWrite(@, FALSE)]
    BY <1>1 DEF AnnounceFull
  <2>6. /\ hw' \in [Recorder -> Hardware]
        /\ \A s \in Recorder : s # r => hw'[s] = hw[s]
        /\ hw'[r].acq = hw[r].acq /\ ~hw'[r].armed /\ ~hw'[r].full
    BY <2>1, <2>5 DEF TypeOK, CsrWrite, Hardware
  <2> HIDE DEF r, rp
  <2>7. QED BY <2>1, <2>2, <2>3, <2>4, <2>6, SendHeader
<1>2. ASSUME NEW ok \in BOOLEAN, RetryPacket(ok) PROVE IInv'
  <2> DEFINE r == NextIndex
             rp == [rec[r] EXCEPT !.retryCount = @ + 1]
  <2>1. r \in Recorder
    BY NextIndexInRange DEF TypeOK
  <2>2. /\ rp \in RecorderRecord
        /\ rp.waveformNumber = rec[r].waveformNumber
        /\ rp.commState = rec[r].commState /\ rp.txBlock = rec[r].txBlock
        /\ rp.startOffset = rec[r].startOffset /\ rp.left = rec[r].left
    BY <2>1 DEF TypeOK, RecorderRecord
  <2>3. DataOf(r, rp) = DataOf(r, rec[r])
    BY <2>2 DEF DataOf
  <2>4. /\ got' = got /\ arming' = arming /\ hw' = hw
        /\ rp.commState # "IDLE"
        /\ IF rp.commState = "HEADER" THEN HeaderPacket(r, rp, ok)
                                      ELSE DataPacket(r, rp, ok)
    BY <1>2 DEF RetryPacket
  <2>5. ~hw[r].armed /\ ~hw[r].full /\ arming # r
    BY <2>1, <2>2, <2>4 DEF IInv, BufferStable
  <2>6. hw \in [Recorder -> Hardware] /\ rec[r].commState \in CommState
    BY <2>1 DEF TypeOK, RecorderRecord
  <2> HIDE DEF r, rp
  <2>7. CASE rp.commState = "HEADER"
    BY <2>1, <2>2, <2>4, <2>5, <2>6, <2>7, SendHeader
  <2>8. CASE rp.commState # "HEADER"
    BY <2>1, <2>2, <2>3, <2>4, <2>6, <2>8, SendData DEF Aside, CommState
  <2>9. QED BY <2>7, <2>8
<1>3. CASE Abandon
  <2> DEFINE r == NextIndex
             rp == [rec[r] EXCEPT !.retryCount = @ + 1]
             rq == [rp EXCEPT !.commState = "IDLE"]
  <2>1. r \in Recorder
    BY NextIndexInRange DEF TypeOK
  <2>2. rq.waveformNumber = rec[r].waveformNumber /\ rq.commState = "IDLE"
    BY <2>1 DEF TypeOK, RecorderRecord
  <2>3. rec' = [rec EXCEPT ![r] = rq]
    BY <1>3 DEF Abandon
  <2> HIDE DEF r, rq
  <2>4. ASSUME NEW s \in Recorder
        PROVE  \/ rec'[s] = rec[s]
               \/ /\ rec'[s].waveformNumber = rec[s].waveformNumber
                  /\ rec'[s].commState = "IDLE"
    BY <2>1, <2>2, <2>3 DEF TypeOK
  <2>5. QED BY <1>3, <2>4, NoTraffic DEF Abandon
<1>4. CASE PassOver \/ Subscribe
  BY <1>4, NoTraffic DEF PassOver, Subscribe
<1>5. ASSUME NEW m \in net, NEW ok \in BOOLEAN, WfrAckPacket(m, ok) PROVE IInv'
  <2> DEFINE r == m.rec
             rp == [rec[r] EXCEPT !.retryCount = 0]
             rq == Acknowledged(rp)
  <2>1. r \in Recorder /\ m.block \in Nat
    BY <1>5 DEF WfrAckPacket, TypeOK, Ack, Data, Header
  <2>2. /\ rp \in RecorderRecord
        /\ rp.waveformNumber = rec[r].waveformNumber
        /\ rp.commState = rec[r].commState /\ rp.txBlock = rec[r].txBlock
        /\ rp.startOffset = rec[r].startOffset /\ rp.left = rec[r].left
    BY <2>1 DEF TypeOK, RecorderRecord
  <2>3. DataPacket(r, rq, ok) /\ Aside
    BY <1>5 DEF WfrAckPacket, Aside
  <2>4. /\ m.type = "Ack" /\ rec[r].commState \in {"HEADER", "ACTIVE"}
        /\ m.wf = rec[r].waveformNumber /\ m.block = rec[r].txBlock
    BY <1>5 DEF WfrAckPacket, AckFits
  <2> HIDE DEF rp
  <2>5. rq \in RecorderRecord
    BY <2>2, UpdateType DEF KeepsType
  <2>6. /\ rq.waveformNumber = rec[r].waveformNumber
        /\ rp.commState = "HEADER" => rq = rp
        /\ rp.commState # "HEADER" => rq.txBlock = rec[r].txBlock + 1
    BY <2>2 DEF Acknowledged, RecorderRecord
  <2>7. rec[r].txBlock > 0 =>
          \E g \in got : /\ g.rec = r /\ g.wf = rec[r].waveformNumber
                         /\ g.block = rec[r].txBlock
    BY <2>4 DEF IInv, AcksAreReceipts
  <2>8. DataOf(r, rp) = DataOf(r, rec[r])
    BY <2>2 DEF DataOf
  <2> HIDE DEF r, rq
  <2>9. CASE rec[r].commState = "HEADER"
    BY <2>1, <2>2, <2>3, <2>5, <2>6, <2>8, <2>9, SendData
  <2>10. CASE rec[r].commState = "ACTIVE"
    BY <2>1, <2>2, <2>3, <2>5, <2>6, <2>7, <2>10, SendData
  <2>11. QED BY <2>4, <2>9, <2>10
<1>6. ASSUME NEW r \in Used,
             \/ \E val \in AcqValues : WriteAcqCount(r, val)
             \/ \E val \in PretrigValues : WritePretrigCount(r, val)
      PROVE  IInv'
  BY <1>6, NoTraffic
     DEF WriteAcqCount, WritePretrigCount, TypeOK, RecorderRecord
<1>7. ASSUME NEW r \in Used, ArmCommand(r) PROVE IInv'
  <2>1. r \in Recorder
    BY UsedAssumption DEF Recorder
  <2>2. CASE hw[r].armed
    <3>1. rec' = [rec EXCEPT ![r] = LeaveTransfer(rec[r])] /\ hw' = hw
      BY <1>7, <2>2 DEF ArmCommand
    <3>2. /\ LeaveTransfer(rec[r]).commState = "IDLE"
          /\ LeaveTransfer(rec[r]).waveformNumber = rec[r].waveformNumber
      BY <2>1 DEF LeaveTransfer, TypeOK, RecorderRecord
    <3>3. Unpublished(r)
      BY <2>1, <2>2 DEF IInv, UnpublishedUntilServed
    <3>4. QED
      BY <1>7, <2>1, <3>1, <3>2, <3>3, NoTransfer DEF ArmCommand, TypeOK
  <2>3. CASE ~hw[r].armed
    <3> DEFINE rq == LeaveTransfer(NextWaveform(rec[r]))
    <3>1. /\ rec' = [rec EXCEPT ![r] = rq]
          /\ \A s \in Recorder : s # r => hw'[s] = hw[s]
      BY <1>7, <2>1, <2>3 DEF ArmCommand, TypeOK
    <3>2. rq.commState = "IDLE" /\ rq.waveformNumber = rec[r].waveformNumber + 1
      BY <2>1 DEF LeaveTransfer, NextWaveform, TypeOK, RecorderRecord
    <3> HIDE DEF rq
    <3>3. rec[r].waveformNumber \in Nat
      BY <2>1 DEF TypeOK, RecorderRecord
    <3>4. QED
      BY <1>7, <2>1, <3>1, <3>2, <3>3, NoTransfer DEF ArmCommand, TypeOK
  <2>4. QED BY <2>2, <2>3
<1>8. CASE ArmWrite
  <2> DEFINE r == arming
  <2>1. r \in Recorder /\ arming' = NoRecorder /\ NoRecorder \notin Recorder
    BY <1>8, NRecAssumption DEF ArmWrite, TypeOK, NoRecorder, Recorder
  <2>2. rec[r].commState = "IDLE" /\ Unpublished(r)
    BY <2>1 DEF IInv, BufferStable, UnpublishedUntilServed
  <2>3. \A s \in Recorder : s # r => hw'[s] = hw[s]
    BY <1>8, <2>1 DEF ArmWrite, TypeOK
  <2>4. rec' = rec /\ net' = net /\ got' = got
    BY <1>8 DEF ArmWrite
  <2> HIDE DEF r
  <2>5. QED BY <2>1, <2>2, <2>3, <2>4, NoTransfer
<1>9. ASSUME NEW r \in Used, Disarm(r) PROVE IInv'
  <2>1. r \in Recorder /\ arming # r
    BY <1>9, UsedAssumption DEF Disarm, Ready, NoRecorder, Recorder
  <2>2. /\ \A s \in Recorder : s # r => hw'[s] = hw[s]
        /\ ~hw'[r].armed /\ ~hw'[r].full
        /\ hw'[r].acq = hw[r].acq /\ hw'[r].window = hw[r].window
    BY <1>9, <2>1, DisarmedHardware DEF Disarm, TypeOK
  <2>3. QED BY <1>9, <2>1, <2>2, NoTransfer DEF Disarm
<1>10. ASSUME NEW r \in Recorder, Complete(r) PROVE IInv'
  <2>1. hw[r].armed
    BY <1>10 DEF Complete
  <2>2. rec[r].commState = "IDLE" /\ Unpublished(r)
    BY <2>1 DEF IInv, BufferStable, UnpublishedUntilServed
  <2>3. \A s \in Recorder : s # r => hw'[s] = hw[s]
    BY <1>10 DEF Complete, TypeOK
  <2>4. QED BY <1>10, <2>2, <2>3, NoTransfer DEF Complete
<1>11. ASSUME NEW r \in Recorder, TimePasses(r) PROVE IInv'
  BY <1>11, NoTraffic DEF TimePasses, TypeOK, RecorderRecord
<1>12. ASSUME NEW m \in net, IocHeader(m) \/ IocData(m) PROVE IInv'
  BY <1>12, IocStep
<1>13. ASSUME NEW r \in Recorder, Drain(r) PROVE IInv'
  <2>1. PICK lag : hw' = [hw EXCEPT ![r].lag = lag]
    BY <1>13 DEF Drain
  <2>2. \A s \in Recorder :
          /\ hw'[s].armed = hw[s].armed /\ hw'[s].full = hw[s].full
          /\ hw'[s].acq = hw[s].acq /\ hw'[s].window = hw[s].window
    BY <2>1 DEF TypeOK, Hardware
  <2>3. QED BY <1>13, <2>2, NoTransfer DEF Drain
<1>14. CASE UNCHANGED vars
  BY <1>14, NoTraffic DEF vars
<1>15. QED
  BY <1>1, <1>2, <1>3, <1>4, <1>5, <1>6, <1>7, <1>8, <1>9, <1>10, <1>11, <1>12,
     <1>13, <1>14
     DEF Next, Software, Environment, WfrCheckForWork, WaveformRecorderCommand


\* Every step the IOC's collection takes is a step of the archive: a block it
\* receives agrees with those it has.
LEMMA ArchiveStep ==
  ASSUME TypeOK, IInv, [Next]_vars
  PROVE  [Archive!Receive]_Kept
<1>1. CASE got' = got
  BY <1>1 DEF Kept
<1>2. ASSUME NEW m \in net, IocData(m) PROVE [Archive!Receive]_Kept
  <2>1. m \in DataPackets /\ got' = got \cup {m}
    BY <1>2 DEF IocData, DataPackets
  <2>2. got \subseteq DataPackets
    BY DEF IInv, TypeOK, DataPackets, Data
  <2>3. \A q \in DataPackets : q.stored => Block(q) = q
    BY DEF Block, TypeOK, DataPackets, Data, Header, Ack
  <2>4. CASE ~m.stored
    BY <2>1, <2>4 DEF Kept
  <2>5. CASE m.stored
    <3>1. Kept' = Kept \cup {m} /\ m \in Kept'
      BY <2>1, <2>5 DEF Kept
    <3>2. ASSUME NEW q \in Kept PROVE Archive!Agree(m, q)
      <4>1. q \in DataPackets /\ Block(q) = q /\ Block(m) = m
        BY <2>1, <2>2, <2>3, <2>5 DEF Kept
      <4>2. m.rec = q.rec /\ m.wf = q.wf => m.acq = q.acq
        BY <2>1, <4>1 DEF IInv, OneAcquisitionPerNumber
      <4>3. m.rec = q.rec /\ m.wf = q.wf /\ m.block = q.block => m = q
        BY <2>1, <4>1 DEF IInv, OneVersionOfABlock
      <4>4. QED
        BY <4>2, <4>3 DEF Archive!Agree, Archive!SameWaveform
    <3>3. QED BY <3>1, <3>2 DEF Archive!Receive
  <2>6. QED BY <2>4, <2>5
<1>3. QED
  BY <1>1, <1>2
     DEF Next, Software, Environment, WfrCheckForWork, WaveformRecorderCommand,
         AnnounceFull, RetryPacket, Abandon, PassOver, Subscribe, WfrAckPacket,
         WriteAcqCount, WritePretrigCount, ArmCommand, ArmWrite, Disarm, Complete,
         Drain, TimePasses, IocHeader, vars

\* So it is an invariant.
LEMMA Invariance == Spec => []IInv
<1>1. Init => IInv
  BY IInvInit
<1>2. TypeOK /\ IInv /\ [Next]_vars => IInv'
  BY IInvStep
<1>3. QED BY <1>1, <1>2, TypeCorrect, PTL DEF Spec

\* A recorder's buffer is never recorded into while its waveform is read out,
\* for whatever number of recorders and whatever the IOC commands.
THEOREM BufferIsStable == Spec => []BufferStable
BY Invariance, PTL DEF IInv

\* Headers and blocks under one waveform number always belong to one
\* acquisition, even if the acquisition ends between an arm command's test of
\* the armed bit and its write.
THEOREM NumbersNameAcquisitions == Spec => []OneAcquisitionPerNumber
BY Invariance, PTL DEF IInv

\* A recorder goes past a block other than the first only after the IOC has
\* it, however datagrams are lost, duplicated and reordered.
THEOREM StopAndWait == Spec => []AckedBlocksReceived
BY Invariance, PTL DEF IInv

\* The transfer implements the archive: what an IOC receives it may file under
\* recorder, waveform and block number without ever mixing acquisitions, blocks
\* read before they were stored excepted.
THEOREM ImplementsArchive == Spec => ArchiveSpec
<1>1. Init => Archive!Init
  BY DEF Init, Archive!Init, Kept
<1>2. TypeOK /\ IInv /\ [Next]_vars => [Archive!Receive]_Kept
  BY ArchiveStep
<1>3. QED
  BY <1>1, <1>2, TypeCorrect, Invariance, PTL DEF Spec, ArchiveSpec, Archive!Spec
(***************************************************************************)
(* What is sent of a recorder whose counts are left alone                   *)
(***************************************************************************)

\* QuietInv holds at first: nothing has been captured or sent.
LEMMA QuietInit ==
  ASSUME Init
  PROVE  QuietInv
<1>1. \A r \in Recorder : Quiet(r) /\ arming # r /\ rec[r].commState = "IDLE" /\ ~hw[r].full
  BY NRecAssumption DEF Init, InitRecorder, InitHardware, NoRecorder, Recorder, Quiet
<1>2. Headers = {} /\ DataPackets = {}
  BY DEF Init, Headers, DataPackets
<1> QED BY <1>1, <1>2 DEF QuietInv, LeftAlone, CountsAgree, PointerAtEnd, AtItsPlace

\* A recorder that a step leaves as it was stays left alone.
LEMMA SameRecorder ==
  ASSUME NEW r, LeftAlone(r), rec'[r] = rec[r], hw'[r] = hw[r],
         arming' = r => arming = r
  PROVE  LeftAlone(r)'
BY DEF LeftAlone, CountsAgree, PointerAtEnd, AtItsPlace, Quiet, CapturedWindow

\* What a header of a recorder left alone would say: where the window is and
\* how many samples it has.
LEMMA ServedWindow ==
  ASSUME TypeOK, NEW r \in Recorder, LeftAlone(r), hw[r].lag = 0,
         hw[r].full \/ rec[r].commState # "IDLE",
         NEW rp, rp.acqCount = rec[r].acqCount, rp.pretrigCount = rec[r].pretrigCount
  PROVE  /\ StartOffset(r, rp) = hw[r].window.start
         /\ HeaderOf(r, rp).total = hw[r].window.count
         /\ hw[r].window.count \in Nat \ {0}
<1>1. /\ hw[r].acqCount = rec[r].acqCount /\ hw[r].pretrig = rec[r].pretrigCount
      /\ hw[r].window = CapturedWindow(r, hw[r].next)
  BY DEF LeftAlone, CountsAgree, PointerAtEnd, Quiet
<1>2. rec[r].acqCount \in 1 .. Capacity /\ Capacity \in Nat
  BY SizeAssumption DEF TypeOK, RecorderRecord
<1>3. hw[r].window.count = rec[r].acqCount
  BY <1>1 DEF CapturedWindow
<1>4. HeaderOf(r, rp).total = rec[r].acqCount
  BY <1>1, <1>2 DEF HeaderOf, ReadAcqCount, Smaller
<1>5. Address(r) = hw[r].next
  BY DEF Address, TypeOK, Hardware
<1>6. StartOffset(r, rp) = hw[r].window.start
  BY <1>1, <1>5 DEF StartOffset, CapturedWindow
<1> QED BY <1>2, <1>3, <1>4, <1>6

\* Steps that send nothing: only the recorders they change need a look.
LEMMA NothingSent ==
  ASSUME TypeOK, QuietInv, Headers' = Headers, DataPackets' = DataPackets,
         disturbed \subseteq disturbed',
         \A s \in Recorder \ disturbed' :
           \/ LeftAlone(s)' /\ rec'[s].commState = "IDLE"
           \/ /\ LeftAlone(s) => LeftAlone(s)'
              /\ rec'[s].commState = rec[s].commState
              /\ rec'[s].waveformNumber = rec[s].waveformNumber
              /\ hw'[s].window = hw[s].window
  PROVE  QuietInv'
<1>2. \A m \in Headers \cup DataPackets : m.rec \in Recorder
  BY DEF TypeOK, Headers, DataPackets, Header, Data, Ack
<1>3. \A s \in Recorder \ disturbed' : LeftAlone(s)'
  BY DEF QuietInv
<1>4. ASSUME NEW m \in Headers, m.rec \notin disturbed' PROVE AnnouncesTheWindow(m)'
  <2>1. m.rec \in Recorder \ disturbed' /\ AnnouncesTheWindow(m)
    BY <1>2, <1>4 DEF QuietInv
  <2> QED BY <2>1 DEF AnnouncesTheWindow
<1>5. ASSUME NEW m \in DataPackets, m.rec \notin disturbed' PROVE CarriesTheWindow(m)
  BY <1>5 DEF QuietInv
<1> QED BY <1>3, <1>4, <1>5 DEF QuietInv, CarriesTheWindow

\* The next block of a recorder at its place is cut out of the window.
LEMMA BlockOfWindow ==
  ASSUME NEW r, NEW rp, rp.left > 0, rp.left \in Nat,
         rp.startOffset = hw[r].window.start, hw[r].lag = 0,
         rp.left = hw[r].window.count - rp.txBlock * Payload
  PROVE  CarriesTheWindow(DataOf(r, rp))
<1>1. Payload \in Nat \ {0}
  BY SizeAssumption
<1>2. Smaller(rp.left, Payload) > 0
  BY <1>1, SmallerOf
<1> QED BY <1>2 DEF CarriesTheWindow, DataOf

\* A data packet leaves the other recorders alone, carries the window, and
\* keeps its own recorder at its place.
LEMMA QuietSendData ==
  ASSUME TypeOK, QuietInv, NEW r \in Recorder, NEW rp \in RecorderRecord, NEW ok \in BOOLEAN,
         DataPacket(r, rp, ok), Aside, disturbed' = disturbed,
         ~Quiet(r), rec[r].commState # "IDLE",
         rp.waveformNumber = rec[r].waveformNumber,
         rp.acqCount = rec[r].acqCount, rp.pretrigCount = rec[r].pretrigCount,
         rp.startOffset = rec[r].startOffset,
         r \notin disturbed /\ rp.left > 0 =>
            rp.left = hw[r].window.count - rp.txBlock * Payload
  PROVE  QuietInv'
<1> DEFINE d == DataOf(r, rp)
           rq == IF rp.left > 0 /\ ok
                 THEN [rp EXCEPT !.commState = "ACTIVE", !.previous = d.len,
                                 !.aged = FALSE]
                 ELSE [rp EXCEPT !.commState = "IDLE", !.previous = 0]
<1>1. rec' = [rec EXCEPT ![r] = rq]
  BY DEF DataPacket
<1>2. /\ rq.waveformNumber = rp.waveformNumber
      /\ rq.acqCount = rp.acqCount /\ rq.pretrigCount = rp.pretrigCount
      /\ rq.txBlock = rp.txBlock /\ rq.startOffset = rp.startOffset
      /\ rq.left = rp.left
      /\ \/ rq.commState = "ACTIVE" /\ rp.left > 0 /\ ok /\ rq.previous = d.len
         \/ rq.commState = "IDLE" /\ ~(rp.left > 0 /\ ok)
  BY DEF RecorderRecord, CommState
<1>3. /\ rp.left > 0 /\ ok => net' = net \cup {d}
      /\ ~(rp.left > 0 /\ ok) => net' = net
  BY DEF DataPacket
<1>4. d.type = "Data" /\ d.rec = r /\ d.len = Smaller(rp.left, Payload)
  BY DEF DataOf
<1>5. /\ rp.left \in Nat
      /\ \A m \in Headers : m.rec \in Recorder
  BY DEF RecorderRecord, TypeOK, Headers, Header, Data, Ack
<1>6. r \notin disturbed => LeftAlone(r)
  BY DEF QuietInv
<1>7. r \notin disturbed /\ rp.left > 0 => CarriesTheWindow(d)
  BY <1>5, <1>6, BlockOfWindow DEF LeftAlone, AtItsPlace
<1> HIDE DEF rq, d
<1>8. /\ rec'[r] = rq
      /\ \A s \in Recorder : s # r => rec'[s] = rec[s]
      /\ hw' = hw /\ arming' = arming /\ got' = got
  BY <1>1 DEF TypeOK, Aside
<1>9. Headers' = Headers /\ (DataPackets' = DataPackets \/ (rp.left > 0 /\ DataPackets' = DataPackets \cup {d}))
  BY <1>3, <1>4 DEF Headers, DataPackets
<1>10. ASSUME NEW s \in Recorder \ disturbed' PROVE LeftAlone(s)'
  <2>1. s \in Recorder /\ s \notin disturbed /\ LeftAlone(s)
    BY <1>10 DEF QuietInv
  <2>2. CASE s # r
    BY <1>8, <2>1, <2>2, SameRecorder
  <2>3. CASE s = r
    <3>1. CountsAgree(r)'
      BY <1>2, <1>8, <2>1, <2>3 DEF LeftAlone, CountsAgree, Quiet
    <3>2. PointerAtEnd(r)'
      BY <1>2, <1>8, <2>1, <2>3 DEF LeftAlone, PointerAtEnd, CapturedWindow
    <3>3. AtItsPlace(r)'
      BY <1>2, <1>4, <1>8, <2>1, <2>3 DEF LeftAlone, AtItsPlace
    <3> QED BY <2>3, <3>1, <3>2, <3>3 DEF LeftAlone
  <2> QED BY <2>2, <2>3
<1>11. ASSUME NEW m \in Headers, m.rec \notin disturbed PROVE AnnouncesTheWindow(m)'
  <2>1. AnnouncesTheWindow(m) /\ m.rec \in Recorder
    BY <1>5, <1>11 DEF QuietInv
  <2>2. CASE m.rec # r
    BY <1>8, <2>1, <2>2 DEF AnnouncesTheWindow
  <2>3. CASE m.rec = r
    BY <1>2, <1>8, <2>1, <2>3 DEF AnnouncesTheWindow
  <2> QED BY <2>2, <2>3
<1>12. ASSUME NEW m \in DataPackets', m.rec \notin disturbed PROVE CarriesTheWindow(m)
  BY <1>4, <1>7, <1>9, <1>12 DEF QuietInv
<1> QED BY <1>9, <1>10, <1>11, <1>12 DEF QuietInv, CarriesTheWindow

\* A header of a recorder left alone announces the window, first or again.
LEMMA QuietSendHeader ==
  ASSUME TypeOK, IInv, QuietInv,
         NEW r \in Recorder, NEW rp \in RecorderRecord, NEW ok \in BOOLEAN,
         HeaderPacket(r, rp, ok), arming' = arming, arming # r,
         \A s \in Recorder : s # r => hw'[s] = hw[s],
         hw'[r] = hw[r] \/ hw'[r] = CsrWrite(hw[r], FALSE),
         rp.waveformNumber = rec[r].waveformNumber,
         rp.commState = rec[r].commState, rp.txBlock = rec[r].txBlock,
         rp.acqCount = rec[r].acqCount, rp.pretrigCount = rec[r].pretrigCount,
         rp.left = rec[r].left,
         \/ rec[r].commState = "HEADER" /\ hw'[r] = hw[r]
         \/ rec[r].commState = "IDLE" /\ hw[r].full /\ ~hw'[r].full /\ ~hw'[r].armed
  PROVE  QuietInv'
<1> DEFINE h == HeaderOf(r, rp)
           start == StartOffset(r, rp)
           rs == [rp EXCEPT !.startOffset = start, !.previous = 0]
           rq == IF ok THEN [rs EXCEPT !.commState = "HEADER", !.left = h.total,
                                       !.txBlock = 0, !.aged = FALSE]
                 ELSE rs
<1>1. rec' = [rec EXCEPT ![r] = rq]
  BY DEF HeaderPacket
<1>2. /\ ok => net' = net \cup {h}
      /\ ~ok => net' = net
  BY DEF HeaderPacket
<1>3. h.type = "Header" /\ h.rec = r /\ h.wf = rec[r].waveformNumber
  BY DEF HeaderOf
<1>4. /\ rs.waveformNumber = rp.waveformNumber /\ rs.startOffset = start
      /\ rs.acqCount = rp.acqCount /\ rs.pretrigCount = rp.pretrigCount
      /\ rs.commState = rp.commState /\ rs.txBlock = rp.txBlock /\ rs.left = rp.left
      /\ DOMAIN rs = DOMAIN rp
  BY DEF RecorderRecord
<1>5. {"commState", "left", "txBlock", "aged"} \subseteq DOMAIN rp
  BY DEF RecorderRecord
<1> HIDE DEF rs, h, start
<1>6. /\ rq.waveformNumber = rec[r].waveformNumber /\ rq.startOffset = start
      /\ rq.acqCount = rec[r].acqCount /\ rq.pretrigCount = rec[r].pretrigCount
      /\ ok => rq.commState = "HEADER" /\ rq.txBlock = 0 /\ rq.left = h.total
      /\ ~ok => /\ rq.commState = rec[r].commState /\ rq.txBlock = rec[r].txBlock
                /\ rq.left = rec[r].left
  BY <1>4, <1>5
<1> HIDE DEF rq
<1>7. /\ rec'[r] = rq
      /\ \A s \in Recorder : s # r => rec'[s] = rec[s]
  BY <1>1 DEF TypeOK
<1>8. /\ DataPackets' = DataPackets
      /\ ok => Headers' = Headers \cup {h}
      /\ ~ok => Headers' = Headers
  BY <1>2, <1>3 DEF Headers, DataPackets
<1>9. /\ hw'[r].window = hw[r].window /\ hw'[r].next = hw[r].next
      /\ hw'[r].acqCount = hw[r].acqCount /\ hw'[r].pretrig = hw[r].pretrig
      /\ hw'[r].lag = hw[r].lag
      /\ disturbed \subseteq disturbed' /\ (r \in disturbed' \/ hw[r].lag = 0)
  BY DEF CsrWrite, TypeOK, Hardware, HeaderPacket
<1>10. /\ \A m \in Headers : m.rec \in Recorder /\ m.wf \in Nat
       /\ rec[r].waveformNumber \in Nat
  BY DEF TypeOK, Headers, Header, Data, Ack, RecorderRecord
<1>11. r \notin disturbed' =>
         /\ start = hw[r].window.start /\ h.total = hw[r].window.count
         /\ hw[r].window.count \in Nat \ {0}
         /\ LeftAlone(r) /\ hw[r].lag = 0
  BY <1>9, ServedWindow DEF QuietInv, h, start
<1>12. ASSUME NEW s \in Recorder \ disturbed' PROVE LeftAlone(s)'
  <2>1. s \in Recorder /\ s \notin disturbed' /\ LeftAlone(s)
    BY <1>9, <1>12 DEF QuietInv
  <2>2. CASE s # r
    BY <1>7, <2>1, <2>2, SameRecorder
  <2>3. CASE s = r
    <3>1. CountsAgree(r)'
      BY <1>6, <1>7, <1>9, <2>1, <2>3 DEF LeftAlone, CountsAgree, Quiet
    <3>2. PointerAtEnd(r)'
      <4>1. hw[r].window = CapturedWindow(r, hw[r].next)
        BY <2>1, <2>3 DEF LeftAlone, PointerAtEnd
      <4> QED BY <1>9, <4>1 DEF PointerAtEnd, CapturedWindow
    <3>3. AtItsPlace(r)'
      <4>1. CASE ok
        <5>1. 0 * Payload = 0
          BY SizeAssumption
        <5> QED BY <1>6, <1>7, <1>9, <1>11, <2>1, <2>3, <4>1, <5>1 DEF AtItsPlace
      <4>2. CASE ~ok
        BY <1>6, <1>7, <1>9, <1>11, <2>1, <2>3, <4>2 DEF AtItsPlace, LeftAlone
      <4> QED BY <4>1, <4>2
    <3> QED BY <2>3, <3>1, <3>2, <3>3 DEF LeftAlone
  <2> QED BY <2>2, <2>3
<1>13. ASSUME NEW m \in Headers', m.rec \notin disturbed' PROVE AnnouncesTheWindow(m)'
  <2>1. CASE ok /\ m = h
    BY <1>3, <1>9, <1>11, <1>13, <2>1 DEF AnnouncesTheWindow
  <2>2. CASE m \in Headers
    <3>1. AnnouncesTheWindow(m) /\ m.rec \in Recorder /\ m.wf \in Nat
      BY <1>9, <1>10, <1>13, <2>2 DEF QuietInv
    <3>2. CASE m.rec # r
      BY <1>7, <3>1, <3>2 DEF AnnouncesTheWindow
    <3>3. CASE m.rec = r /\ rec[r].commState = "HEADER"
      BY <1>6, <1>7, <1>9, <3>1, <3>3 DEF AnnouncesTheWindow
    <3>4. CASE m.rec = r /\ hw[r].full
      <4>1. m.wf < rec[r].waveformNumber
        BY <2>2, <3>4 DEF IInv, UnpublishedUntilServed, Unpublished, Sent
      <4> QED BY <1>6, <1>7, <1>10, <3>1, <3>4, <4>1 DEF AnnouncesTheWindow
    <3> QED BY <3>2, <3>3, <3>4
  <2> QED BY <1>8, <1>13, <2>1, <2>2
<1>14. ASSUME NEW m \in DataPackets, m.rec \notin disturbed' PROVE CarriesTheWindow(m)
  BY <1>9, <1>14 DEF QuietInv
<1> QED BY <1>8, <1>12, <1>13, <1>14 DEF QuietInv, CarriesTheWindow

\* An acknowledged block leaves what comes after it to send.
LEMMA AcknowledgedPlace ==
  ASSUME TypeOK, NEW r \in Recorder, LeftAlone(r), rec[r].commState # "IDLE",
         NEW rp \in RecorderRecord, rp.commState = rec[r].commState,
         rp.txBlock = rec[r].txBlock, rp.left = rec[r].left,
         rp.previous = rec[r].previous, Acknowledged(rp).left > 0
  PROVE  Acknowledged(rp).left = hw[r].window.count - Acknowledged(rp).txBlock * Payload
<1>1. /\ rp.left = hw[r].window.count - rp.txBlock * Payload /\ rp.left \in Nat
      /\ rp.commState = "ACTIVE" => rp.previous = Smaller(rp.left, Payload)
      /\ rp.txBlock \in Nat /\ hw[r].window.count \in Nat /\ Payload \in Nat \ {0}
  BY SizeAssumption DEF LeftAlone, AtItsPlace, RecorderRecord, TypeOK, Hardware, Window
<1>2. CASE rp.commState = "HEADER"
  BY <1>1, <1>2 DEF Acknowledged
<1>3. CASE rp.commState = "ACTIVE"
  <2>1. /\ Acknowledged(rp).txBlock = rp.txBlock + 1
        /\ Acknowledged(rp).left = IF rp.previous < rp.left THEN rp.left - rp.previous ELSE 0
    BY <1>3 DEF Acknowledged, RecorderRecord
  <2>2. rp.previous = Payload /\ Acknowledged(rp).left = rp.left - Payload
    BY <1>1, <1>3, <2>1 DEF Smaller
  <2>3. (rp.txBlock + 1) * Payload = rp.txBlock * Payload + Payload
    BY <1>1
  <2>4. rp.txBlock * Payload \in Int
    BY <1>1
  <2> QED BY <1>1, <2>1, <2>2, <2>3, <2>4
<1> QED BY <1>2, <1>3 DEF RecorderRecord, CommState

\* Each step keeps it.
LEMMA QuietStep ==
  ASSUME TypeOK, IInv, QuietInv, [Next]_vars
  PROVE  QuietInv'
<1>1. ASSUME NEW ok \in BOOLEAN, AnnounceFull(ok) PROVE QuietInv'
  <2> DEFINE r == NextIndex
             rp == [rec[r] EXCEPT !.retryCount = 0]
  <2>1. r \in Recorder
    BY NextIndexInRange DEF TypeOK
  <2>2. /\ rp \in RecorderRecord
        /\ rp.waveformNumber = rec[r].waveformNumber
        /\ rp.commState = rec[r].commState /\ rp.txBlock = rec[r].txBlock
        /\ rp.acqCount = rec[r].acqCount /\ rp.pretrigCount = rec[r].pretrigCount
        /\ rp.left = rec[r].left
    BY <2>1 DEF TypeOK, RecorderRecord
  <2>3. HeaderPacket(r, rp, ok) /\ arming' = arming /\ arming # r
    BY <1>1, <2>1, NRecAssumption DEF AnnounceFull, Ready, NoRecorder, Recorder
  <2>4. rec[r].commState = "IDLE" /\ hw[r].full
    BY <1>1 DEF AnnounceFull
  <2>5. hw' = [hw EXCEPT ![r] = CsrWrite(@, FALSE)]
    BY <1>1 DEF AnnounceFull
  <2>6. /\ \A s \in Recorder : s # r => hw'[s] = hw[s]
        /\ hw'[r] = CsrWrite(hw[r], FALSE) /\ ~hw'[r].armed /\ ~hw'[r].full
    BY <2>1, <2>5 DEF TypeOK, CsrWrite, Hardware
  <2> HIDE DEF r, rp
  <2> QED BY <2>1, <2>2, <2>3, <2>4, <2>6, QuietSendHeader
<1>2. ASSUME NEW ok \in BOOLEAN, RetryPacket(ok) PROVE QuietInv'
  <2> DEFINE r == NextIndex
             rp == [rec[r] EXCEPT !.retryCount = @ + 1]
  <2>1. r \in Recorder
    BY NextIndexInRange DEF TypeOK
  <2>2. /\ rp \in RecorderRecord
        /\ rp.waveformNumber = rec[r].waveformNumber
        /\ rp.commState = rec[r].commState /\ rp.txBlock = rec[r].txBlock
        /\ rp.acqCount = rec[r].acqCount /\ rp.pretrigCount = rec[r].pretrigCount
        /\ rp.left = rec[r].left /\ rp.startOffset = rec[r].startOffset
    BY <2>1 DEF TypeOK, RecorderRecord
  <2>3. /\ got' = got /\ arming' = arming /\ hw' = hw
        /\ rp.commState # "IDLE"
        /\ rp.commState # "HEADER" => disturbed' = disturbed
        /\ IF rp.commState = "HEADER" THEN HeaderPacket(r, rp, ok)
                                      ELSE DataPacket(r, rp, ok)
    BY <1>2 DEF RetryPacket
  <2>4. arming # r /\ ~Quiet(r)
    BY <2>1, <2>2, <2>3 DEF IInv, BufferStable, Quiet
  <2>5. r \notin disturbed => rp.left = hw[r].window.count - rp.txBlock * Payload
    BY <2>1, <2>2, <2>3 DEF QuietInv, LeftAlone, AtItsPlace
  <2> HIDE DEF r, rp
  <2>6. CASE rp.commState = "HEADER"
    BY <2>1, <2>2, <2>3, <2>4, <2>6, QuietSendHeader
  <2>7. CASE rp.commState # "HEADER"
    BY <2>1, <2>2, <2>3, <2>4, <2>5, <2>7, QuietSendData DEF Aside
  <2> QED BY <2>6, <2>7
<1>3. CASE Abandon
  <2>0. PICK r \in Recorder : r = NextIndex
    BY NextIndexInRange DEF TypeOK
  <2> DEFINE rp == [rec[r] EXCEPT !.retryCount = @ + 1]
             rq == [rp EXCEPT !.commState = "IDLE"]
  <2>1. r \in Recorder
    OBVIOUS
  <2>2. rq.commState = "IDLE"
    BY <2>1 DEF TypeOK, RecorderRecord
  <2>3. /\ rec' = [rec EXCEPT ![r] = rq] /\ rec[r].commState # "IDLE"
        /\ hw' = hw /\ net' = net /\ arming' = arming /\ disturbed' = disturbed
    BY <1>3, <2>0 DEF Abandon, TypeOK, RecorderRecord
  <2>4. ~hw[r].armed /\ ~hw[r].full /\ arming # r
    BY <2>1, <2>3 DEF IInv, BufferStable
  <2> HIDE DEF rq
  <2>5. rec'[r].commState = "IDLE" /\ \A s \in Recorder : s # r => rec'[s] = rec[s]
    BY <2>1, <2>2, <2>3 DEF TypeOK
  <2>6. LeftAlone(r)'
    BY <2>3, <2>4, <2>5 DEF LeftAlone, CountsAgree, PointerAtEnd, AtItsPlace, Quiet
  <2>7. \A s \in Recorder : s # r /\ LeftAlone(s) => LeftAlone(s)'
    BY <2>3, <2>5, SameRecorder
  <2> QED BY <2>3, <2>5, <2>6, <2>7, NothingSent DEF Headers, DataPackets
<1>4. CASE \/ PassOver \/ Subscribe
           \/ \E m \in net : IocHeader(m) \/ IocData(m)
           \/ UNCHANGED vars
  <2>1. /\ rec' = rec /\ hw' = hw /\ arming' = arming /\ disturbed' = disturbed
        /\ Headers' = Headers /\ DataPackets' = DataPackets
    BY <1>4 DEF PassOver, Subscribe, IocHeader, IocData, vars, Headers, DataPackets
  <2>2. \A s \in Recorder : LeftAlone(s) => LeftAlone(s)'
    BY <2>1, SameRecorder
  <2> QED BY <2>1, <2>2, NothingSent
<1>5. ASSUME NEW m \in net, NEW ok \in BOOLEAN, WfrAckPacket(m, ok) PROVE QuietInv'
  <2> DEFINE r == m.rec
             rp == [rec[r] EXCEPT !.retryCount = 0]
             rq == Acknowledged(rp)
  <2>1. r \in Recorder
    BY <1>5 DEF WfrAckPacket, TypeOK, Ack, Data, Header
  <2>2. /\ rp \in RecorderRecord
        /\ rp.waveformNumber = rec[r].waveformNumber
        /\ rp.commState = rec[r].commState /\ rp.txBlock = rec[r].txBlock
        /\ rp.acqCount = rec[r].acqCount /\ rp.pretrigCount = rec[r].pretrigCount
        /\ rp.left = rec[r].left /\ rp.startOffset = rec[r].startOffset
        /\ rp.previous = rec[r].previous
    BY <2>1 DEF TypeOK, RecorderRecord
  <2>3. DataPacket(r, rq, ok) /\ Aside /\ disturbed' = disturbed
    BY <1>5 DEF WfrAckPacket, Aside
  <2>4. rec[r].commState \in {"HEADER", "ACTIVE"}
    BY <1>5 DEF WfrAckPacket, AckFits
  <2> HIDE DEF rp
  <2>5. rq \in RecorderRecord
    BY <2>2, UpdateType DEF KeepsType
  <2>6. /\ rq.waveformNumber = rp.waveformNumber /\ rq.startOffset = rp.startOffset
        /\ rq.acqCount = rp.acqCount /\ rq.pretrigCount = rp.pretrigCount
    BY <2>2 DEF Acknowledged, RecorderRecord
  <2>7. r \notin disturbed /\ rq.left > 0 =>
          rq.left = hw[r].window.count - rq.txBlock * Payload
    BY <2>1, <2>2, <2>4, AcknowledgedPlace DEF QuietInv
  <2>8. ~Quiet(r)
    BY <2>4 DEF Quiet
  <2> HIDE DEF r, rq
  <2> QED BY <2>1, <2>2, <2>3, <2>4, <2>5, <2>6, <2>7, <2>8, QuietSendData
<1>6. ASSUME NEW r \in Used,
             \/ \E val \in AcqValues : WriteAcqCount(r, val)
             \/ \E val \in PretrigValues : WritePretrigCount(r, val)
      PROVE  QuietInv'
  <2>1. r \in Recorder /\ arming # r
    BY <1>6, UsedAssumption, NRecAssumption
       DEF WriteAcqCount, WritePretrigCount, Ready, NoRecorder, Recorder
  <2>2. /\ hw' = hw /\ net' = net /\ arming' = arming /\ Disturb(r)
    BY <1>6 DEF WriteAcqCount, WritePretrigCount
  <2>3. /\ \A s \in Recorder : s # r => rec'[s] = rec[s]
        /\ rec'[r].commState = rec[r].commState
    BY <1>6, <2>1 DEF WriteAcqCount, WritePretrigCount, TypeOK, RecorderRecord
  <2>4. \A s \in Recorder : s # r /\ LeftAlone(s) => LeftAlone(s)'
    BY <2>2, <2>3, SameRecorder
  <2>5. Quiet(r) => LeftAlone(r)' /\ rec'[r].commState = "IDLE"
    BY <2>1, <2>2, <2>3 DEF LeftAlone, CountsAgree, PointerAtEnd, AtItsPlace, Quiet
  <2>6. disturbed \subseteq disturbed' /\ (r \in disturbed' \/ Quiet(r))
    BY <2>2 DEF Disturb
  <2> QED BY <2>2, <2>3, <2>4, <2>5, <2>6, NothingSent DEF Headers, DataPackets
<1>7. ASSUME NEW r \in Used, ArmCommand(r) PROVE QuietInv'
  <2>1. r \in Recorder
    BY UsedAssumption DEF Recorder
  <2>2. /\ arming = NoRecorder /\ arming' = r /\ net' = net /\ disturbed' = disturbed
        /\ \A s \in Recorder : s # r => rec'[s] = rec[s] /\ hw'[s] = hw[s]
    BY <1>7, <2>1 DEF ArmCommand, Ready, TypeOK
  <2>3. /\ rec'[r].commState = "IDLE"
        /\ rec'[r].acqCount = rec[r].acqCount /\ rec'[r].pretrigCount = rec[r].pretrigCount
    <3>1. PICK rp \in {rec[r], NextWaveform(rec[r])} : rec'[r] = LeaveTransfer(rp)
      BY <1>7, <2>1 DEF ArmCommand, TypeOK
    <3>2. /\ rp \in RecorderRecord
          /\ rp.acqCount = rec[r].acqCount /\ rp.pretrigCount = rec[r].pretrigCount
      BY <2>1, <3>1 DEF NextWaveform, TypeOK, RecorderRecord
    <3> QED BY <3>1, <3>2 DEF LeaveTransfer, RecorderRecord
  <2>4. \/ hw[r].armed /\ hw'[r] = hw[r]
        \/ /\ hw'[r].acqCount = rec[r].acqCount /\ hw'[r].pretrig = rec[r].pretrigCount
           /\ hw'[r].full = hw[r].full /\ hw'[r].next = hw[r].next
           /\ hw'[r].window = hw[r].window
    BY <1>7, <2>1 DEF ArmCommand, TypeOK, Hardware
  <2>5. ASSUME LeftAlone(r) PROVE LeftAlone(r)'
    <3>1. CountsAgree(r)'
      BY <2>3, <2>4, <2>5 DEF LeftAlone, CountsAgree, Quiet
    <3>2. ASSUME hw'[r].full
          PROVE  hw[r].window = CapturedWindow(r, hw[r].next)
                 /\ hw'[r].acqCount = hw[r].acqCount /\ hw'[r].pretrig = hw[r].pretrig
                 /\ hw'[r].next = hw[r].next /\ hw'[r].window = hw[r].window
      BY <2>4, <2>5, <3>2 DEF LeftAlone, PointerAtEnd, CountsAgree, Quiet
    <3>3. PointerAtEnd(r)'
      BY <2>3, <3>2 DEF PointerAtEnd, CapturedWindow
    <3> QED BY <2>3, <3>1, <3>3 DEF LeftAlone, AtItsPlace
  <2>6. \A s \in Recorder : s # r /\ LeftAlone(s) => LeftAlone(s)'
    BY <2>2, SameRecorder
  <2>7. \A s \in Recorder \ disturbed' : LeftAlone(s)
    BY <2>2 DEF QuietInv
  <2> QED BY <2>2, <2>3, <2>5, <2>6, <2>7, NothingSent DEF Headers, DataPackets
<1>8. CASE ArmWrite
  <2>0. PICK r \in Recorder : r = arming
    BY <1>8, NRecAssumption DEF ArmWrite, TypeOK
  <2>1. r \in Recorder /\ arming' = NoRecorder /\ NoRecorder \notin Recorder
    BY <1>8, NRecAssumption DEF ArmWrite, TypeOK, NoRecorder, Recorder
  <2>2. /\ rec' = rec /\ net' = net /\ disturbed' = disturbed
        /\ \A s \in Recorder : s # r => hw'[s] = hw[s]
        /\ ~hw'[r].full /\ hw'[r].acqCount = hw[r].acqCount /\ hw'[r].pretrig = hw[r].pretrig
    BY <1>8, <2>0 DEF ArmWrite, TypeOK, CsrWrite, Hardware
  <2>3. rec[r].commState = "IDLE"
    BY <2>0 DEF IInv, BufferStable
  <2>4. LeftAlone(r) => hw[r].acqCount = rec[r].acqCount /\ hw[r].pretrig = rec[r].pretrigCount
    BY <2>0 DEF LeftAlone, CountsAgree
  <2>5. LeftAlone(r) => LeftAlone(r)'
    BY <2>2, <2>3, <2>4 DEF LeftAlone, CountsAgree, PointerAtEnd, AtItsPlace
  <2>6. \A s \in Recorder : s # r /\ LeftAlone(s) => LeftAlone(s)'
    BY <2>1, <2>2, SameRecorder
  <2>7. \A s \in Recorder \ disturbed' : LeftAlone(s)
    BY <2>2 DEF QuietInv
  <2> QED BY <2>2, <2>3, <2>5, <2>6, <2>7, NothingSent DEF Headers, DataPackets
<1>9. ASSUME NEW r \in Used, Disarm(r) PROVE QuietInv'
  <2>1. r \in Recorder /\ arming # r
    BY <1>9, UsedAssumption, NRecAssumption DEF Disarm, Ready, NoRecorder, Recorder
  <2>2. /\ rec' = rec /\ net' = net /\ disturbed' = disturbed /\ arming' = arming
        /\ \A s \in Recorder : s # r => hw'[s] = hw[s]
        /\ ~hw'[r].armed /\ ~hw'[r].full
        /\ hw'[r].acqCount = hw[r].acqCount /\ hw'[r].pretrig = hw[r].pretrig
        /\ hw'[r].next = hw[r].next /\ hw'[r].window = hw[r].window
        /\ hw'[r].lag = hw[r].lag
    BY <1>9, <2>1, DisarmedHardware DEF Disarm, TypeOK
  <2>3. LeftAlone(r) => LeftAlone(r)'
    BY <2>1, <2>2
       DEF LeftAlone, CountsAgree, PointerAtEnd, AtItsPlace, Quiet, CapturedWindow
  <2>4. \A s \in Recorder : s # r /\ LeftAlone(s) => LeftAlone(s)'
    BY <2>2, SameRecorder
  <2> QED BY <2>2, <2>3, <2>4, NothingSent DEF Headers, DataPackets
<1>10. ASSUME NEW r \in Recorder, Complete(r) PROVE QuietInv'
  <2>1. /\ hw[r].armed /\ rec' = rec /\ net' = net /\ disturbed' = disturbed
        /\ arming' = arming
    BY <1>10 DEF Complete
  <2>2. rec[r].commState = "IDLE"
    BY <2>1 DEF IInv, BufferStable
  <2>3. PICK next, lag : hw' = [hw EXCEPT ![r].armed = FALSE, ![r].full = TRUE,
                                          ![r].next = next, ![r].lag = lag,
                                          ![r].acq = @ + 1,
                                          ![r].window = CapturedWindow(r, next)]
    BY <1>10 DEF Complete
  <2>4. /\ \A s \in Recorder : s # r => hw'[s] = hw[s]
        /\ hw'[r].next = next /\ hw'[r].window = CapturedWindow(r, next)
        /\ hw'[r].acqCount = hw[r].acqCount /\ hw'[r].pretrig = hw[r].pretrig
    BY <2>3 DEF TypeOK, Hardware
  <2>5. LeftAlone(r) => LeftAlone(r)'
    <3>1. LeftAlone(r) => CountsAgree(r)'
      BY <2>1, <2>4 DEF LeftAlone, CountsAgree, Quiet
    <3>2. PointerAtEnd(r)'
      BY <2>4 DEF PointerAtEnd, CapturedWindow
    <3> QED BY <2>1, <2>2, <3>1, <3>2 DEF LeftAlone, AtItsPlace
  <2>6. \A s \in Recorder : s # r /\ LeftAlone(s) => LeftAlone(s)'
    BY <2>1, <2>4, SameRecorder
  <2>7. \A s \in Recorder \ disturbed' : LeftAlone(s)
    BY <2>1 DEF QuietInv
  <2>8. \A s \in Recorder \ disturbed' :
          \/ LeftAlone(s)' /\ rec'[s].commState = "IDLE"
          \/ /\ LeftAlone(s) => LeftAlone(s)'
             /\ rec'[s].commState = rec[s].commState
             /\ rec'[s].waveformNumber = rec[s].waveformNumber
             /\ hw'[s].window = hw[s].window
    BY <2>1, <2>2, <2>4, <2>5, <2>6, <2>7
  <2>9. Headers' = Headers /\ DataPackets' = DataPackets /\ disturbed \subseteq disturbed'
    BY <2>1 DEF Headers, DataPackets
  <2> QED BY <2>8, <2>9, NothingSent
<1>11. ASSUME NEW r \in Recorder, TimePasses(r) PROVE QuietInv'
  <2>1. /\ hw' = hw /\ net' = net /\ disturbed' = disturbed /\ arming' = arming
        /\ rec' = [rec EXCEPT ![r].aged = TRUE]
    BY <1>11 DEF TimePasses
  <2>2. \A s \in Recorder :
          /\ rec'[s].commState = rec[s].commState
          /\ rec'[s].waveformNumber = rec[s].waveformNumber
          /\ rec'[s].acqCount = rec[s].acqCount
          /\ rec'[s].pretrigCount = rec[s].pretrigCount
          /\ rec'[s].startOffset = rec[s].startOffset
          /\ rec'[s].left = rec[s].left /\ rec'[s].txBlock = rec[s].txBlock
          /\ rec'[s].previous = rec[s].previous
    BY <2>1 DEF TypeOK, RecorderRecord
  <2>3. \A s \in Recorder : LeftAlone(s) => LeftAlone(s)'
    BY <2>1, <2>2
       DEF LeftAlone, CountsAgree, PointerAtEnd, AtItsPlace, Quiet, CapturedWindow
  <2> QED BY <2>1, <2>2, <2>3, NothingSent DEF Headers, DataPackets
<1>12. ASSUME NEW r \in Recorder, Drain(r) PROVE QuietInv'
  <2>1. PICK lag : hw' = [hw EXCEPT ![r].lag = lag]
    BY <1>12 DEF Drain
  <2>2. /\ hw[r].lag > 0 /\ rec' = rec /\ net' = net /\ disturbed' = disturbed
        /\ arming' = arming
    BY <1>12 DEF Drain
  <2>3. /\ \A s \in Recorder : s # r => hw'[s] = hw[s]
        /\ hw'[r].armed = hw[r].armed /\ hw'[r].full = hw[r].full
        /\ hw'[r].acqCount = hw[r].acqCount /\ hw'[r].pretrig = hw[r].pretrig
        /\ hw'[r].next = hw[r].next /\ hw'[r].window = hw[r].window
    BY <2>1 DEF TypeOK, Hardware
  <2>4. LeftAlone(r) => LeftAlone(r)'
    BY <2>2, <2>3
       DEF LeftAlone, CountsAgree, PointerAtEnd, AtItsPlace, Quiet, CapturedWindow
  <2>5. \A s \in Recorder : s # r /\ LeftAlone(s) => LeftAlone(s)'
    BY <2>2, <2>3, SameRecorder
  <2> QED BY <2>2, <2>3, <2>4, <2>5, NothingSent DEF Headers, DataPackets
<1> QED
  BY <1>1, <1>2, <1>3, <1>4, <1>5, <1>6, <1>7, <1>8, <1>9, <1>10, <1>11, <1>12
     DEF Next, Software, Environment, WfrCheckForWork, WaveformRecorderCommand

\* A block with something left to send is one of the waveform's.
LEMMA BlockInTotal ==
  ASSUME NEW total \in Nat, NEW n \in Nat, total - n * Payload > 0
  PROVE  n < Blocks(total)
<1>1. PICK p \in Nat \ {0} : p = Payload
  BY SizeAssumption
<1>2. PICK q \in Int : q = (total + p - 1) \div p
  BY <1>1
<1>3. total + p - 1 < q * p + p
  BY <1>1, <1>2
<1>4. n * p \in Int /\ q * p \in Int /\ n * p < total
  BY <1>1
<1>5. n * p < q * p
  BY <1>1, <1>3, <1>4
<1>6. n < q
  BY <1>1, <1>5
<1> QED BY <1>1, <1>2, <1>6 DEF Blocks

\* Blocks of a recorder whose counts were not changed under an acquisition hold
\* the samples captured, and its transfers end with the last of them: for
\* every buffer, payload, count and position of the ring's pointer.
THEOREM QuietTransfers == Spec => []TransfersOfQuietCounts
<1>1. ASSUME TypeOK, QuietInv PROVE TransfersOfQuietCounts
  <2>1. ASSUME NEW m \in Headers, m.rec \notin disturbed
        PROVE  Accounts(m, rec[m.rec])
    <3> SUFFICES ASSUME rec[m.rec].commState # "IDLE", rec[m.rec].waveformNumber = m.wf
                 PROVE  /\ rec[m.rec].left = m.total - rec[m.rec].txBlock * Payload
                        /\ rec[m.rec].txBlock < Blocks(m.total)
      BY DEF Accounts
    <3>1. m.rec \in Recorder /\ m.total \in Nat /\ rec[m.rec].txBlock \in Nat
      BY <1>1, <2>1 DEF TypeOK, Headers, Header, Data, Ack, RecorderRecord
    <3>2. m.total = hw[m.rec].window.count /\ LeftAlone(m.rec)
      BY <1>1, <2>1, <3>1 DEF QuietInv, AnnouncesTheWindow
    <3>3. /\ rec[m.rec].left = m.total - rec[m.rec].txBlock * Payload
          /\ rec[m.rec].left > 0
      BY <3>2 DEF LeftAlone, AtItsPlace
    <3> QED BY <3>1, <3>3, BlockInTotal
  <2> QED BY <1>1, <2>1 DEF QuietInv, TransfersOfQuietCounts
<1>2. Init => QuietInv
  BY QuietInit
<1>3. TypeOK /\ IInv /\ QuietInv /\ [Next]_vars => QuietInv'
  BY QuietStep
<1> QED BY <1>1, <1>2, <1>3, TypeCorrect, Invariance, PTL DEF Spec
=============================================================================
