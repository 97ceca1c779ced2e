--------------------------- MODULE RecorderProofs ---------------------------
(***************************************************************************)
(* The waveform recorder hardware, for every ring, burst length, FIFO depth *)
(* and count, every timing of samples, triggers and AXI and everything       *)
(* software does: a transfer stays within the ring and reads no empty FIFO, *)
(* and a complete acquisition is the window asked for.                      *)
(***************************************************************************)
EXTENDS GenericRecorder, TLAPS

\* One clock.
Tick(op, arrives, ready, answer) ==
  /\ Allowed(op, arrives, ready, answer)
  /\ Registers(op, arrives, answer)
  /\ Trigger(op, arrives, answer)
  /\ Fifo(arrives, ready)
  /\ \/ Wait(op) \/ Addr(op, ready) \/ Data(op, ready)
     \/ Ack(op, answer) \/ Pause(op)
  /\ History(op, arrives, answer)

Op == {"none", "counts", "arm", "disarm"}
Answers == {"none", "okay", "error"}

(***************************************************************************)
(* The ring                                                                *)
(***************************************************************************)
\* The FIFO holds what the transfer under way still has to read, and the transfer
\* is no longer than the longest.
TransferFed ==
  /\ state = "ADDR" => beatCount < Len(fifo)
  /\ state = "DATA" => beatCount <= Len(fifo) /\ burst.done + beatCount < Multi

RingInv == TransferInRing /\ TransferFed


\* The constants.
LEMMA RecorderFacts ==
  /\ Multi \in Nat /\ Multi > 0 /\ Capacity \in Nat /\ Capacity >= Multi
  /\ PauseTime \in Nat /\ FifoDepth \in Nat /\ FifoDepth > 0
  /\ Pretrig \subseteq 0 .. Capacity /\ AcqCount \subseteq 1 .. Capacity
  /\ MaxSample \in Nat /\ MaxArm \in Nat
BY RecorderAssumption

\* A sum of two addresses that passes the end of the ring once goes round it once.
LEMMA Around ==
  ASSUME NEW n \in Nat, NEW x \in Int, n > 0, 0 <= x, x < n + n
  PROVE  x % n = IF x < n THEN x ELSE x - n
<1>1. CASE x < n
    BY <1>1
<1>2. CASE x >= n
  <2>1. x = n * (x \div n) + (x % n) /\ x % n \in 0 .. n - 1 /\ x \div n \in Int
      OBVIOUS
  <2> DEFINE q == x \div n
             y == x % n
  <2> HIDE DEF q, y
  <2>2. x = n * q + y /\ y \in 0 .. n - 1 /\ q \in Int
      BY <2>1 DEF q, y
  <2>3. q = 1
    <3>1. CASE q <= 0
      <4>1. n * q <= 0
          BY <2>2, <3>1
      <4> QED BY <1>2, <2>2, <4>1
    <3>2. CASE q >= 2
      <4>1. n * q >= n + n
          BY <2>2, <3>2
      <4> QED BY <2>2, <4>1
    <3> QED BY <2>2, <3>1, <3>2
  <2>4. y = x - n
      BY <2>2, <2>3
  <2> QED BY <1>2, <2>4 DEF y
<1> QED BY <1>1, <1>2

\* What the counts are.
LEMMA CountTypes ==
  ASSUME NEW c \in Counts PROVE c.pre \in 0 .. Capacity /\ c.acq \in 0 .. Capacity
<1>1. c.pre \in Pretrig \cup {0} /\ c.acq \in AcqCount \cup {0}
    BY DEF Counts
<1>2. (\A p \in Pretrig : p \in 0 .. Capacity) /\ (\A a \in AcqCount : a \in 0 .. Capacity)
    BY RecorderFacts
<1>3. 0 \in 0 .. Capacity
    BY RecorderFacts
<1> QED BY <1>1, <1>2, <1>3

\* Taking from the FIFO and adding to it.
LEMMA FifoStep ==
  ASSUME TypeOK, NEW arrives \in BOOLEAN, NEW ready \in BOOLEAN, Fifo(arrives, ready),
         arrives => sample < MaxSample,
         FifoRead(ready) => fifo # <<>>
  PROVE  LET d == IF FifoRead(ready) THEN 1 ELSE 0
             w == IF FifoWrite(arrives) /\ Len(fifo) < FifoDepth THEN 1 ELSE 0
         IN /\ fifo' \in Seq(Sample) /\ Len(fifo') = Len(fifo) - d + w
            /\ Len(fifo') <= FifoDepth /\ fifoOut' \in Sample
            /\ \A i \in 1 .. Len(fifo) - d : fifo'[i] = fifo[i + d]
            /\ w = 1 => fifo'[Len(fifo')] = sample + 1
            /\ d = 1 => fifoOut' = fifo[1]
            /\ d = 0 => fifoOut' = fifoOut
<1> DEFINE rest == IF FifoRead(ready) THEN Tail(fifo) ELSE fifo
           d == IF FifoRead(ready) THEN 1 ELSE 0
           w == IF FifoWrite(arrives) /\ Len(fifo) < FifoDepth THEN 1 ELSE 0
<1>1. /\ fifo \in Seq(Sample) /\ Len(fifo) \in Nat /\ Len(fifo) <= FifoDepth
      /\ fifoOut \in Sample /\ sample \in Sample
    BY DEF TypeOK
<1>2. /\ rest \in Seq(Sample) /\ Len(rest) = Len(fifo) - d
      /\ \A i \in 1 .. Len(fifo) - d : rest[i] = fifo[i + d]
    BY <1>1
<1>3. /\ fifoOut' \in Sample
      /\ d = 1 => fifoOut' = fifo[1]
      /\ d = 0 => fifoOut' = fifoOut
    BY <1>1 DEF Fifo
<1>4. fifo' = IF w = 1 THEN Append(rest, sample + 1) ELSE rest
    BY DEF Fifo
<1>5. w = 1 => sample + 1 \in Sample
    BY <1>1, RecorderFacts DEF Sample, FifoWrite
<1>6. d \in {0, 1} /\ w \in {0, 1} /\ (w = 1 => Len(fifo) < FifoDepth) /\ d <= Len(fifo)
    BY <1>1
<1> HIDE DEF rest
<1>7. /\ fifo' \in Seq(Sample) /\ Len(fifo') = Len(fifo) - d + w
      /\ \A i \in 1 .. Len(fifo) - d : fifo'[i] = fifo[i + d]
      /\ w = 1 => fifo'[Len(fifo')] = sample + 1
  <2> HIDE DEF d, w
  <2>1. CASE w = 1
      BY <1>1, <1>2, <1>4, <1>5, <1>6, <2>1
  <2>2. CASE w = 0
      BY <1>1, <1>2, <1>4, <1>6, <2>2
  <2> QED BY <1>6, <2>1, <2>2
<1>8. Len(fifo') <= FifoDepth
    BY <1>1, <1>6, <1>7, RecorderFacts
<1> QED BY <1>3, <1>7, <1>8

\* The registers of the Microblaze interface.
LEMMA RegisterTypes ==
  ASSUME TypeOK, NEW op \in Op, NEW arrives \in BOOLEAN, NEW answer \in Answers,
         Registers(op, arrives, answer)
  PROVE  /\ counts' \in Counts
         /\ csrArmed' \in BOOLEAN /\ full' \in BOOLEAN /\ enables' \in BOOLEAN
<1>1. counts' \in Counts
  <2>1. CASE op = "counts"
    <3>1. PICK p \in Pretrig, a \in AcqCount : counts' = [pre |-> p, acq |-> a]
        BY <2>1 DEF Registers
    <3> QED BY <3>1 DEF Counts
  <2>2. CASE op # "counts"
      BY <2>2 DEF Registers, TypeOK
  <2> QED BY <2>1, <2>2
<1>2. csrArmed' \in BOOLEAN /\ full' \in BOOLEAN
    BY DEF Registers, TypeOK
<1>3. enables' \in BOOLEAN
    BY DEF Registers, TypeOK
<1> QED BY <1>1, <1>2, <1>3

\* The registers of the trigger.
LEMMA TriggerTypes ==
  ASSUME TypeOK, NEW op \in Op, NEW arrives \in BOOLEAN, NEW answer \in Answers,
         Trigger(op, arrives, answer), arrives => sample < MaxSample
  PROVE  /\ triggerReg' \in BOOLEAN /\ triggerReg_d' \in BOOLEAN
         /\ triggerFlag' \in BOOLEAN /\ triggered' \in BOOLEAN
         /\ whenTriggered' \in Sample
         /\ pretrigLeft' \in 0 .. Capacity /\ acqLeft' \in 0 .. Capacity
<1>1. triggerReg' \in BOOLEAN /\ triggerReg_d' \in BOOLEAN
    BY DEF Trigger, TypeOK
<1>2. triggerFlag' \in BOOLEAN /\ triggered' \in BOOLEAN
    BY DEF Trigger
<1>3. whenTriggered' \in Sample
    BY RecorderFacts DEF Trigger, TypeOK, Sample, Stamps
<1>4. counts.pre \in 0 .. Capacity /\ counts.acq \in 0 .. Capacity
    BY CountTypes DEF TypeOK
<1>5. pretrigLeft' \in 0 .. Capacity
    BY <1>4, RecorderFacts DEF Trigger, TypeOK
<1>6. acqLeft' \in 0 .. Capacity
    BY <1>4, RecorderFacts DEF Trigger, TypeOK, CountsDown
<1> QED BY <1>1, <1>2, <1>3, <1>5, <1>6

\* The bookkeeping of the samples and acquisitions.
LEMMA HistoryTypes ==
  ASSUME TypeOK, NEW op \in Op, NEW arrives \in BOOLEAN, NEW answer \in Answers,
         History(op, arrives, answer),
         arrives => sample < MaxSample, op = "arm" => arms < MaxArm
  PROVE  /\ sample' \in Sample /\ arms' \in 0 .. MaxArm
         /\ asked' \in Counts /\ complete' \in BOOLEAN /\ failed' \in BOOLEAN
<1>1. sample' \in Sample /\ arms' \in 0 .. MaxArm
    BY RecorderFacts DEF History, TypeOK, Sample
<1>2. asked' \in Counts
    BY DEF History, TypeOK
<1>3. complete' \in BOOLEAN /\ failed' \in BOOLEAN
    BY DEF History, TypeOK
<1> QED BY <1>1, <1>2, <1>3
\* The AXI master: its registers keep their types and its transfer stays in the ring.
LEMMA AxiStep ==
  ASSUME RingInv, NEW op \in Op, NEW ready \in BOOLEAN, NEW answer \in Answers,
         \/ Wait(op) \/ Addr(op, ready) \/ Data(op, ready)
         \/ Ack(op, answer) \/ Pause(op),
         NEW m \in Nat,
         state = "WAIT" => m >= Len(fifo),
         state = "ADDR" => m >= Len(fifo) - (IF ready THEN 1 ELSE 0),
         state = "DATA" => m >= Len(fifo) - (IF ready /\ beatCount > 0 THEN 1 ELSE 0)
  PROVE  /\ state' \in {"WAIT", "ADDR", "DATA", "ACK", "PAUSE"}
         /\ writeAddr' \in 0 .. Capacity - 1
         /\ beatCount' \in 0 .. Multi - 1 /\ pauseCount' \in 0 .. PauseTime
         /\ memory' \in [0 .. Capacity - 1 -> Sample]
         /\ burst' \in [addr : 0 .. Capacity - 1, done : 0 .. Multi]
         /\ state' = "ADDR" => writeAddr' + beatCount' < Capacity /\ beatCount' < m
         /\ state' = "DATA" => /\ burst'.addr + burst'.done + beatCount' < Capacity
                               /\ beatCount' <= m /\ burst'.done + beatCount' < Multi
<1>1. /\ state \in {"WAIT", "ADDR", "DATA", "ACK", "PAUSE"}
      /\ writeAddr \in 0 .. Capacity - 1
      /\ beatCount \in 0 .. Multi - 1 /\ pauseCount \in 0 .. PauseTime
      /\ memory \in [0 .. Capacity - 1 -> Sample]
      /\ burst \in [addr : 0 .. Capacity - 1, done : 0 .. Multi]
      /\ fifoOut \in Sample /\ Len(fifo) \in Nat
    BY DEF RingInv, TransferInRing, TypeOK
<1>2. /\ burst.addr \in 0 .. Capacity - 1 /\ burst.done \in 0 .. Multi
      /\ burst = [addr |-> burst.addr, done |-> burst.done]
    BY <1>1
<1>3. NextAddress(op) \in 0 .. Capacity - 1 /\ NextAddress(op) \in {0, writeAddr}
    BY <1>1, RecorderFacts DEF NextAddress
<1>4. CASE Wait(op)
  <2>1. /\ state = "WAIT" /\ writeAddr' = NextAddress(op)
        /\ UNCHANGED <<pauseCount, memory, burst>>
      BY <1>4 DEF Wait
  <2>2. CASE Len(fifo) >= Multi /\ FitsRing /\ beatCount' = Multi - 1 /\ state' = "ADDR"
      BY <1>1, <1>3, <2>1, <2>2, RecorderFacts DEF FitsRing
  <2>3. fifo \in Seq(Sample)
      BY DEF RingInv, TransferInRing, TypeOK
  <2>4. CASE fifo # <<>> /\ beatCount' = 0 /\ state' = "ADDR"
    <3>1. Len(fifo) > 0
        BY <2>3, <2>4
    <3> QED BY <1>1, <1>3, <2>1, <2>4, <3>1, RecorderFacts
  <2>5. CASE UNCHANGED <<beatCount, state>>
      BY <1>1, <1>3, <2>1, <2>5
  <2> QED BY <1>4, <2>2, <2>4, <2>5 DEF Wait
<1>5. CASE Addr(op, ready)
  <2>1. /\ state = "ADDR" /\ writeAddr' = NextAddress(op)
        /\ UNCHANGED <<beatCount, pauseCount, memory>>
      BY <1>5 DEF Addr
  <2>2. writeAddr + beatCount < Capacity /\ beatCount < Len(fifo)
      BY <2>1 DEF RingInv, TransferInRing, TransferFed
  <2>3. CASE ready
    <3>1. state' = "DATA" /\ burst' = [addr |-> writeAddr, done |-> 0]
        BY <1>5, <2>3 DEF Addr
    <3>2. burst'.addr = writeAddr /\ burst'.done = 0
          /\ burst' \in [addr : 0 .. Capacity - 1, done : 0 .. Multi]
        BY <1>1, <3>1, RecorderFacts
    <3> QED BY <1>1, <1>3, <2>1, <2>2, <2>3, <3>1, <3>2, RecorderFacts
  <2>4. CASE ~ready
    <3>1. UNCHANGED <<state, burst>>
        BY <1>5, <2>4 DEF Addr
    <3> QED BY <1>1, <1>3, <2>1, <2>2, <2>4, <3>1, RecorderFacts
  <2> QED BY <2>3, <2>4
<1>6. CASE Data(op, ready)
  <2>1. state = "DATA" /\ UNCHANGED pauseCount
      BY <1>6 DEF Data
  <2>2. /\ burst.addr + burst.done + beatCount < Capacity
        /\ beatCount <= Len(fifo) /\ burst.done + beatCount < Multi
      BY <2>1 DEF RingInv, TransferInRing, TransferFed
  <2>3. CASE ready
    <3>1. /\ writeAddr' = (writeAddr + 1) % Capacity
          /\ memory' = [memory EXCEPT ![burst.addr + burst.done] = fifoOut]
          /\ burst' = [burst EXCEPT !.done = @ + 1]
        BY <1>6, <2>3 DEF Data
    <3>2. writeAddr' \in 0 .. Capacity - 1
        BY <1>1, <3>1, Around, RecorderFacts
    <3>3. memory' \in [0 .. Capacity - 1 -> Sample]
        BY <1>1, <3>1
    <3>4. burst.done + 1 \in 0 .. Multi
        BY <1>1, <1>2, <2>2, RecorderFacts
    <3>5. burst'.addr = burst.addr /\ burst'.done = burst.done + 1
          /\ burst' \in [addr : 0 .. Capacity - 1, done : 0 .. Multi]
        BY <1>1, <1>2, <3>1, <3>4
    <3>6. CASE beatCount > 0
      <4>1. beatCount' = beatCount - 1 /\ state' = state
          BY <1>6, <2>3, <3>6 DEF Data
      <4> QED BY <1>1, <1>2, <2>1, <2>2, <2>3, <3>2, <3>3, <3>5, <3>6, <4>1, RecorderFacts
    <3>7. CASE ~(beatCount > 0)
      <4>1. state' = "ACK" /\ beatCount' = beatCount
          BY <1>6, <2>3, <3>7 DEF Data
      <4> QED BY <1>1, <2>1, <3>2, <3>3, <3>5, <4>1
    <3> QED BY <3>6, <3>7
  <2>4. CASE ~ready
    <3>1. writeAddr' = NextAddress(op) /\ UNCHANGED <<memory, burst, beatCount, state>>
        BY <1>6, <2>4 DEF Data
    <3> QED BY <1>1, <1>3, <2>1, <2>2, <2>4, <3>1
  <2> QED BY <2>3, <2>4
<1>7. CASE Ack(op, answer)
  <2>1. /\ state = "ACK" /\ writeAddr' = NextAddress(op) /\ state' \in {"ACK", "PAUSE"}
        /\ UNCHANGED <<beatCount, memory, burst>> /\ pauseCount' \in {pauseCount, PauseTime}
      BY <1>7 DEF Ack
  <2> QED BY <1>1, <1>3, <2>1, RecorderFacts
<1>8. CASE Pause(op)
  <2>1. /\ state = "PAUSE" /\ writeAddr' = NextAddress(op) /\ state' \in {"WAIT", "PAUSE"}
        /\ UNCHANGED <<beatCount, memory, burst>>
        /\ pauseCount' = pauseCount \/ (pauseCount > 0 /\ pauseCount' = pauseCount - 1)
      BY <1>8 DEF Pause
  <2> QED BY <1>1, <1>3, <2>1, RecorderFacts
<1> QED BY <1>4, <1>5, <1>6, <1>7, <1>8

\* What the FIFO is asked for is there, and what is left feeds the transfer.
LEMMA FifoFed ==
  ASSUME RingInv, NEW ready \in BOOLEAN
  PROVE  /\ FifoRead(ready) => fifo # <<>>
         /\ Len(fifo) \in Nat
         /\ state = "ADDR" => (FifoRead(ready) <=> ready)
         /\ state = "DATA" => (FifoRead(ready) <=> ready /\ beatCount > 0)
         /\ state \notin {"ADDR", "DATA"} => ~FifoRead(ready)
<1>1. fifo \in Seq(Sample) /\ Len(fifo) \in Nat /\ beatCount \in Nat
    BY RecorderFacts DEF RingInv, TransferInRing, TypeOK
<1>2. /\ state = "ADDR" => beatCount < Len(fifo)
      /\ state = "DATA" => beatCount <= Len(fifo)
    BY DEF RingInv, TransferFed
<1>3. FifoRead(ready) => Len(fifo) > 0
    BY <1>1, <1>2 DEF FifoRead
<1> QED BY <1>1, <1>3 DEF FifoRead

\* A clock keeps the types and the transfer in the ring.
LEMMA RingStep ==
  ASSUME RingInv, NEW op \in Op, NEW arrives \in BOOLEAN, NEW ready \in BOOLEAN,
         NEW answer \in Answers, Tick(op, arrives, ready, answer)
  PROVE  RingInv'
<1>1. /\ arrives => sample < MaxSample
      /\ op = "arm" => arms < MaxArm
    BY DEF Tick, Allowed
<1>2. TypeOK
    BY DEF RingInv, TransferInRing
<1>3. /\ counts' \in Counts
      /\ csrArmed' \in BOOLEAN /\ full' \in BOOLEAN /\ enables' \in BOOLEAN
    BY <1>2, RegisterTypes DEF Tick
<1>4. /\ triggerReg' \in BOOLEAN /\ triggerReg_d' \in BOOLEAN
      /\ triggerFlag' \in BOOLEAN /\ triggered' \in BOOLEAN
      /\ whenTriggered' \in Sample
      /\ pretrigLeft' \in 0 .. Capacity /\ acqLeft' \in 0 .. Capacity
    BY <1>1, <1>2, TriggerTypes DEF Tick
<1>5. /\ sample' \in Sample /\ arms' \in 0 .. MaxArm
      /\ asked' \in Counts /\ complete' \in BOOLEAN /\ failed' \in BOOLEAN
    BY <1>1, <1>2, HistoryTypes DEF Tick
<1> DEFINE d == IF FifoRead(ready) THEN 1 ELSE 0
           m == Len(fifo')
<1>6. fifo' \in Seq(Sample) /\ m <= FifoDepth /\ fifoOut' \in Sample /\ m \in Nat
      /\ m >= Len(fifo) - d
  <2>1. Fifo(arrives, ready)
      BY DEF Tick
  <2> DEFINE w == IF FifoWrite(arrives) /\ Len(fifo) < FifoDepth THEN 1 ELSE 0
  <2>2. fifo' \in Seq(Sample) /\ Len(fifo') = Len(fifo) - d + w
        /\ Len(fifo') <= FifoDepth /\ fifoOut' \in Sample
      BY <1>1, <1>2, <2>1, FifoStep, FifoFed
  <2>3. Len(fifo) \in Nat /\ d \in Int /\ w \in {0, 1}
      BY FifoFed
  <2> HIDE DEF d, w
  <2> QED BY <2>2, <2>3
<1>7. overrun' \in BOOLEAN
    BY DEF Tick, Fifo
<1> HIDE DEF m
<1>8. /\ state = "WAIT" => m >= Len(fifo)
      /\ state = "ADDR" => m >= Len(fifo) - (IF ready THEN 1 ELSE 0)
      /\ state = "DATA" => m >= Len(fifo) - (IF ready /\ beatCount > 0 THEN 1 ELSE 0)
    BY <1>6, FifoFed
<1>9. /\ state' \in {"WAIT", "ADDR", "DATA", "ACK", "PAUSE"}
      /\ writeAddr' \in 0 .. Capacity - 1
      /\ beatCount' \in 0 .. Multi - 1 /\ pauseCount' \in 0 .. PauseTime
      /\ memory' \in [0 .. Capacity - 1 -> Sample]
      /\ burst' \in [addr : 0 .. Capacity - 1, done : 0 .. Multi]
      /\ state' = "ADDR" => writeAddr' + beatCount' < Capacity /\ beatCount' < m
      /\ state' = "DATA" => /\ burst'.addr + burst'.done + beatCount' < Capacity
                            /\ beatCount' <= m /\ burst'.done + beatCount' < Multi
    BY <1>6, <1>8, AxiStep DEF Tick
<1>10. TypeOK'
    BY <1>3, <1>4, <1>5, <1>6, <1>7, <1>9 DEF TypeOK, m
<1>11. TransferInRing' /\ TransferFed'
    BY <1>9, <1>10 DEF TransferInRing, TransferFed, m
<1> QED BY <1>11 DEF RingInv

\* At first.
LEMMA RingInit == Init => RingInv
<1> SUFFICES ASSUME Init PROVE RingInv
    OBVIOUS
<1>1. counts \in Counts /\ asked \in Counts
    BY DEF Init, Counts
<1>2. /\ csrArmed \in BOOLEAN /\ full \in BOOLEAN /\ enables \in BOOLEAN
      /\ triggerReg \in BOOLEAN /\ triggerReg_d \in BOOLEAN
      /\ triggerFlag \in BOOLEAN /\ triggered \in BOOLEAN
      /\ overrun \in BOOLEAN /\ complete \in BOOLEAN /\ failed \in BOOLEAN
    BY DEF Init
<1>3. /\ pretrigLeft \in 0 .. Capacity /\ acqLeft \in 0 .. Capacity
      /\ whenTriggered \in Sample /\ fifoOut \in Sample
      /\ sample \in Sample /\ arms \in 0 .. MaxArm
    BY RecorderFacts DEF Init, Sample
<1>4. fifo \in Seq(Sample) /\ Len(fifo) <= FifoDepth
    BY RecorderFacts DEF Init
<1>5. /\ state = "WAIT"
      /\ writeAddr \in 0 .. Capacity - 1
      /\ beatCount \in 0 .. Multi - 1 /\ pauseCount \in 0 .. PauseTime
      /\ memory \in [0 .. Capacity - 1 -> Sample]
      /\ burst \in [addr : 0 .. Capacity - 1, done : 0 .. Multi]
    BY RecorderFacts DEF Init, Sample
<1>6. TypeOK
    BY <1>1, <1>2, <1>3, <1>4, <1>5 DEF TypeOK
<1> QED BY <1>5, <1>6 DEF RingInv, TransferInRing, TransferFed

\* Every step is a clock or nothing.
LEMMA ClockIsTick ==
  ASSUME Clock
  PROVE  \E op \in Op, arrives \in BOOLEAN, ready \in BOOLEAN, answer \in Answers :
           Tick(op, arrives, ready, answer)
BY DEF Clock, Tick, Op, Answers

\* A step that changes nothing.
LEMMA RingStutter == ASSUME RingInv, UNCHANGED vars PROVE RingInv'
<1>1. TypeOK'
    BY DEF RingInv, TransferInRing, TypeOK, vars, registers, acquisition, axi, history
<1> QED BY <1>1 DEF RingInv, TransferInRing, TransferFed, vars, acquisition, axi

\* The AXI master writes within the recorder's memory and the counters keep their
\* ranges, whatever software, samples, triggers and AXI do.
THEOREM TransfersInRing == Spec => []TransferInRing
<1>1. RingInv /\ [Clock]_vars => RingInv'
    BY ClockIsTick, RingStep, RingStutter
<1>2. RingInv => TransferInRing
    BY DEF RingInv
<1> QED BY <1>1, <1>2, RingInit, PTL DEF Spec
(***************************************************************************)
(* The samples                                                             *)
(***************************************************************************)

\* How many samples of the acquisition have been counted, how many of them before
\* the trigger once it has come, and which sample is the last recorded.
Counted == asked.acq - acqLeft
Early == IF asked.pre < asked.acq THEN asked.pre ELSE asked.acq
Last == IF complete \/ (csrArmed /\ triggered)
        THEN whenTriggered - Early + asked.acq - 1 - acqLeft
        ELSE sample

\* The last samples recorded, last first: in the FIFO, at its output, and in the
\* ring back from the write address.
Back(j) == IF j < writeAddr THEN writeAddr - 1 - j ELSE writeAddr + Capacity - 1 - j
InHand == IF state = "DATA" THEN Len(fifo) + 1 ELSE Len(fifo)
Item(j) ==
  IF j < Len(fifo) THEN fifo[Len(fifo) - j]
  ELSE IF j < InHand THEN fifoOut
  ELSE memory[Back(j - InHand)]

\* What the counters and flags say of an acquisition.
Counting ==
  /\ complete => acqLeft = 0 /\ ~csrArmed
  /\ acqLeft <= asked.acq
  /\ csrArmed =>
       /\ triggered => triggerFlag
       /\ triggerFlag => pretrigLeft = 0
       /\ pretrigLeft <= asked.pre
       /\ ~triggered => Counted = IF asked.pre - pretrigLeft < asked.acq
                                  THEN asked.pre - pretrigLeft ELSE asked.acq
       /\ triggered /\ acqLeft > 0 => Last = sample

\* The samples counted are the last ones recorded, and a transfer whose words do
\* not go where the write address says has none of them.
Placed ==
  /\ \A j \in 0 .. Counted - 1 : Item(j) = Last - j
  /\ state = "DATA" => \/ burst.addr + burst.done = writeAddr
                       \/ Counted <= Len(fifo) - beatCount

WindowInv == RingInv /\ ((csrArmed \/ complete) /\ ~Lost => Counting /\ Placed)

\* What a clock that does not fail says of the signals: no transfer is aborted,
\* and what is written to the FIFO fits.
LEMMA NoFailure ==
  ASSUME NEW op, NEW arrives \in BOOLEAN, NEW ready \in BOOLEAN, NEW answer,
         Tick(op, arrives, ready, answer), ~Lost'
  PROVE  ~Lost /\ ~Aborts(op, answer) /\ (FifoWrite(arrives) => Len(fifo) < FifoDepth)
BY DEF Tick, History, Fifo, Lost, Aborts

\* The counters and the sample, as numbers.
LEMMA Numbers ==
  ASSUME TypeOK
  PROVE  /\ acqLeft \in Nat /\ pretrigLeft \in Nat /\ whenTriggered \in Int /\ sample \in Int
         /\ asked.pre \in Nat /\ asked.acq \in Nat /\ asked.acq <= Capacity
         /\ counts.pre \in Nat /\ counts.acq \in Nat
<1>1. /\ asked.pre \in 0 .. Capacity /\ asked.acq \in 0 .. Capacity
      /\ counts.pre \in 0 .. Capacity /\ counts.acq \in 0 .. Capacity
    BY CountTypes DEF TypeOK
<1>2. acqLeft \in 0 .. Capacity /\ pretrigLeft \in 0 .. Capacity
      /\ whenTriggered \in 0 .. MaxSample /\ sample \in 0 .. MaxSample
    BY DEF TypeOK, Sample
<1> QED BY <1>1, <1>2, RecorderFacts

\* Once complete, nothing is recorded or counted until the recorder is armed.
LEMMA CompleteCounting ==
  ASSUME TypeOK, Counting, complete,
         NEW op \in Op, NEW arrives \in BOOLEAN, NEW ready \in BOOLEAN, NEW answer \in Answers,
         Tick(op, arrives, ready, answer), ~Arms(op), ~Lost'
  PROVE  Counting' /\ ~FifoWrite(arrives) /\ Last' = Last /\ Counted' = Counted
<1>1. ~csrArmed /\ acqLeft = 0
    BY DEF Counting
<1>2. ~FifoWrite(arrives) /\ ~Ends(op, arrives) /\ ~Aborts(op, answer)
    BY <1>1, NoFailure DEF FifoWrite, Ends
<1>3. ~csrArmed'
  <2>1. op # "arm"
      BY <1>1 DEF Arms
  <2>2. CASE CsrStrobe(op)
      BY <1>2, <2>1, <2>2 DEF Tick, Registers
  <2>3. CASE ~CsrStrobe(op)
      BY <1>1, <1>2, <2>3 DEF Tick, Registers
  <2> QED BY <2>2, <2>3
<1>4. acqLeft' = acqLeft /\ whenTriggered' = whenTriggered
    BY <1>1, <1>2 DEF Tick, Trigger, CountsDown, Stamps
<1>5. asked' = asked /\ complete' = complete
    BY <1>2 DEF Tick, History
<1> QED BY <1>1, <1>2, <1>3, <1>4, <1>5 DEF Counting, Last, Counted, Early

\* While the recorder is armed: a sample that is recorded is the one after the
\* last, and no more are counted than are recorded.
LEMMA ArmedCounting ==
  ASSUME TypeOK, Counting, csrArmed,
         NEW op \in Op, NEW arrives \in BOOLEAN, NEW ready \in BOOLEAN, NEW answer \in Answers,
         Tick(op, arrives, ready, answer), ~Lost', csrArmed' \/ complete'
  PROVE  /\ Counting'
         /\ FifoWrite(arrives) => Last' = sample + 1 /\ Last = sample /\ Counted' <= Counted + 1
         /\ ~FifoWrite(arrives) => Last' = Last /\ Counted' = Counted
<1>1. /\ ~complete /\ acqLeft <= asked.acq
      /\ triggered => triggerFlag
      /\ triggerFlag => pretrigLeft = 0
      /\ pretrigLeft <= asked.pre
      /\ ~triggered => Counted = IF asked.pre - pretrigLeft < asked.acq
                                 THEN asked.pre - pretrigLeft ELSE asked.acq
      /\ triggered /\ acqLeft > 0 => Last = sample
    BY DEF Counting
<1>2. ~Arms(op) /\ ~Aborts(op, answer)
    BY NoFailure DEF Arms
<1>3. /\ asked' = asked
      /\ complete' <=> Ends(op, arrives)
      /\ sample' = IF arrives THEN sample + 1 ELSE sample
  <2>1. complete' = (complete \/ Ends(op, arrives))
      BY <1>2 DEF Tick, History
  <2> QED BY <1>1, <1>2, <2>1 DEF Tick, History
<1>4. /\ acqLeft' = IF CountsDown(arrives) THEN acqLeft - 1 ELSE acqLeft
      /\ whenTriggered' = IF Stamps(arrives) THEN sample + 1 ELSE whenTriggered
      /\ pretrigLeft' = IF arrives /\ ~triggerFlag /\ pretrigLeft > 0
                        THEN pretrigLeft - 1 ELSE pretrigLeft
      /\ triggered' = (triggered \/ (arrives /\ triggerFlag))
      /\ triggerFlag => triggerFlag'
      /\ triggerFlag' => triggerFlag \/ pretrigLeft = 0
    BY <1>2 DEF Tick, Trigger, Triggered
<1>5. /\ acqLeft \in Nat /\ pretrigLeft \in Nat /\ whenTriggered \in Int /\ sample \in Int
      /\ asked.pre \in Nat /\ asked.acq \in Nat
    BY Numbers
<1>6. ~triggered => Last = sample
    BY <1>1 DEF Last
<1>7. triggered => Last = whenTriggered - Early + asked.acq - 1 - acqLeft
    BY DEF Last
<1>8. Ends(op, arrives) => ~csrArmed'
    BY DEF Tick, Registers
<1>9. Early \in Int
    BY <1>5 DEF Early
<1>10. CASE ~arrives
  <2>1. /\ ~Ends(op, arrives) /\ ~CountsDown(arrives) /\ ~Stamps(arrives) /\ ~FifoWrite(arrives)
      BY <1>10 DEF Ends, CountsDown, Stamps, FifoWrite
  <2>2. /\ UNCHANGED <<asked, sample, acqLeft, whenTriggered, pretrigLeft>>
        /\ ~complete' /\ triggered' = triggered /\ csrArmed'
      BY <1>3, <1>4, <1>10, <2>1 DEF TypeOK
  <2>3. Last' = Last /\ Counted' = Counted
      BY <1>1, <2>2 DEF Last, Counted, Early
  <2> QED BY <1>1, <1>4, <2>1, <2>2, <2>3 DEF Counting
<1>11. CASE arrives /\ ~triggerFlag
  <2>1. /\ ~Ends(op, arrives) /\ ~Stamps(arrives) /\ FifoWrite(arrives)
        /\ CountsDown(arrives) <=> acqLeft > 0 /\ pretrigLeft > 0
      BY <1>11 DEF Ends, CountsDown, Stamps, FifoWrite
  <2>2. ~triggered /\ ~triggered' /\ ~complete' /\ csrArmed'
      BY <1>1, <1>3, <1>4, <1>11, <2>1
  <2>3. /\ sample' = sample + 1 /\ asked' = asked
        /\ acqLeft' = IF acqLeft > 0 /\ pretrigLeft > 0 THEN acqLeft - 1 ELSE acqLeft
        /\ pretrigLeft' = IF pretrigLeft > 0 THEN pretrigLeft - 1 ELSE pretrigLeft
      BY <1>3, <1>4, <1>11, <2>1
  <2>4. Last = sample /\ Last' = sample + 1
      BY <1>6, <2>2, <2>3 DEF Last
  <2>5. asked.acq - acqLeft = IF asked.pre - pretrigLeft < asked.acq
                              THEN asked.pre - pretrigLeft ELSE asked.acq
      BY <1>1, <2>2 DEF Counted
  <2>6. /\ asked.acq - acqLeft' = IF asked.pre - pretrigLeft' < asked.acq
                                  THEN asked.pre - pretrigLeft' ELSE asked.acq
        /\ acqLeft' <= asked.acq /\ pretrigLeft' <= asked.pre
        /\ asked.acq - acqLeft' <= asked.acq - acqLeft + 1
      BY <1>1, <1>5, <2>3, <2>5
  <2>7. triggerFlag' => pretrigLeft' = 0
      BY <1>4, <1>11, <2>3
  <2>8. Counted' <= Counted + 1
      BY <2>3, <2>6 DEF Counted
  <2>9. Counting'
      BY <2>2, <2>3, <2>6, <2>7 DEF Counting, Counted
  <2> QED BY <2>1, <2>4, <2>8, <2>9
<1>12. CASE arrives /\ triggerFlag /\ acqLeft > 0
  <2>1. /\ ~Ends(op, arrives) /\ FifoWrite(arrives) /\ CountsDown(arrives)
        /\ Stamps(arrives) <=> ~triggered
      BY <1>12 DEF Ends, CountsDown, Stamps, FifoWrite
  <2>2. triggered' /\ ~complete' /\ csrArmed' /\ triggerFlag'
      BY <1>3, <1>4, <1>12, <2>1
  <2>3. /\ sample' = sample + 1 /\ asked' = asked /\ acqLeft' = acqLeft - 1
        /\ pretrigLeft' = pretrigLeft /\ pretrigLeft = 0
        /\ whenTriggered' = IF triggered THEN whenTriggered ELSE sample + 1
      BY <1>1, <1>3, <1>4, <1>12, <2>1
  <2>4. Last' = whenTriggered' - Early + asked.acq - 1 - acqLeft'
      BY <2>2, <2>3 DEF Last, Early
  <2>5. Last = sample /\ Last' = sample + 1
    <3>1. CASE triggered
        BY <1>1, <1>5, <1>7, <1>9, <1>12, <2>3, <2>4, <3>1
    <3>2. CASE ~triggered
      <4>1. asked.acq - acqLeft = Early
          BY <1>1, <1>5, <2>3, <3>2 DEF Counted, Early
      <4> QED BY <1>5, <1>6, <1>9, <2>3, <2>4, <3>2, <4>1
    <3> QED BY <3>1, <3>2
  <2>6. Counted' <= Counted + 1 /\ acqLeft' <= asked.acq
      BY <1>1, <1>5, <2>3 DEF Counted
  <2>7. Counting'
      BY <1>1, <2>2, <2>3, <2>5, <2>6 DEF Counting
  <2> QED BY <2>1, <2>5, <2>6, <2>7
<1>13. CASE arrives /\ triggerFlag /\ ~(acqLeft > 0)
  <2>1. /\ ~CountsDown(arrives) /\ ~FifoWrite(arrives) /\ acqLeft = 0
        /\ Stamps(arrives) <=> ~triggered
      BY <1>5, <1>13 DEF CountsDown, Stamps, FifoWrite
  <2>2. triggered' /\ triggerFlag' /\ (complete' => ~csrArmed')
      BY <1>3, <1>4, <1>8, <1>13
  <2>3. /\ asked' = asked /\ acqLeft' = acqLeft
        /\ pretrigLeft' = pretrigLeft /\ pretrigLeft = 0
        /\ whenTriggered' = IF triggered THEN whenTriggered ELSE sample + 1
      BY <1>1, <1>3, <1>4, <1>13, <2>1
  <2>4. Last' = whenTriggered' - Early + asked.acq - 1 - acqLeft'
      BY <2>2, <2>3 DEF Last, Early
  <2>5. Last' = Last
    <3>1. CASE triggered
        BY <1>7, <2>3, <2>4, <3>1
    <3>2. CASE ~triggered
      <4>1. asked.acq - acqLeft = Early
          BY <1>1, <1>5, <2>3, <3>2 DEF Counted, Early
      <4> QED BY <1>5, <1>6, <1>9, <2>1, <2>3, <2>4, <3>2, <4>1
    <3> QED BY <3>1, <3>2
  <2>6. Counted' = Counted
      BY <2>3 DEF Counted
  <2>7. Counting'
      BY <1>1, <2>1, <2>2, <2>3 DEF Counting
  <2> QED BY <2>1, <2>5, <2>6, <2>7
<1> QED BY <1>10, <1>11, <1>12, <1>13
\* When a word is written at the write address, it is the first back from there
\* and the others are one further back.
LEMMA BackMoves ==
  ASSUME TypeOK, writeAddr' = (writeAddr + 1) % Capacity, NEW x \in Nat, x < Capacity
  PROVE  /\ Back(x)' = IF x = 0 THEN writeAddr ELSE Back(x - 1)
         /\ x > 0 => Back(x - 1) # writeAddr /\ Back(x - 1) \in 0 .. Capacity - 1
<1>1. writeAddr \in Nat /\ writeAddr < Capacity /\ Capacity \in Nat
    BY RecorderFacts DEF TypeOK
<1>2. writeAddr' = IF writeAddr + 1 < Capacity THEN writeAddr + 1 ELSE 0
    BY <1>1, Around
<1>3. Back(x)' = IF x < writeAddr' THEN writeAddr' - 1 - x ELSE writeAddr' + Capacity - 1 - x
    BY DEF Back
<1> QED BY <1>1, <1>2, <1>3 DEF Back

\* Where the items are after a clock, given what the FIFO and the AXI master did.
LEMMA ItemIn ==
  ASSUME NEW k
  PROVE  Item(k)' = IF k < Len(fifo') THEN fifo'[Len(fifo') - k]
                    ELSE IF k < InHand' THEN fifoOut'
                    ELSE memory'[Back(k - InHand)']
BY DEF Item

\* A clock moves the last samples along, and those still of interest keep their
\* order: the j-th from the end becomes the one after it when one is added.
LEMMA ItemStep ==
  ASSUME RingInv, NEW op \in Op, NEW arrives \in BOOLEAN, NEW ready \in BOOLEAN,
         NEW answer \in Answers, Tick(op, arrives, ready, answer), ~Arms(op),
         FifoWrite(arrives) => Len(fifo) < FifoDepth,
         NEW w \in {0, 1}, w = 1 <=> FifoWrite(arrives),
         NEW j \in Nat, NEW k, k = j + w, k < Capacity,
         state = "DATA" => \/ burst.addr + burst.done = writeAddr
                           \/ j < Len(fifo) - beatCount
  PROVE  Item(k)' = Item(j)
<1> DEFINE d == IF FifoRead(ready) THEN 1 ELSE 0
           L == Len(fifo)
           M == Len(fifo')
<1>1. TypeOK
    BY DEF RingInv, TransferInRing
<1>2. /\ M = L - d + w
      /\ \A i \in 1 .. L - d : fifo'[i] = fifo[i + d]
      /\ d = 1 => fifoOut' = fifo[1]
      /\ d = 0 => fifoOut' = fifoOut
  <2>1. (arrives => sample < MaxSample) /\ (FifoRead(ready) => fifo # <<>>)
      BY FifoFed DEF Tick, Allowed
  <2>2. w = IF FifoWrite(arrives) /\ Len(fifo) < FifoDepth THEN 1 ELSE 0
      OBVIOUS
  <2> QED BY <1>1, <2>1, <2>2, FifoStep DEF Tick
<1>3. /\ L \in Nat /\ d \in {0, 1} /\ w \in {0, 1} /\ j \in Nat /\ k = j + w
      /\ beatCount \in Nat /\ Capacity \in Nat /\ writeAddr \in Nat /\ writeAddr < Capacity
    BY <1>1, FifoFed, RecorderFacts DEF TypeOK
<1>4. /\ state = "ADDR" => (d = 1 <=> ready)
      /\ state = "DATA" => (d = 1 <=> ready /\ beatCount > 0)
      /\ state \notin {"ADDR", "DATA"} => d = 0
    BY FifoFed
<1>5. NextAddress(op) = writeAddr
    BY DEF NextAddress
<1>6. state = "ADDR" => beatCount < L
    BY DEF RingInv, TransferFed
<1>7. /\ Item(j) = IF j < L THEN fifo[L - j] ELSE IF j < InHand THEN fifoOut
                   ELSE memory[Back(j - InHand)]
      /\ Item(k)' = IF k < M THEN fifo'[M - k] ELSE IF k < InHand' THEN fifoOut'
                    ELSE memory'[Back(k - InHand)']
    BY ItemIn DEF Item
<1>8. /\ InHand = IF state = "DATA" THEN L + 1 ELSE L
      /\ InHand' = IF state' = "DATA" THEN M + 1 ELSE M
    BY DEF InHand
<1> HIDE DEF d, L, M
<1>9. CASE j < L - d
  <2>1. k < M /\ M - k \in 1 .. L - d /\ M - k + d = L - j /\ j < L
      BY <1>2, <1>3, <1>9
  <2>2. fifo'[M - k] = fifo[L - j]
      BY <1>2, <2>1
  <2> QED BY <1>7, <2>1, <2>2
<1>10. CASE ~(j < L - d) /\ ~(state = "ADDR" /\ ready) /\ ~(state = "DATA" /\ ready)
  <2>1. d = 0
      BY <1>3, <1>4, <1>10
  <2>2. UNCHANGED <<memory, writeAddr>> /\ (state' = "DATA" <=> state = "DATA")
    <3>1. CASE Wait(op)
        BY <1>5, <3>1 DEF Wait
    <3>2. CASE Addr(op, ready)
        BY <1>5, <1>10, <3>2 DEF Addr
    <3>3. CASE Data(op, ready)
        BY <1>5, <1>10, <3>3 DEF Data
    <3>4. CASE Ack(op, answer)
        BY <1>5, <3>4 DEF Ack
    <3>5. CASE Pause(op)
        BY <1>5, <3>5 DEF Pause
    <3> QED BY <3>1, <3>2, <3>3, <3>4, <3>5 DEF Tick
  <2>3. ~(j < L) /\ ~(k < M) /\ (k < InHand' <=> j < InHand) /\ k - InHand' = j - InHand
      BY <1>2, <1>3, <1>8, <1>10, <2>1, <2>2
  <2>4. Back(k - InHand)' = Back(j - InHand)
      BY <2>2, <2>3 DEF Back
  <2> QED BY <1>2, <1>7, <2>1, <2>2, <2>3, <2>4
<1>11. CASE ~(j < L - d) /\ state = "ADDR" /\ ready
  <2>1. d = 1 /\ L > 0
      BY <1>3, <1>4, <1>6, <1>11
  <2>2. state' = "DATA" /\ UNCHANGED <<memory, writeAddr>>
      BY <1>5, <1>11 DEF Tick, Wait, Addr, Data, Ack, Pause
  <2>3. CASE j = L - 1
    <3>1. j < L /\ L - j = 1 /\ ~(k < M) /\ k < InHand'
        BY <1>2, <1>3, <1>8, <2>1, <2>2, <2>3
    <3> QED BY <1>2, <1>7, <2>1, <3>1
  <2>4. CASE j # L - 1
    <3>1. ~(j < L) /\ ~(j < InHand) /\ ~(k < M) /\ ~(k < InHand') /\ k - InHand' = j - InHand
        BY <1>2, <1>3, <1>8, <1>11, <2>1, <2>2, <2>4
    <3>2. Back(k - InHand)' = Back(j - InHand)
        BY <2>2, <3>1 DEF Back
    <3> QED BY <1>7, <2>2, <3>1, <3>2
  <2> QED BY <2>3, <2>4
<1>12. CASE ~(j < L - d) /\ state = "DATA" /\ ready
  <2>1. burst.addr + burst.done = writeAddr
      BY <1>3, <1>4, <1>12 DEF L
  <2>2. /\ writeAddr' = (writeAddr + 1) % Capacity
        /\ memory' = [memory EXCEPT ![writeAddr] = fifoOut]
        /\ beatCount > 0 => state' = "DATA"
        /\ ~(beatCount > 0) => state' = "ACK"
      BY <1>12, <2>1 DEF Tick, Wait, Addr, Data, Ack, Pause
  <2>3. InHand = L + 1 /\ InHand' = L + w
      BY <1>2, <1>3, <1>4, <1>8, <1>12, <2>2
  <2>4. CASE j < L
    <3>1. d = 1 /\ j = L - 1 /\ L - j = 1
        BY <1>3, <1>12, <2>4
    <3>2. ~(k < M) /\ k < InHand'
        BY <1>2, <1>3, <2>3, <3>1
    <3> QED BY <1>2, <1>7, <2>4, <3>1, <3>2
  <2>5. CASE ~(j < L)
    <3> PICK x \in Nat : x = j - L
        BY <1>3, <2>5
    <3>1. x \in Nat /\ x < Capacity /\ k - InHand' = x
        BY <1>3, <2>3, <2>5
    <3>2. ~(k < M) /\ ~(k < InHand')
        BY <1>2, <1>3, <2>3, <2>5
    <3>3. Item(k)' = memory'[IF x = 0 THEN writeAddr ELSE Back(x - 1)]
      <4>1. Back(k - InHand)' = Back(x)'
          BY <3>1 DEF Back
      <4>2. \A y \in Nat : y < Capacity => Back(y)' = IF y = 0 THEN writeAddr ELSE Back(y - 1)
          BY <1>1, <2>2, BackMoves
      <4> QED BY <1>7, <3>1, <3>2, <4>1, <4>2
    <3>4. CASE x = 0
      <4>1. Item(j) = fifoOut
          BY <1>3, <1>7, <2>3, <2>5, <3>4
      <4> QED BY <1>1, <1>3, <2>2, <3>3, <3>4, <4>1 DEF TypeOK
    <3>5. CASE x # 0
      <4>1. x - 1 = j - InHand /\ ~(j < InHand)
          BY <1>3, <2>3, <3>1, <3>5
      <4>2. Item(j) = memory[Back(x - 1)]
          BY <1>7, <2>5, <4>1
      <4>3. \A y \in Nat : y < Capacity /\ y > 0
              => Back(y - 1) # writeAddr /\ Back(y - 1) \in 0 .. Capacity - 1
          BY <1>1, <2>2, BackMoves
      <4>4. Back(x - 1) # writeAddr /\ Back(x - 1) \in 0 .. Capacity - 1
          BY <3>1, <3>5, <4>3
      <4> QED BY <1>1, <2>2, <3>3, <3>5, <4>2, <4>4 DEF TypeOK
    <3> QED BY <3>4, <3>5
  <2> QED BY <2>4, <2>5
<1> QED BY <1>9, <1>10, <1>11, <1>12
\* A sample that is recorded is the last.
LEMMA NewItem ==
  ASSUME RingInv, NEW op \in Op, NEW arrives \in BOOLEAN, NEW ready \in BOOLEAN,
         NEW answer \in Answers, Tick(op, arrives, ready, answer),
         FifoWrite(arrives), Len(fifo) < FifoDepth
  PROVE  Item(0)' = sample + 1
<1> DEFINE d == IF FifoRead(ready) THEN 1 ELSE 0
<1>1. TypeOK
    BY DEF RingInv, TransferInRing
<1>2. (arrives => sample < MaxSample) /\ (FifoRead(ready) => fifo # <<>>)
    BY FifoFed DEF Tick, Allowed
<1>3. Len(fifo') = Len(fifo) - d + 1 /\ fifo'[Len(fifo')] = sample + 1
    BY <1>1, <1>2, FifoStep DEF Tick
<1>4. Len(fifo) \in Nat /\ d \in {0, 1} /\ (d = 1 => Len(fifo) > 0)
  <2>1. fifo \in Seq(Sample)
      BY <1>1 DEF TypeOK
  <2> QED BY <1>2, <2>1
<1> HIDE DEF d
<1>5. Len(fifo') > 0 /\ Len(fifo') \in Nat
    BY <1>3, <1>4
<1> QED BY <1>3, <1>5, ItemIn

\* The words of a transfer go where the write address says, or none of them are
\* counted.
LEMMA AlignStep ==
  ASSUME RingInv, NEW op \in Op, NEW arrives \in BOOLEAN, NEW ready \in BOOLEAN,
         NEW answer \in Answers, Tick(op, arrives, ready, answer), ~Arms(op),
         FifoWrite(arrives) => Len(fifo) < FifoDepth,
         NEW w \in {0, 1}, w = 1 <=> FifoWrite(arrives),
         NEW c \in Int, NEW e \in Int, e <= c + w,
         state = "DATA" => burst.addr + burst.done = writeAddr \/ c <= Len(fifo) - beatCount,
         state' = "DATA"
  PROVE  burst'.addr + burst'.done = writeAddr' \/ e <= Len(fifo') - beatCount'
<1> DEFINE d == IF FifoRead(ready) THEN 1 ELSE 0
<1>1. TypeOK
    BY DEF RingInv, TransferInRing
<1>2. Len(fifo') = Len(fifo) - d + w
  <2>1. (arrives => sample < MaxSample) /\ (FifoRead(ready) => fifo # <<>>)
      BY FifoFed DEF Tick, Allowed
  <2>2. w = IF FifoWrite(arrives) /\ Len(fifo) < FifoDepth THEN 1 ELSE 0
      OBVIOUS
  <2> QED BY <1>1, <2>1, <2>2, FifoStep DEF Tick
<1>3. /\ Len(fifo) \in Nat /\ d \in {0, 1} /\ w \in {0, 1} /\ beatCount \in Nat
      /\ Capacity \in Nat /\ writeAddr \in Nat /\ writeAddr < Capacity
    BY <1>1, FifoFed, RecorderFacts DEF TypeOK
<1>4. /\ burst.addr \in Nat /\ burst.done \in Nat
      /\ burst = [addr |-> burst.addr, done |-> burst.done]
    BY <1>1, RecorderFacts DEF TypeOK
<1>5. NextAddress(op) = writeAddr
    BY DEF NextAddress
<1>6. state = "DATA" => (d = 1 <=> ready /\ beatCount > 0)
    BY FifoFed
<1> HIDE DEF d
<1>7. CASE Addr(op, ready)
  <2>1. burst' = [addr |-> writeAddr, done |-> 0] /\ writeAddr' = writeAddr
      BY <1>5, <1>7 DEF Addr
  <2>2. burst'.addr = writeAddr /\ burst'.done = 0
      BY <2>1
  <2> QED BY <1>3, <2>1, <2>2
<1>8. CASE Data(op, ready) /\ ready
  <2>1. /\ state = "DATA" /\ beatCount > 0 /\ beatCount' = beatCount - 1
        /\ writeAddr' = (writeAddr + 1) % Capacity
        /\ burst' = [burst EXCEPT !.done = @ + 1]
      BY <1>8 DEF Data
  <2>2. burst'.addr = burst.addr /\ burst'.done = burst.done + 1
      BY <1>4, <2>1
  <2>3. burst.addr + burst.done + beatCount < Capacity
      BY <2>1 DEF RingInv, TransferInRing
  <2>4. CASE burst.addr + burst.done = writeAddr
    <3>1. writeAddr' = writeAddr + 1
      <4>1. writeAddr + 1 < Capacity /\ Capacity > 0 /\ writeAddr + 1 \in Int /\ 0 <= writeAddr + 1
          BY <1>3, <1>4, <2>1, <2>3, <2>4
      <4>2. (writeAddr + 1) % Capacity = writeAddr + 1
          BY <1>3, <4>1, Around
      <4> QED BY <2>1, <4>2
    <3> QED BY <1>3, <1>4, <2>2, <2>4, <3>1
  <2>5. CASE c <= Len(fifo) - beatCount
      BY <1>2, <1>3, <1>6, <1>8, <2>1, <2>5
  <2> QED BY <2>1, <2>4, <2>5
<1>9. CASE Data(op, ready) /\ ~ready
  <2>1. state = "DATA" /\ writeAddr' = writeAddr /\ UNCHANGED <<burst, beatCount>>
      BY <1>5, <1>9 DEF Data
  <2>2. Len(fifo') = Len(fifo) + w
      BY <1>2, <1>3, <1>6, <1>9, <2>1
  <2> QED BY <1>3, <2>1, <2>2
<1> QED BY <1>7, <1>8, <1>9 DEF Tick, Wait, Ack, Pause

\* A clock with an acquisition under way or complete keeps what it has recorded.
LEMMA PlacedStep ==
  ASSUME RingInv, Counting, Placed, csrArmed \/ complete,
         NEW op \in Op, NEW arrives \in BOOLEAN, NEW ready \in BOOLEAN, NEW answer \in Answers,
         Tick(op, arrives, ready, answer), ~Arms(op), ~Lost', csrArmed' \/ complete'
  PROVE  Counting' /\ Placed'
<1>1. TypeOK
    BY DEF RingInv, TransferInRing
<1>2. FifoWrite(arrives) => Len(fifo) < FifoDepth
    BY NoFailure
<1> PICK w \in {0, 1} : w = 1 <=> FifoWrite(arrives)
    OBVIOUS
<1>3. /\ Counting'
      /\ w = 1 => Last' = sample + 1 /\ Last = sample /\ Counted' <= Counted + 1
      /\ w = 0 => Last' = Last /\ Counted' = Counted
  <2>1. CASE csrArmed
      BY <1>1, <2>1, ArmedCounting
  <2>2. CASE complete
      BY <1>1, <2>2, CompleteCounting
  <2> QED BY <2>1, <2>2
<1>4. /\ Counted \in Int /\ Counted' \in Int /\ sample \in Int /\ Last \in Int
      /\ Counted' <= Capacity /\ Capacity \in Nat
  <2>1. /\ acqLeft \in Nat /\ whenTriggered \in Int /\ sample \in Int
        /\ asked.acq \in Nat /\ asked.pre \in Nat
      BY <1>1, Numbers
  <2>2. Counted \in Int /\ Last \in Int
      BY <2>1 DEF Counted, Last, Early
  <2>3. TypeOK'
      BY RingStep DEF RingInv, TransferInRing
  <2>4. acqLeft' \in 0 .. Capacity /\ asked' \in Counts
      BY <2>3 DEF TypeOK
  <2>5. asked'.acq \in 0 .. Capacity
      BY <2>4, CountTypes
  <2> QED BY <2>1, <2>2, <2>4, <2>5, RecorderFacts DEF Counted
<1>5. Counted' <= Counted + w
    BY <1>3, <1>4
<1>6. ASSUME NEW k \in 0 .. Counted' - 1 PROVE Item(k)' = Last' - k
  <2>1. CASE w = 1 /\ k = 0
    <3>1. Item(0)' = sample + 1
        BY <1>2, <2>1, NewItem
    <3> QED BY <1>3, <1>4, <2>1, <3>1
  <2>2. CASE ~(w = 1 /\ k = 0)
    <3> PICK j \in Nat : k = j + w
        BY <1>4, <1>6, <2>2
    <3>1. j \in 0 .. Counted - 1 /\ k < Capacity
      <4>1. \A a, b, x, y, m \in Int :
              b <= a + x /\ y + x \in 0 .. b - 1 /\ y >= 0 /\ b <= m
                => y \in 0 .. a - 1 /\ y + x < m
          OBVIOUS
      <4>2. j + w \in 0 .. Counted' - 1 /\ w \in Int /\ j \in Int /\ j >= 0
          BY <1>6
      <4>3. Counted' <= Counted + w /\ Counted' <= Capacity /\ Capacity \in Int
          BY <1>4, <1>5
      <4> QED BY <1>4, <4>1, <4>2, <4>3, Zenon
    <3>2. state = "DATA" => \/ burst.addr + burst.done = writeAddr
                            \/ j < Len(fifo) - beatCount
      <4>1. Len(fifo) \in Nat /\ beatCount \in Nat
          BY <1>1, FifoFed, RecorderFacts DEF TypeOK
      <4> QED BY <1>4, <3>1, <4>1 DEF Placed
    <3>3. Item(k)' = Item(j)
        BY <1>2, <3>1, <3>2, ItemStep
    <3>4. Item(j) = Last - j
        BY <3>1 DEF Placed
    <3>5. Last' = Last + w
        BY <1>3, <1>4
    <3> QED BY <1>4, <3>3, <3>4, <3>5
  <2> QED BY <2>1, <2>2
<1>7. state' = "DATA" => burst'.addr + burst'.done = writeAddr' \/ Counted' <= Len(fifo') - beatCount'
  <2>1. PICK c \in Int, e \in Int : c = Counted /\ e = Counted'
      BY <1>4
  <2> QED BY <1>2, <1>5, <2>1, AlignStep DEF Placed
<1>8. Placed'
    BY <1>6, <1>7 DEF Placed
<1> QED BY <1>3, <1>8

\* Arming the recorder begins an acquisition of which nothing has been counted.
LEMMA ArmingBegins ==
  ASSUME RingInv, NEW op \in Op, NEW arrives \in BOOLEAN, NEW ready \in BOOLEAN,
         NEW answer \in Answers, Tick(op, arrives, ready, answer), Arms(op), ~Lost'
  PROVE  Counting' /\ Placed'
<1>1. TypeOK
    BY DEF RingInv, TransferInRing
<1>2. ~csrArmed /\ CsrStrobe(op) /\ ~Ends(op, arrives) /\ ~Aborts(op, answer)
    BY DEF Arms, CsrStrobe, Ends, Aborts
<1>3. /\ acqLeft' = counts.acq /\ pretrigLeft' = counts.pre
      /\ ~triggerFlag' /\ ~triggered'
    BY <1>2 DEF Tick, Trigger
<1>4. asked' = counts /\ ~complete'
    BY DEF Tick, History
<1>5. counts.acq \in Nat /\ counts.pre \in Nat
    BY <1>1, Numbers
<1>6. Counted' = 0
    BY <1>3, <1>4, <1>5 DEF Counted
<1>7. Counting'
  <2>1. asked'.pre - pretrigLeft' = 0 /\ asked'.acq \in Nat
      BY <1>3, <1>4, <1>5
  <2> QED BY <1>3, <1>4, <1>5, <1>6, <2>1 DEF Counting
<1>8. state' = "DATA" => Counted' <= Len(fifo') - beatCount'
  <2>1. RingInv'
      BY RingStep
  <2>2. Len(fifo') \in Nat /\ beatCount' \in Nat
      BY <2>1, RecorderFacts DEF RingInv, TransferInRing, TypeOK
  <2>3. state' = "DATA" => beatCount' <= Len(fifo')
      BY <2>1 DEF RingInv, TransferFed
  <2> QED BY <1>6, <2>2, <2>3
<1>9. Placed'
    BY <1>6, <1>8 DEF Placed
<1> QED BY <1>7, <1>9

\* A clock keeps the window.
LEMMA WindowStep ==
  ASSUME WindowInv, NEW op \in Op, NEW arrives \in BOOLEAN, NEW ready \in BOOLEAN,
         NEW answer \in Answers, Tick(op, arrives, ready, answer)
  PROVE  WindowInv'
<1>1. RingInv'
    BY RingStep DEF WindowInv
<1> SUFFICES ASSUME csrArmed' \/ complete', ~Lost' PROVE Counting' /\ Placed'
    BY <1>1 DEF WindowInv
<1>2. CASE Arms(op)
    BY <1>2, ArmingBegins DEF WindowInv
<1>3. CASE ~Arms(op) /\ (csrArmed \/ complete)
    BY <1>3, NoFailure, PlacedStep DEF WindowInv
<1>4. CASE ~Arms(op) /\ ~csrArmed /\ ~complete
  <2>1. ~Ends(op, arrives) /\ ~Aborts(op, answer) /\ op # "arm"
      BY <1>4, NoFailure DEF Ends, Arms
  <2>2. ~complete'
      BY <1>4, <2>1 DEF Tick, History
  <2>3. ~csrArmed'
    <3>1. CASE CsrStrobe(op)
        BY <2>1, <3>1 DEF Tick, Registers
    <3>2. CASE ~CsrStrobe(op)
        BY <1>4, <2>1, <3>2 DEF Tick, Registers
    <3> QED BY <3>1, <3>2
  <2> QED BY <2>2, <2>3
<1> QED BY <1>2, <1>3, <1>4

\* A step that changes nothing.
LEMMA WindowStutter == ASSUME WindowInv, UNCHANGED vars PROVE WindowInv'
<1>1. RingInv'
    BY RingStutter DEF WindowInv
<1>2. UNCHANGED <<csrArmed, complete, overrun, failed, acqLeft, asked, triggered, triggerFlag,
                  pretrigLeft, whenTriggered, sample, fifo, fifoOut, state, writeAddr,
                  beatCount, memory, burst>>
    BY DEF vars, registers, acquisition, axi, history
<1>3. Counted' = Counted /\ Last' = Last
    BY <1>2 DEF Counted, Last, Early
<1>4. \A j \in Int : Item(j)' = Item(j)
    BY <1>2 DEF Item, InHand, Back
<1>5. Counting => Counting'
    BY <1>2, <1>3 DEF Counting
<1>6. Placed => Placed'
    BY <1>2, <1>3, <1>4 DEF Placed
<1> QED BY <1>1, <1>2, <1>5, <1>6 DEF WindowInv, Lost

\* Once everything recorded is in the ring, the window is.
LEMMA WindowThere ==
  ASSUME RingInv, Counting, Placed, complete, Stored
  PROVE  WindowStored
<1> DEFINE n == asked.acq
           pre == IF asked.pre < n THEN asked.pre ELSE n
<1>1. TypeOK
    BY DEF RingInv, TransferInRing
<1>2. /\ n \in Nat /\ n <= Capacity /\ asked.pre \in Nat /\ whenTriggered \in Int
      /\ Capacity \in Nat /\ writeAddr \in Nat /\ writeAddr < Capacity
    BY <1>1, Numbers, RecorderFacts DEF TypeOK
<1>3. Counted = n /\ Last = whenTriggered - pre + n - 1
    BY <1>2 DEF Counting, Counted, Last, Early
<1>4. Len(fifo) = 0 /\ InHand = 0
    BY DEF Stored, InHand
<1> SUFFICES ASSUME NEW i \in 0 .. n - 1
             PROVE  memory[(writeAddr + Capacity - n + i) % Capacity] = whenTriggered - pre + i
    BY DEF WindowStored
<1> DEFINE j == n - 1 - i
<1>5. j \in 0 .. n - 1 /\ j \in Nat /\ pre \in Int
    BY <1>2
<1>6. Item(j) = Last - j
    BY <1>3, <1>5 DEF Placed
<1>7. Item(j) = memory[Back(j)]
  <2> HIDE DEF j, n
  <2>1. ~(j < Len(fifo)) /\ ~(j < InHand) /\ j - InHand = j
      BY <1>4, <1>5
  <2> QED BY <2>1 DEF Item
<1>8. Back(j) = (writeAddr + Capacity - n + i) % Capacity
  <2>1. writeAddr + Capacity - n + i \in Int /\ 0 <= writeAddr + Capacity - n + i
        /\ writeAddr + Capacity - n + i < Capacity + Capacity
      BY <1>2
  <2>2. (writeAddr + Capacity - n + i) % Capacity
          = IF writeAddr + Capacity - n + i < Capacity
            THEN writeAddr + Capacity - n + i ELSE writeAddr - n + i
      BY <1>2, <2>1, Around
  <2> QED BY <1>2, <1>5, <2>2 DEF Back
<1> HIDE DEF pre
<1>9. Last - j = whenTriggered - pre + i
    BY <1>2, <1>3, <1>5
<1> QED BY <1>6, <1>7, <1>8, <1>9

\* Once an acquisition is complete and the FIFO empty, the ring holds the window
\* asked for, with the time stamp's sample right after the pretrigger samples,
\* unless samples were lost: however often the recorder was disarmed and armed
\* before and whatever of earlier acquisitions was still on its way.
THEOREM WindowsHeld == Spec => []RingHoldsWindow
<1>1. Init => WindowInv
  <2>1. Init => ~csrArmed /\ ~complete
      BY DEF Init
  <2> QED BY <2>1, RingInit DEF WindowInv
<1>2. WindowInv /\ [Clock]_vars => WindowInv'
    BY ClockIsTick, WindowStep, WindowStutter
<1>3. WindowInv => RingHoldsWindow
    BY WindowThere DEF WindowInv, RingHoldsWindow
<1> QED BY <1>1, <1>2, <1>3, PTL DEF Spec
=============================================================================
