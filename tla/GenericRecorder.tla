--------------------------- MODULE GenericRecorder ---------------------------
(***************************************************************************)
(* The hardware of the turn-by-turn, fast-acquisition and pilot-tone        *)
(* waveform recorders (genericWaveformRecorder.v), clock by clock: the      *)
(* registers, the trigger, the FIFO and the AXI master that writes the      *)
(* samples into a ring in memory.                                          *)
(*                                                                         *)
(* Sample n is the n-th that has arrived since power was applied, which     *)
(* stands for its values and its time stamp.  One trigger line stands for   *)
(* the eight.  The software, the FIFO (a vendor's core) and the AXI         *)
(* interconnect are external.                                              *)
(***************************************************************************)
EXTENDS Integers, Sequences

CONSTANTS
  Capacity,   \* ACQ_CAPACITY
  Multi,      \* MULTI_BEAT_LENGTH
  PauseTime,  \* the largest pauseCount
  FifoDepth,  \* how many samples the FIFO holds
  Pretrig,    \* the pretrigger counts software writes
  AcqCount,   \* the acquisition counts software writes
  MaxSample,  \* bound on the samples
  MaxArm,     \* bound on how often software arms the recorder
  MayFail     \* may AXI answer with an error?

ASSUME RecorderAssumption ==
  /\ Multi \in Nat \ {0} /\ Capacity \in Nat /\ Capacity >= Multi
  /\ PauseTime \in Nat /\ FifoDepth \in Nat \ {0}
  /\ Pretrig \subseteq 0 .. Capacity
  /\ AcqCount \subseteq 1 .. Capacity
  /\ MaxSample \in Nat /\ MaxArm \in Nat
  /\ MayFail \in BOOLEAN

Sample == 0 .. MaxSample \* 0 is no sample

VARIABLES
  counts,      \* pretrigCount_r and acqCount_r
  csrArmed, full, enables,
  triggerReg, triggerReg_d, triggerFlag, triggered,
  pretrigLeft, acqLeft,
  whenTriggered,
  fifo, fifoOut, overrun,
  state, writeAddr, beatCount, pauseCount,
  memory,      \* the ring
  burst,       \* where in memory the AXI transfer under way began, and its beats
  sample,      \* how many samples have arrived
  arms,        \* how often the recorder has been armed
  asked,       \* the counts of the last acquisition
  complete,    \* it ran to its end, and the recorder was not armed since
  failed       \* an AXI transfer has failed

registers == <<counts, csrArmed, full, enables>>
acquisition == <<triggerReg, triggerReg_d, triggerFlag, triggered, pretrigLeft,
                 acqLeft, whenTriggered, fifo, fifoOut, overrun>>
axi == <<state, writeAddr, beatCount, pauseCount, memory, burst>>
history == <<sample, arms, asked, complete, failed>>
vars == <<registers, acquisition, axi, history>>

Counts == [pre : Pretrig \cup {0}, acq : AcqCount \cup {0}]

TypeOK ==
  /\ counts \in Counts
  /\ csrArmed \in BOOLEAN /\ full \in BOOLEAN /\ enables \in BOOLEAN
  /\ triggerReg \in BOOLEAN /\ triggerReg_d \in BOOLEAN
  /\ triggerFlag \in BOOLEAN /\ triggered \in BOOLEAN
  /\ pretrigLeft \in 0 .. Capacity /\ acqLeft \in 0 .. Capacity
  /\ whenTriggered \in Sample
  /\ fifo \in Seq(Sample) /\ Len(fifo) <= FifoDepth /\ fifoOut \in Sample
  /\ overrun \in BOOLEAN
  /\ state \in {"WAIT", "ADDR", "DATA", "ACK", "PAUSE"}
  /\ writeAddr \in 0 .. Capacity - 1
  /\ beatCount \in 0 .. Multi - 1 /\ pauseCount \in 0 .. PauseTime
  /\ memory \in [0 .. Capacity - 1 -> Sample]
  /\ burst \in [addr : 0 .. Capacity - 1, done : 0 .. Multi]
  /\ sample \in Sample /\ arms \in 0 .. MaxArm
  /\ asked \in Counts /\ complete \in BOOLEAN /\ failed \in BOOLEAN

Init ==
  /\ counts = [pre |-> 0, acq |-> 0]
  /\ csrArmed = FALSE /\ full = FALSE /\ enables = FALSE
  /\ triggerReg = FALSE /\ triggerReg_d = FALSE
  /\ triggerFlag = FALSE /\ triggered = FALSE
  /\ pretrigLeft = 0 /\ acqLeft = 0 /\ whenTriggered = 0
  /\ fifo = <<>> /\ fifoOut = 0 /\ overrun = FALSE
  /\ state = "WAIT" /\ writeAddr = 0 /\ beatCount = 0 /\ pauseCount = 0
  /\ memory = [a \in 0 .. Capacity - 1 |-> 0]
  /\ burst = [addr |-> 0, done |-> 0]
  /\ sample = 0 /\ arms = 0 /\ asked = counts
  /\ complete = FALSE /\ failed = FALSE

(***************************************************************************)
(* What one clock brings: op, the register software writes, if any; arrives, *)
(* a sample (dataMatch # dataToggle); answer, an AXI answer or "none".       *)
(* All registers are read as they were before the clock; of two assignments *)
(* to one register the later one in the text counts.                       *)
(***************************************************************************)
CsrStrobe(op) == op \in {"arm", "disarm"}
Arms(op) == op = "arm" /\ ~csrArmed

\* The sample that arrives is the one after the last to record.
Ends(op, arrives) == csrArmed /\ arrives /\ triggerFlag /\ acqLeft = 0 /\ ~CsrStrobe(op)

\* A transfer fails, which ends the acquisition unless software writes the CSR.
Aborts(op, answer) == state = "ACK" /\ answer = "error" /\ ~CsrStrobe(op)

\* Microblaze interface.
Registers(op, arrives, answer) ==
  /\ IF op = "counts"
     THEN \E p \in Pretrig, a \in AcqCount : counts' = [pre |-> p, acq |-> a]
     ELSE UNCHANGED counts
  /\ csrArmed' = IF Ends(op, arrives) \/ Aborts(op, answer) THEN FALSE
                 ELSE IF CsrStrobe(op) THEN op = "arm" ELSE csrArmed
  /\ full' = IF Ends(op, arrives) THEN TRUE
             ELSE IF CsrStrobe(op) THEN FALSE ELSE full
  /\ IF CsrStrobe(op) THEN enables' \in BOOLEAN ELSE UNCHANGED enables

\* Watch for the trigger.
TriggeredAnyTime == csrArmed /\ enables /\ triggerReg /\ ~triggerReg_d \* mutant: too early

Triggered == csrArmed /\ pretrigLeft = 0 /\ enables /\ triggerReg /\ ~triggerReg_d

CountsDown(arrives) ==
  csrArmed /\ arrives /\ acqLeft > 0 /\ (triggerFlag \/ pretrigLeft > 0)

Stamps(arrives) == csrArmed /\ arrives /\ triggerFlag /\ ~triggered

Trigger(op, arrives, answer) ==
  /\ triggerReg' \in BOOLEAN
  /\ triggerReg_d' = triggerReg
  /\ triggerFlag' = (csrArmed /\ (triggerFlag \/ Triggered))
  /\ triggered' = (csrArmed /\ (triggered \/ (arrives /\ triggerFlag)))
  /\ whenTriggered' = IF Stamps(arrives) THEN sample + 1 ELSE whenTriggered
  /\ pretrigLeft' = IF Arms(op) THEN counts.pre
                    ELSE IF csrArmed /\ arrives /\ ~triggerFlag /\ pretrigLeft > 0
                    THEN pretrigLeft - 1 ELSE pretrigLeft
  /\ acqLeft' = IF Aborts(op, answer) THEN 0
                ELSE IF Arms(op) THEN counts.acq
                ELSE IF CountsDown(arrives) THEN acqLeft - 1 ELSE acqLeft

\* Elasticity between incoming data and AXI.
FifoWrite(arrives) == csrArmed /\ arrives /\ (~triggerFlag \/ acqLeft > 0)

FifoRead(ready) ==
  /\ ready
  /\ state = "ADDR" \/ (state = "DATA" /\ beatCount > 0)

Fifo(arrives, ready) ==
  LET rest == IF FifoRead(ready) THEN Tail(fifo) ELSE fifo
      fits == Len(fifo) < FifoDepth
  IN /\ fifoOut' = IF FifoRead(ready) THEN Head(fifo) ELSE fifoOut
     /\ fifo' = IF FifoWrite(arrives) /\ fits THEN Append(rest, sample + 1) ELSE rest
     /\ overrun' = (overrun \/ (FifoWrite(arrives) /\ ~fits))

(***************************************************************************)
(* The AXI master                                                          *)
(***************************************************************************)
FitsRingAlways == TRUE \* mutant: a long transfer may run past the end

FitsRing == writeAddr <= Capacity - Multi

\* Arming sets the write address back unless a word is written that moment.
NextAddress(op) == IF Arms(op) THEN 0 ELSE writeAddr

Wait(op) ==
  /\ state = "WAIT"
  /\ \/ /\ Len(fifo) >= Multi /\ FitsRing
        /\ beatCount' = Multi - 1
        /\ state' = "ADDR"
     \/ /\ ~(Len(fifo) >= Multi /\ FitsRing)
        /\ fifo # <<>>
        /\ beatCount' = 0
        /\ state' = "ADDR"
     \/ /\ fifo = <<>>
        /\ UNCHANGED <<beatCount, state>>
  /\ writeAddr' = NextAddress(op)
  /\ UNCHANGED <<pauseCount, memory, burst>>

Addr(op, ready) ==
  /\ state = "ADDR"
  /\ IF ready
     THEN /\ state' = "DATA"
          /\ burst' = [addr |-> writeAddr, done |-> 0]
     ELSE UNCHANGED <<state, burst>>
  /\ writeAddr' = NextAddress(op)
  /\ UNCHANGED <<beatCount, pauseCount, memory>>

Data(op, ready) ==
  /\ state = "DATA"
  /\ IF ready
     THEN /\ writeAddr' = (writeAddr + 1) % Capacity
          /\ memory' = [memory EXCEPT ![burst.addr + burst.done] = fifoOut]
          /\ burst' = [burst EXCEPT !.done = @ + 1]
          /\ IF beatCount > 0
             THEN beatCount' = beatCount - 1 /\ UNCHANGED state
             ELSE state' = "ACK" /\ UNCHANGED beatCount
     ELSE /\ writeAddr' = NextAddress(op)
          /\ UNCHANGED <<memory, burst, beatCount, state>>
  /\ UNCHANGED pauseCount

Ack(op, answer) ==
  /\ state = "ACK"
  /\ IF answer # "none"
     THEN pauseCount' = PauseTime /\ state' = "PAUSE"
     ELSE UNCHANGED <<pauseCount, state>>
  /\ writeAddr' = NextAddress(op)
  /\ UNCHANGED <<beatCount, memory, burst>>

Pause(op) ==
  /\ state = "PAUSE"
  /\ IF pauseCount > 0
     THEN pauseCount' = pauseCount - 1 /\ UNCHANGED state
     ELSE state' = "WAIT" /\ UNCHANGED pauseCount
  /\ writeAddr' = NextAddress(op)
  /\ UNCHANGED <<beatCount, memory, burst>>

(***************************************************************************)
(* The environment (external): software writes the counts only while the    *)
(* recorder is not armed; samples, triggers and AXI come as they please.    *)
(***************************************************************************)
Allowed(op, arrives, ready, answer) ==
  /\ op = "counts" => ~csrArmed
  /\ op = "arm" => arms < MaxArm /\ counts.acq > 0
  /\ arrives => sample < MaxSample
  /\ ready => state \in {"ADDR", "DATA"}
  /\ answer # "none" => state = "ACK"
  /\ answer = "error" => MayFail

History(op, arrives, answer) ==
  /\ sample' = IF arrives THEN sample + 1 ELSE sample
  /\ arms' = IF op = "arm" THEN arms + 1 ELSE arms
  /\ asked' = IF Arms(op) THEN counts ELSE asked
  /\ complete' = IF Arms(op) THEN FALSE ELSE complete \/ Ends(op, arrives)
  /\ failed' = (failed \/ answer = "error")

Clock ==
  \E op \in {"none", "counts", "arm", "disarm"}, arrives \in BOOLEAN,
     ready \in BOOLEAN, answer \in {"none", "okay", "error"} :
    /\ Allowed(op, arrives, ready, answer)
    /\ Registers(op, arrives, answer)
    /\ Trigger(op, arrives, answer)
    /\ Fifo(arrives, ready)
    /\ \/ Wait(op) \/ Addr(op, ready) \/ Data(op, ready)
       \/ Ack(op, answer) \/ Pause(op)
    /\ History(op, arrives, answer)

Spec == Init /\ [][Clock]_vars

(***************************************************************************)
(* Properties                                                              *)
(***************************************************************************)
Lost == overrun \/ failed

Stored == fifo = <<>> /\ state \in {"WAIT", "ACK", "PAUSE"}

WindowStored ==
  LET n   == asked.acq
      pre == IF asked.pre < n THEN asked.pre ELSE n
  IN \A i \in 0 .. n - 1 :
       memory[(writeAddr + Capacity - n + i) % Capacity] = whenTriggered - pre + i

\* Once an acquisition is complete and the FIFO has been emptied, the ring
\* holds the samples asked for, one after the other up to the memory pointer,
\* with the one the time stamp belongs to right after the pretrigger samples:
\* however often the recorder was disarmed and armed before, with samples
\* still in the FIFO or a transfer under way, and wherever the ring wraps.
RingHoldsWindow == complete /\ ~Lost /\ Stored => WindowStored

\* An AXI transfer stays within the recorder's memory, and what counts words
\* and samples within its range (TypeOK).
TransferInRing ==
  /\ TypeOK
  /\ state = "ADDR" => writeAddr + beatCount < Capacity
  /\ state = "DATA" => burst.addr + burst.done + beatCount < Capacity

\* "Recorder acquisition has completed and waveform buffers are full"
\* (SoftwareNotes.html): with the flag up, the samples are in memory.
FullMeansStored == full /\ ~Lost => WindowStored
=============================================================================
