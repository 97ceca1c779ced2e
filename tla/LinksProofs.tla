----------------------------- MODULE LinksProofs -----------------------------
(***************************************************************************)
(* Proofs about the parts that follow the timing system and the             *)
(* neighbouring BPMs, one after the other; they share no state.             *)
(***************************************************************************)
EXTENDS CellLinks, AfeClocks, EventReceiver, WellFoundedInduction, TLAPS

(***************************************************************************)
(* Proofs about the links of the cell, for all durations, every wrap of the *)
(* count of microseconds and every bound: the types, and that the register  *)
(* always holds the resets the state machines are in.                       *)
(***************************************************************************)

\* The two bits are different.
LEMMA TwoResets == auroraReset # gtReset /\ Reset = {auroraReset, gtReset}
BY DEF auroraReset, gtReset, Reset

(***************************************************************************)
(* Types                                                                   *)
(***************************************************************************)

Machine == [state : States, base : 0 .. Wrap - 1, limit : {0, Long, Middle, Short}]

HardwareTypes ==
  /\ csr \in [Link -> SUBSET Reset]
  /\ up \in [Link -> BOOLEAN]
  /\ needs \in [Link -> SUBSET Reset]
  /\ training \in [Link -> 0 .. Training]

\* Writing the register keeps the types of the hardware.
LEMMA WriteResetsTypes ==
  ASSUME CellTypeOK, NEW r \in [Link -> SUBSET Reset], WriteResets(r)
  PROVE  HardwareTypes'
BY CellAssumption DEF CellTypeOK, HardwareTypes, WriteResets

\* So does a change of state those of the machines.
LEMMA GotoTypes ==
  ASSUME CellTypeOK, NEW l \in Link, NEW state \in States,
         NEW limit \in {Long, Middle, Short}, Goto(l, state, limit)
  PROVE  machine' \in [Link -> Machine]
BY DEF CellTypeOK, Machine, Goto

\* A change of the resets of one link keeps the types.
LEMMA ControlTypes ==
  ASSUME CellTypeOK, NEW l \in Link, NEW resets \in SUBSET Reset, Control(l, resets)
  PROVE  control' \in [Link -> SUBSET Reset] /\ HardwareTypes'
<1>1. control' \in [Link -> SUBSET Reset]
  BY DEF CellTypeOK, Control
<1>2. QED
  BY <1>1, WriteResetsTypes DEF Control

\* So does none.
LEMMA NoControlTypes ==
  ASSUME CellTypeOK, NoControl
  PROVE  control' \in [Link -> SUBSET Reset] /\ HardwareTypes'
BY DEF CellTypeOK, NoControl, HardwareTypes

\* Each way through a state machine keeps the types.
LEMMA CrankTypes ==
  ASSUME CellTypeOK, NEW l \in Link, crank(l)
  PROVE  CellTypeOK'
<1>1. /\ machine' \in [Link -> Machine]
      /\ control' \in [Link -> SUBSET Reset]
      /\ HardwareTypes'
  <2>1. CASE LinkLost(l)
    BY <2>1, GotoTypes, NoControlTypes DEF LinkLost, States
  <2>2. CASE LinkBack(l)
    <3>1. machine' \in [Link -> Machine]
      BY <2>2 DEF LinkBack, BackUp, CellTypeOK, Machine, States
    <3>2. QED
      BY <2>2, <3>1, NoControlTypes DEF LinkBack
  <2>3. CASE StartReset(l)
    <3>1. control[l] \cup {auroraReset} \in SUBSET Reset
          /\ control[l] \cup {auroraReset, gtReset} \in SUBSET Reset
      BY TwoResets DEF CellTypeOK
    <3>2. QED
      BY <2>3, <3>1, GotoTypes, ControlTypes DEF StartReset, States
  <2>4. CASE EndReset(l)
    <3>1. control[l] \ {auroraReset} \in SUBSET Reset
          /\ control[l] \ {gtReset} \in SUBSET Reset
      BY DEF CellTypeOK
    <3>2. QED
      BY <2>4, <3>1, GotoTypes, ControlTypes DEF EndReset, States
  <2>5. CASE Stay(l)
    <3>1. machine' \in [Link -> Machine]
      BY <2>5 DEF Stay, CellTypeOK, Machine
    <3>2. QED
      BY <2>5, <3>1, NoControlTypes DEF Stay
  <2>6. QED
    BY <2>1, <2>2, <2>3, <2>4, <2>5 DEF crank
<1>2. /\ phase' \in Link /\ polled' \in BOOLEAN
      /\ UNCHANGED <<usec, linkFaults, fofb>>
  BY DEF crank, Link, CellTypeOK
<1>3. QED
  BY <1>1, <1>2 DEF CellTypeOK, Machine, HardwareTypes, Link

\* The types hold at first.
LEMMA InitTypes ==
  ASSUME CellInit
  PROVE  CellTypeOK
BY CellAssumption DEF CellInit, CellTypeOK, NoIndex, States, Link, Reset

\* Each step keeps the types.
LEMMA StepTypes ==
  ASSUME CellTypeOK, [CellNext]_CellVars
  PROVE  CellTypeOK'
<1>1. CASE CellCommInit
  <2>1. HardwareTypes'
    <3>1. [l \in Link |-> {"aurora"}] \in [Link -> SUBSET Reset]
          /\ [l \in Link |-> {}] \in [Link -> SUBSET Reset]
      BY DEF Reset
    <3>2. QED
      BY <1>1, <3>1, WriteResetsTypes DEF CellCommInit
  <2>2. QED
    BY <1>1, <2>1 DEF CellCommInit, CellTypeOK, HardwareTypes
<1>2. CASE CellCommStatus
  BY <1>2, CrankTypes DEF CellCommStatus
<1>3. ASSUME NEW i \in Indices, CellCommSetFOFB(i)
      PROVE  CellTypeOK'
  <2>1. HardwareTypes'
    BY <1>3, WriteResetsTypes DEF CellCommSetFOFB, CellTypeOK
  <2>2. fofb' \in [valid : BOOLEAN, index : Int]
    BY <1>3, CellAssumption DEF CellCommSetFOFB, InCapacity
  <2>3. QED
    BY <1>3, <2>1, <2>2
       DEF CellCommSetFOFB, CellTypeOK, HardwareTypes, software
<1>4. ASSUME NEW l \in Link, ComesUp(l)
      PROVE  CellTypeOK'
  BY <1>4 DEF ComesUp, CellTypeOK, software
<1>5. ASSUME NEW lost \in SUBSET Link, GoDown(lost)
      PROVE  CellTypeOK'
  <2>1. up' \in [Link -> BOOLEAN] /\ training' \in [Link -> 0 .. Training]
    BY <1>5, CellAssumption DEF GoDown, CellTypeOK
  <2>2. needs' \in [Link -> SUBSET Reset]
    BY <1>5 DEF GoDown, CellTypeOK
  <2>3. linkFaults' \in 0 .. MaxFaults
    BY <1>5, CellAssumption DEF GoDown, CellTypeOK
  <2>4. QED
    BY <1>5, <2>1, <2>2, <2>3 DEF GoDown, CellTypeOK, software
<1>6. CASE CellTick
  <2>1. usec' \in 0 .. Wrap - 1
    BY <1>6, CellAssumption DEF CellTick, CellTypeOK
  <2>2. training' \in [Link -> 0 .. Training]
    BY <1>6, CellAssumption DEF CellTick, CellTypeOK
  <2>3. polled' \in BOOLEAN
    BY <1>6 DEF CellTick
  <2>4. QED
    BY <1>6, <2>1, <2>2, <2>3 DEF CellTick, CellTypeOK, software
<1>7. CASE UNCHANGED CellVars
  BY <1>7 DEF CellVars, software, hardware, CellTypeOK
<1>8. QED
  BY <1>1, <1>2, <1>3, <1>4, <1>5, <1>6, <1>7 DEF CellNext

\* The variables have their types in every reachable state; in particular what a
\* time-out is computed from stays within the count that starts again.
THEOREM CellTypesHold == CellSpec => []CellTypeOK
BY InitTypes, StepTypes, PTL DEF CellSpec

(***************************************************************************)
(* The resets                                                              *)
(***************************************************************************)

\* Until the machines are cranked they are all at rest; then the register holds
\* the word they share, and that holds the resets of both.
ResetsInv ==
  /\ phase \notin Link =>
       \A l \in Link : machine[l].state = "S_UP" /\ control[l] = {}
  /\ phase \in Link =>
       \A l \in Link : /\ csr[l] = control[l]
                       /\ control[l] = ResetsOf(machine[l].state)

\* Each way through a state machine leaves the resets of its state, and those of the
\* other machine.
LEMMA ResetsFollow ==
  ASSUME CellTypeOK, ResetsInv, NEW l \in Link, crank(l)
  PROVE  ResetsInv'
<1>1. phase \in Link /\ phase' \in Link
  BY DEF crank, Link
<1>2. control[l] = ResetsOf(machine[l].state)
  BY <1>1 DEF ResetsInv
<1>3. SUFFICES \A k \in Link : /\ csr'[k] = control'[k]
                               /\ control'[k] = ResetsOf(machine'[k].state)
  BY <1>1 DEF ResetsInv
<1>4. CASE LinkLost(l)
  <2>1. machine'[l].state = "S_DOWN1" /\ \A k \in Link \ {l} : machine'[k] = machine[k]
    BY <1>4 DEF LinkLost, Goto, CellTypeOK
  <2>2. UNCHANGED <<control, csr>>
    BY <1>4 DEF LinkLost, NoControl
  <2>3. QED
    BY <1>1, <1>2, <1>4, <2>1, <2>2 DEF ResetsInv, ResetsOf, LinkLost
<1>5. CASE LinkBack(l)
  <2>1. machine'[l].state = "S_UP" /\ \A k \in Link \ {l} : machine'[k] = machine[k]
    BY <1>5 DEF LinkBack, BackUp, CellTypeOK
  <2>2. UNCHANGED <<control, csr>>
    BY <1>5 DEF LinkBack, NoControl
  <2>3. QED
    BY <1>1, <1>2, <1>5, <2>1, <2>2 DEF ResetsInv, ResetsOf, LinkBack
<1>6. ASSUME NEW resets, NEW state, NEW limit,
             Control(l, resets), Goto(l, state, limit), resets = ResetsOf(state)
      PROVE  \A k \in Link : /\ csr'[k] = control'[k]
                             /\ control'[k] = ResetsOf(machine'[k].state)
  <2>1. /\ machine'[l].state = state
        /\ \A k \in Link \ {l} : machine'[k] = machine[k]
    BY <1>6 DEF Goto, CellTypeOK
  <2>2. /\ csr' = control'
        /\ control'[l] = resets
        /\ \A k \in Link \ {l} : control'[k] = control[k]
    BY <1>6 DEF Control, WriteResets, CellTypeOK
  <2>3. QED
    BY <1>1, <1>6, <2>1, <2>2 DEF ResetsInv
<1>7. CASE StartReset(l)
  <2>1. control[l] = {}
    BY <1>2, <1>7 DEF StartReset, ResetsOf
  <2>2. control[l] \cup {auroraReset} = ResetsOf("S_AURORA_RESET1")
    BY <2>1 DEF ResetsOf
  <2>3. control[l] \cup {auroraReset, gtReset} = ResetsOf("S_BOTH_RESET")
    BY <2>1 DEF ResetsOf
  <2>4. QED
    BY <1>6, <1>7, <2>2, <2>3 DEF StartReset
<1>8. CASE EndReset(l)
  <2>1. CASE machine[l].state = "S_AURORA_RESET1"
    <3>1. control[l] \ {auroraReset} = ResetsOf("S_DOWN2")
      BY <1>2, <2>1 DEF ResetsOf
    <3>2. QED
      BY <1>6, <1>8, <2>1, <3>1 DEF EndReset
  <2>2. CASE machine[l].state = "S_BOTH_RESET"
    <3>1. control[l] \ {gtReset} = ResetsOf("S_AURORA_RESET2")
      BY <1>2, <2>2, TwoResets DEF ResetsOf
    <3>2. QED
      BY <1>6, <1>8, <2>2, <3>1 DEF EndReset
  <2>3. CASE machine[l].state = "S_AURORA_RESET2"
    <3>1. control[l] \ {auroraReset} = ResetsOf("S_DOWN1")
      BY <1>2, <2>3 DEF ResetsOf
    <3>2. QED
      BY <1>6, <1>8, <2>3, <3>1 DEF EndReset
  <2>4. QED
    BY <1>8, <2>1, <2>2, <2>3 DEF EndReset
<1>9. CASE Stay(l)
  BY <1>1, <1>9 DEF Stay, NoControl, ResetsInv
<1>10. QED
  BY <1>4, <1>5, <1>7, <1>8, <1>9 DEF crank

\* Each step keeps the invariant.
LEMMA ResetsStep ==
  ASSUME CellTypeOK, ResetsInv, [CellNext]_CellVars
  PROVE  ResetsInv'
<1>1. CASE CellCommInit
  <2>1. \A l \in Link : machine[l].state = "S_UP" /\ control[l] = {}
    BY <1>1 DEF CellCommInit, ResetsInv, Link
  <2>2. UNCHANGED <<machine, control>>
    BY <1>1 DEF CellCommInit
  <2>3. phase' \in Link => csr' = [l \in Link |-> {}]
    BY <1>1 DEF CellCommInit, WriteResets, Link
  <2>4. QED
    BY <2>1, <2>2, <2>3 DEF ResetsInv, ResetsOf
<1>2. CASE CellCommStatus
  BY <1>2, ResetsFollow DEF CellCommStatus
<1>3. ASSUME NEW i \in Indices, CellCommSetFOFB(i)
      PROVE  ResetsInv'
  BY <1>3 DEF CellCommSetFOFB, WriteResets, ResetsInv, software
<1>4. ASSUME NEW l \in Link, ComesUp(l)
      PROVE  ResetsInv'
  BY <1>4 DEF ComesUp, ResetsInv, software
<1>5. ASSUME NEW lost \in SUBSET Link, GoDown(lost)
      PROVE  ResetsInv'
  BY <1>5 DEF GoDown, ResetsInv, software
<1>6. CASE CellTick
  BY <1>6 DEF CellTick, ResetsInv, software
<1>7. CASE UNCHANGED CellVars
  BY <1>7 DEF CellVars, software, hardware, ResetsInv
<1>8. QED
  BY <1>1, <1>2, <1>3, <1>4, <1>5, <1>6, <1>7 DEF CellNext

\* Whatever the two state machines and the command server write to the register
\* they share, it holds for each link the resets its state machine is in.
THEOREM ResetsAreTheStates == CellSpec => []LinksResetByTheirState
<1>1. CellInit => ResetsInv
  BY DEF CellInit, ResetsInv, Link
<1>2. CellTypeOK /\ ResetsInv /\ [CellNext]_CellVars => ResetsInv'
  BY ResetsStep
<1>3. ResetsInv => LinksResetByTheirState
  BY DEF ResetsInv, LinksResetByTheirState
<1>4. QED
  BY <1>1, <1>2, <1>3, CellTypesHold, PTL DEF CellSpec

(***************************************************************************)
(* Proofs about the delay of the ADC clock, for every range of at least     *)
(* four steps, any number of ADCs and every bound: whoever moves the delay, *)
(* and whatever the scans find, it stays within its range and within three  *)
(* steps of the delay scanned for.                                          *)
(***************************************************************************)

(***************************************************************************)
(* What a scan finds                                                       *)
(***************************************************************************)

\* A set of delays has a least one.
LEMMA LeastExists ==
  ASSUME NEW s \in SUBSET Nat, s # {}
  PROVE  \E d \in s : \A e \in s : d <= e
<1>1. PICK d \in s : \A e \in s : ~ (<<e, d>> \in OpToRel(<, Nat))
  BY NatLessThanWellFounded, WFMin
<1>2. \A e \in s : ~ (e < d)
  BY <1>1 DEF OpToRel
<1>3. QED
  BY <1>2

\* It has a greatest one.
LEMMA GreatestExists ==
  ASSUME NEW s \in SUBSET Delay, s # {}
  PROVE  \E d \in s : \A e \in s : e <= d
<1> DEFINE mirrored == {n \in Nat : \E d \in s : n = Range - 1 - d}
<1>1. \A d \in s : d \in Int /\ Range - 1 - d \in mirrored
  BY AfeAssumption DEF Delay
<1>2. mirrored \in SUBSET Nat /\ mirrored # {}
  BY <1>1
<1>3. PICK n \in mirrored : \A m \in mirrored : n <= m
  BY <1>2, LeastExists
<1>4. PICK d \in s : n = Range - 1 - d
  BY <1>3
<1>5. \A e \in s : e <= d
  <2>1. SUFFICES ASSUME NEW e \in s PROVE e <= d
    OBVIOUS
  <2>2. n <= Range - 1 - e
    BY <1>1, <1>3
  <2>3. QED
    BY <1>1, <1>4, <2>2, AfeAssumption
<1>6. QED
  BY <1>5

\* The ends of a range of delays that was found are delays.
LEMMA EndsOf ==
  ASSUME NEW s \in SUBSET Delay, s # {}
  PROVE  First(s) \in Delay /\ Last(s) \in Delay
<1>1. \E d \in s : \A e \in s : d <= e
  BY LeastExists, AfeAssumption DEF Delay
<1>2. \E d \in s : \A e \in s : e <= d
  BY GreatestExists
<1>3. QED
  BY <1>1, <1>2 DEF First, Last

\* The delay that a scan sets is one there is, whatever the clocks look like.
LEMMA ScanInRange ==
  ASSUME NEW high
  PROVE  Scanned(high) \in Delay
<1>1. Rises(high) \in SUBSET Delay
  BY AfeAssumption DEF Rises, Delay
<1>2. CASE Rises(high) # {}
  <2>1. First(Rises(high)) \in Delay /\ Last(Rises(high)) \in Delay
    BY <1>1, <1>2, EndsOf
  <2>2. (First(Rises(high)) + Last(Rises(high))) \div 2 \in Delay
    BY <2>1, AfeAssumption DEF Delay
  <2>3. QED
    BY <1>2, <2>2 DEF Scanned
<1>3. CASE Rises(high) = {}
  BY <1>3, AfeAssumption DEF Scanned, Delay, Least
<1>4. QED
  BY <1>2, <1>3

(***************************************************************************)
(* The invariant                                                           *)
(***************************************************************************)

DelayInv == AfeTypeOK /\ DelayNearScan

\* What moves the delay keeps it in its range and near the one scanned for.
DelayTypes ==
  /\ good \subseteq Delay
  /\ delay \in Delay /\ adcClkDelayBase \in Delay
  /\ jog \in -3 .. 3
  /\ DelayNearScan

\* A scan sets a delay in the range and begins the jogs anew.
LEMMA ScanKeeps ==
  ASSUME DelayInv, ScanAdcClkdelay
  PROVE  DelayTypes'
<1>1. PICK found \in Scans : /\ delay' = found
                             /\ adcClkDelayBase' = found
                             /\ good' \in {{d} : d \in {e \in Delay : e - found \in -3 .. 3}}
                             /\ UNCHANGED jog
  BY DEF ScanAdcClkdelay
<1>2. found \in Delay
  BY ScanInRange DEF Scans
<1>3. found - found = 0
  BY <1>2, AfeAssumption DEF Delay
<1>4. QED
  BY <1>1, <1>2, <1>3 DEF DelayInv, AfeTypeOK, DelayTypes, DelayNearScan

\* The next jog is a small one and stays in the range.
LEMMA JogInRange ==
  ASSUME AfeTypeOK
  PROVE  /\ NextJog \in -3 .. 3
         /\ adcClkDelayBase + NextJog \in Delay
<1> DEFINE wrapped == IF jog + 1 > 3 \/ adcClkDelayBase + jog + 1 >= Range THEN -3 ELSE jog + 1
<1>1. jog \in -3 .. 3 /\ adcClkDelayBase \in 0 .. Range - 1 /\ Range \in Nat /\ Range >= 4
  BY AfeAssumption DEF AfeTypeOK, Delay
<1>2. wrapped \in -3 .. 3 /\ adcClkDelayBase + wrapped < Range
  BY <1>1
<1>3. NextJog = IF adcClkDelayBase + wrapped < 0 THEN -adcClkDelayBase ELSE wrapped
  BY DEF NextJog
<1> HIDE DEF wrapped
<1>4. CASE adcClkDelayBase + wrapped < 0
  BY <1>1, <1>2, <1>3, <1>4 DEF Delay
<1>5. CASE ~ (adcClkDelayBase + wrapped < 0)
  BY <1>1, <1>2, <1>3, <1>5 DEF Delay
<1>6. QED
  BY <1>4, <1>5

\* A jog keeps near the scan.
LEMMA JogKeeps ==
  ASSUME DelayInv, AdcJogDelay, UNCHANGED <<good, adcClkDelayBase>>
  PROVE  DelayTypes'
<1>1. NextJog \in -3 .. 3 /\ adcClkDelayBase + NextJog \in Delay
  BY JogInRange DEF DelayInv
<1>2. adcClkDelayBase \in Int
  BY AfeAssumption DEF DelayInv, AfeTypeOK, Delay
<1>3. delay' - adcClkDelayBase' = NextJog
  BY <1>1, <1>2 DEF AdcJogDelay
<1>4. QED
  BY <1>1, <1>3 DEF AdcJogDelay, DelayInv, AfeTypeOK, DelayTypes, DelayNearScan

\* A step that moves no delay keeps all.
LEMMA RestKeeps ==
  ASSUME DelayInv, UNCHANGED <<good, delay, adcClkDelayBase, jog>>
  PROVE  DelayTypes'
BY DEF DelayInv, AfeTypeOK, DelayTypes, DelayNearScan

\* The check of the reference scans or leaves the delay alone.
LEMMA CheckKeeps ==
  ASSUME DelayInv, AfeCheck
  PROVE  DelayInv'
<1>1. /\ UNCHANGED <<evrLocked, markers, syncState, sinceEntry, upsets>>
      /\ turn' = "afeLOsyncCheck"
  BY DEF AfeCheck, EvrUnlocked, Relocked, NotYetRelocked, StaysLocked, NoScan,
         ScanAdcClkdelay, sync
<1>2. DelayTypes'
  BY ScanKeeps, RestKeeps
     DEF AfeCheck, EvrUnlocked, Relocked, NotYetRelocked, StaysLocked, NoScan
<1>3. firstLock' \in BOOLEAN /\ wasLocked' \in BOOLEAN
  <2>1. firstLock' \in {firstLock, FALSE} /\ wasLocked' \in {wasLocked, TRUE, FALSE}
    BY DEF AfeCheck, EvrUnlocked, Relocked, NotYetRelocked, StaysLocked, relock
  <2>2. firstLock \in BOOLEAN /\ wasLocked \in BOOLEAN
    BY DEF DelayInv, AfeTypeOK
  <2>3. QED
    BY <2>1, <2>2
<1>4. locked' \in -1 .. RelockTime + 1
  <2>1. locked' \in {-1, 0, locked}
    BY DEF AfeCheck, EvrUnlocked, Relocked, NotYetRelocked, StaysLocked, relock
  <2>2. locked \in -1 .. RelockTime + 1
    BY DEF DelayInv, AfeTypeOK
  <2>3. QED
    BY <2>1, <2>2, AfeAssumption
<1>5. QED
  BY <1>1, <1>2, <1>3, <1>4 DEF DelayInv, DelayTypes, AfeTypeOK

\* The check of the oscillators jogs or leaves the delay alone.
LEMMA SyncKeeps ==
  ASSUME DelayInv, AfeLOsyncCheck
  PROVE  DelayInv'
<1>1. /\ UNCHANGED <<evrLocked, markers, good, upsets, adcClkDelayBase,
                     firstLock, wasLocked, locked>>
      /\ turn' = "afeCheck"
  BY DEF AfeLOsyncCheck, JogPass, OnThisPass, environment, relock
<1>2. DelayTypes'
  BY <1>1, JogKeeps, RestKeeps
     DEF AfeLOsyncCheck, JogPass, Jogs, WaitForMarkers, MarkersLost, MarkersGood, InStep, NoJog
<1>3. syncState' \in 0 .. 2 /\ sinceEntry' \in 0 .. SyncTime + 1
  BY AfeAssumption DEF AfeLOsyncCheck, JogPass, Jogs, WaitForMarkers, MarkersLost,
         MarkersGood, InStep, Enter, sync, DelayInv, AfeTypeOK
<1>4. QED
  BY <1>1, <1>2, <1>3 DEF DelayInv, DelayTypes, AfeTypeOK

\* Each step keeps the invariant.
LEMMA DelayStep ==
  ASSUME DelayInv, [AfeNext]_AfeVars
  PROVE  DelayInv'
<1>1. CASE AfeCheck
  BY <1>1, CheckKeeps
<1>2. CASE AfeLOsyncCheck
  BY <1>2, SyncKeeps
<1>3. CASE RescanAdcClkDelay
  <2>1. DelayTypes'
    BY <1>3, ScanKeeps DEF RescanAdcClkDelay
  <2>2. upsets' \in 0 .. MaxUpsets
    BY <1>3, AfeAssumption DEF RescanAdcClkDelay, DelayInv, AfeTypeOK
  <2>3. UNCHANGED <<evrLocked, markers>>
    BY <1>3 DEF RescanAdcClkDelay, ScanAdcClkdelay
  <2>4. QED
    BY <1>3, <2>1, <2>2, <2>3
       DEF RescanAdcClkDelay, relock, sync, DelayInv, DelayTypes, AfeTypeOK
<1>4. CASE EvrLocks
  BY <1>4, RestKeeps DEF EvrLocks, Software, relock, sync, DelayInv, DelayTypes, AfeTypeOK
<1>5. CASE MarkersSync
  BY <1>5, RestKeeps DEF MarkersSync, Software, relock, sync, DelayInv, DelayTypes, AfeTypeOK
<1>6. CASE Upset
  <2>1. upsets' \in 0 .. MaxUpsets
    BY <1>6, AfeAssumption DEF Upset, DelayInv, AfeTypeOK
  <2>2. QED
    BY <1>6, <2>1, RestKeeps DEF Upset, Software, relock, sync, DelayInv, DelayTypes, AfeTypeOK
<1>7. CASE Passes
  <2>1. locked' \in -1 .. RelockTime + 1 /\ sinceEntry' \in 0 .. SyncTime + 1
    BY <1>7, AfeAssumption DEF Passes, Least, DelayInv, AfeTypeOK
  <2>2. QED
    BY <1>7, <2>1, RestKeeps DEF Passes, environment, DelayInv, DelayTypes, AfeTypeOK
<1>8. CASE UNCHANGED AfeVars
  BY <1>8, RestKeeps DEF AfeVars, environment, relock, sync, DelayInv, DelayTypes, AfeTypeOK
<1>9. QED
  BY <1>1, <1>2, <1>3, <1>4, <1>5, <1>6, <1>7, <1>8 DEF AfeNext

\* So it is at first.
LEMMA DelayStarts ==
  ASSUME AfeInit
  PROVE  DelayInv
<1>1. good \subseteq Delay /\ 0 \in Delay
  BY AfeAssumption DEF AfeInit, Delay
<1>2. evrLocked \in BOOLEAN /\ markers \in BOOLEAN /\ firstLock \in BOOLEAN /\ wasLocked \in BOOLEAN
  BY DEF AfeInit
<1>3. locked \in -1 .. RelockTime + 1 /\ sinceEntry \in 0 .. SyncTime + 1 /\ upsets \in 0 .. MaxUpsets
  BY AfeAssumption DEF AfeInit
<1>4. /\ delay \in Delay /\ adcClkDelayBase \in Delay
      /\ jog \in -3 .. 3 /\ syncState \in 0 .. 2
      /\ delay - adcClkDelayBase \in -3 .. 3
  BY <1>1 DEF AfeInit
<1>5. turn \in {"afeCheck", "afeLOsyncCheck"}
  BY DEF AfeInit
<1>6. QED
  BY <1>1, <1>2, <1>3, <1>4, <1>5 DEF DelayInv, AfeTypeOK, DelayNearScan

\* The variables have their types: the delay is one of those the hardware has,
\* wherever the edges are found and however often it is jogged from there.
THEOREM DelayInRange == AfeSpec => []AfeTypeOK
<1>1. DelayInv => AfeTypeOK
  BY DEF DelayInv
<1>2. QED
  BY <1>1, DelayStarts, DelayStep, PTL DEF AfeSpec

\* The jogs stay with the delay scanned for last, though a scan may come between
\* any two of them and the number of the jog is kept.
THEOREM JogsStayNear == AfeSpec => []DelayNearScan
<1>1. DelayInv => DelayNearScan
  BY DEF DelayInv
<1>2. QED
  BY <1>1, DelayStarts, DelayStep, PTL DEF AfeSpec

(***************************************************************************)
(* Proofs about EventReceiver: the types, the triggers of the system that    *)
(* the IOC cannot take away, and the time of day read in parts.              *)
(***************************************************************************)

\* The table is the one of the start-up until that ends, and then keeps the system's.
TableOK ==
  /\ evrPhase = "listen" =>
       action = [e \in Events |-> IF e = Heartbeat THEN {WriteFifo, 0}
                                  ELSE IF e = Pps THEN {WriteFifo, 3} ELSE {}]
  /\ SystemTriggersHold

\* The seconds read are not later than those at which the ticks were read, nor these
\* than the seconds now: if the first and the last are the same, so are all three.
ReaderOK ==
  /\ reader \in [at : {"idle", "ticks", "seconds", "done"}, s : Nat, t : Nat, now : Nat \X Nat]
  /\ reader.s <= seconds
  /\ reader.at \in {"seconds", "done"} =>
       /\ reader.t = reader.now[2]
       /\ reader.s <= reader.now[1] /\ reader.now[1] <= seconds
  /\ TimeIsConsistent

EvrInv == EvrTypeOK /\ TableOK /\ ReaderOK

-----------------------------------------------------------------------------
(***************************************************************************)
(* The types.                                                              *)
(***************************************************************************)

\* Events of the start-up are among those with an entry in the table.
LEMMA EventFacts ==
  /\ Heartbeat \in Events /\ Pps \in Events /\ Heartbeat # Pps
  /\ 0 \notin Events
  /\ IocTriggers \cap (0 .. 3) = {} /\ -1 \notin IocTriggers
  /\ FifoDepth \in Nat \ {0} /\ Patience \in Nat /\ Ticks \in Nat \ {0} /\ MaxSeconds \in Nat
BY EvrAssumption DEF EvrAssumption

\* An entry that is replaced by a set of actions leaves a table.
LEMMA SetTypes ==
  \A table \in [Events -> SUBSET Action], event \in Events, actions \in SUBSET Action :
    Set(table, event, actions) \in [Events -> SUBSET Action]
BY DEF Set

\* So does one to which an action is added, for an event or for none.
LEMMA AddTypes ==
  \A table \in [Events -> SUBSET Action], event \in Events \cup {0}, trigger \in SystemTriggers :
    Add(table, event, trigger) \in [Events -> SUBSET Action]
<1> SUFFICES ASSUME NEW table \in [Events -> SUBSET Action], NEW event \in Events,
                    NEW trigger \in SystemTriggers
             PROVE  Set(table, event, table[event] \cup {trigger}) \in [Events -> SUBSET Action]
  BY DEF Add
<1>1. table[event] \cup {trigger} \in SUBSET Action
  BY DEF Action
<1> QED  BY <1>1, SetTypes

\* The table that the start-up leaves is one.
LEMMA StartedTypes ==
  \A table \in [Events -> SUBSET Action] : Started(table) \in [Events -> SUBSET Action]
<1> SUFFICES ASSUME NEW table \in [Events -> SUBSET Action]
             PROVE  Started(table) \in [Events -> SUBSET Action]
  OBVIOUS
<1>1. {0} \in SUBSET Action /\ {} \in SUBSET Action
      /\ 1 \in SystemTriggers /\ 2 \in SystemTriggers /\ 3 \in SystemTriggers
      /\ SinglePass \in Events \cup {0} /\ AutoTrim \in Events \cup {0}
      /\ Pps \in Events \cup {0}
  BY EvrAssumption DEF EvrAssumption, Action, SystemTriggers
<1> DEFINE first == Set(table, Heartbeat, {0})
           both == Set(first, Pps, {})
           single == Add(both, SinglePass, 1)
           trim == Add(single, AutoTrim, 2)
<1>2. Started(table) = Add(trim, Pps, 3)
  BY DEF Started
<1>3. first \in [Events -> SUBSET Action]
  BY <1>1, EventFacts, SetTypes
<1>4. both \in [Events -> SUBSET Action]
  <2> HIDE DEF first
  <2> QED  BY <1>1, <1>3, EventFacts, SetTypes
<1>5. single \in [Events -> SUBSET Action]
  <2> HIDE DEF both
  <2> QED  BY <1>1, <1>4, AddTypes
<1>6. trim \in [Events -> SUBSET Action]
  <2> HIDE DEF single
  <2> QED  BY <1>1, <1>5, AddTypes
<1>7. Add(trim, Pps, 3) \in [Events -> SUBSET Action]
  <2> HIDE DEF trim
  <2> QED  BY <1>1, <1>6, AddTypes
<1> HIDE DEF trim
<1> QED  BY <1>2, <1>7

\* Every step keeps the types.
LEMMA TypesStep == EvrTypeOK /\ [EvrNext]_EvrVars => EvrTypeOK'
<1> SUFFICES ASSUME EvrTypeOK, [EvrNext]_EvrVars PROVE EvrTypeOK'
  OBVIOUS
<1> USE EventFacts DEF EvrTypeOK
<1>1. ASSUME NEW e \in Events, evGot(e) PROVE EvrTypeOK'
  BY <1>1 DEF evGot
<1>2. ASSUME NEW e \in Events, Arrives(e) PROVE EvrTypeOK'
  BY <1>2 DEF Arrives
<1>3. CASE EndOfListening
  BY <1>3, StartedTypes DEF EndOfListening
<1>4. ASSUME NEW e \in Events, NEW triggers \in SUBSET IocTriggers, EventTriggers(e, triggers)
      PROVE EvrTypeOK'
  <2>1. triggers \cup (action[e] \ IocTriggers) \in SUBSET Action
    BY DEF Action
  <2>2. action' \in [Events -> SUBSET Action]
    BY <1>4, <2>1, SetTypes DEF EventTriggers
  <2> QED  BY <1>4, <2>2 DEF EventTriggers
<1>5. CASE ReadSeconds \/ ReadTicks \/ ReadSecondsAgain \/ Return
  <2>1. UNCHANGED <<evrPhase, action, fifo, got, waited, seconds, ticks>>
    BY <1>5 DEF ReadSeconds, ReadTicks, ReadSecondsAgain, Return, Unread
  <2>2. reader'.at \in {"idle", "ticks", "seconds", "done"}
    <3>1. CASE ReadSeconds  BY <3>1 DEF ReadSeconds, Idle
    <3>2. CASE ReadTicks
      <4>1. reader' = [reader EXCEPT !.at = "seconds", !.t = ticks, !.now = <<seconds, ticks>>]
        BY <3>2 DEF ReadTicks
      <4> QED  BY <4>1
    <3>3. CASE ReadSecondsAgain  BY <3>3 DEF ReadSecondsAgain
    <3>4. CASE Return  BY <3>4 DEF Return, Idle
    <3> QED  BY <1>5, <3>1, <3>2, <3>3, <3>4
  <2> QED  BY <2>1, <2>2
<1>6. CASE EvrTick
  <2>1. seconds' \in 0 .. MaxSeconds
    BY <1>6 DEF EvrTick
  <2>2. ticks' \in 0 .. Ticks - 1
    BY <1>6 DEF EvrTick
  <2> QED  BY <1>6, <2>1, <2>2 DEF EvrTick
<1>7. CASE EvrWait
  BY <1>7 DEF EvrWait
<1>8. CASE UNCHANGED EvrVars
  BY <1>8 DEF EvrVars
<1> QED  BY <1>1, <1>2, <1>3, <1>4, <1>5, <1>6, <1>7, <1>8 DEF EvrNext

-----------------------------------------------------------------------------
(***************************************************************************)
(* The triggers of the system.                                             *)
(***************************************************************************)

\* The entry of an event after another one, or the same, was replaced.
LEMMA SetEntry ==
  \A table \in [Events -> SUBSET Action], event \in Events, actions \in SUBSET Action, e \in Events :
    Set(table, event, actions)[e] = IF e = event THEN actions ELSE table[e]
BY DEF Set

\* The entries that the start-up leaves are the triggers of the system, whatever the
\* table was before: those of the heartbeat and the pulse are set anew, and the other
\* events had none.
LEMMA StartedEntries ==
  \A table \in [Events -> SUBSET Action], e \in Events :
    (e \in {Heartbeat, Pps} \/ table[e] = {}) =>
      Started(table)[e] \ IocTriggers = SystemTriggersOf(e)
<1> SUFFICES ASSUME NEW table \in [Events -> SUBSET Action], NEW e \in Events,
                    e \in {Heartbeat, Pps} \/ table[e] = {}
             PROVE  Started(table)[e] \ IocTriggers = SystemTriggersOf(e)
  OBVIOUS
<1>1. {0} \in SUBSET Action /\ {} \in SUBSET Action
      /\ 1 \in SystemTriggers /\ 2 \in SystemTriggers /\ 3 \in SystemTriggers
      /\ SinglePass \in Events \cup {0} /\ AutoTrim \in Events \cup {0}
      /\ Pps \in Events \cup {0}
  BY EvrAssumption DEF EvrAssumption, Action, SystemTriggers
<1> DEFINE first == Set(table, Heartbeat, {0})
           both == Set(first, Pps, {})
           single == Add(both, SinglePass, 1)
           trim == Add(single, AutoTrim, 2)
           last == Add(trim, Pps, 3)
<1>2. Started(table) = last
  BY DEF Started
<1>3. first \in [Events -> SUBSET Action]
  BY <1>1, EventFacts, SetTypes
<1>4. both \in [Events -> SUBSET Action]
  <2> HIDE DEF first
  <2> QED  BY <1>1, <1>3, EventFacts, SetTypes
<1>5. single \in [Events -> SUBSET Action]
  <2> HIDE DEF both
  <2> QED  BY <1>1, <1>4, AddTypes
<1>6. trim \in [Events -> SUBSET Action]
  <2> HIDE DEF single
  <2> QED  BY <1>1, <1>5, AddTypes
<1>a. first[e] = IF e = Heartbeat THEN {0} ELSE table[e]
  BY <1>1, EventFacts, SetEntry
<1>b. both[e] = IF e = Pps THEN {} ELSE first[e]
  <2> HIDE DEF first
  <2> QED  BY <1>1, <1>3, EventFacts, SetEntry
<1>c. single[e] = IF e = SinglePass THEN both[e] \cup {1} ELSE both[e]
  <2> HIDE DEF both
  <2> QED  BY <1>1, <1>4, EventFacts DEF Add, Set
<1>d. trim[e] = IF e = AutoTrim THEN single[e] \cup {2} ELSE single[e]
  <2> HIDE DEF single
  <2> QED  BY <1>1, <1>5, EventFacts DEF Add, Set
<1>7. last[e] = IF e = Pps THEN trim[e] \cup {3} ELSE trim[e]
  <2> HIDE DEF trim
  <2> QED  BY <1>1, <1>6, EventFacts DEF Add, Set
<1> HIDE DEF first, both, single, trim, last
<1>8. both[e] = IF e = Heartbeat THEN {0} ELSE {}
  BY <1>a, <1>b, EventFacts
<1>9. \A t : t \in last[e] <=>
        ((t = 0 /\ e = Heartbeat) \/ (t = 1 /\ e = SinglePass)
         \/ (t = 2 /\ e = AutoTrim) \/ (t = 3 /\ e = Pps))
  BY <1>c, <1>d, <1>7, <1>8
<1>10. \A t : t \in SystemTriggersOf(e) <=>
         ((t = 0 /\ e = Heartbeat) \/ (t = 1 /\ e = SinglePass)
          \/ (t = 2 /\ e = AutoTrim) \/ (t = 3 /\ e = Pps))
  BY DEF SystemTriggersOf, SystemTriggers
<1>11. last[e] = SystemTriggersOf(e)
  BY <1>9, <1>10
<1>12. SystemTriggersOf(e) \cap IocTriggers = {}
  BY EventFacts DEF SystemTriggersOf, SystemTriggers
<1> QED  BY <1>2, <1>11, <1>12

\* What the IOC assigns adds to the triggers of the system and takes none away.
LEMMA TableStep == EvrTypeOK /\ TableOK /\ [EvrNext]_EvrVars => TableOK'
<1> SUFFICES ASSUME EvrTypeOK, TableOK, [EvrNext]_EvrVars PROVE TableOK'
  OBVIOUS
<1>t. action \in [Events -> SUBSET Action] /\ evrPhase \in {"listen", "run"}
  BY DEF EvrTypeOK
<1>1. CASE UNCHANGED <<evrPhase, action>>
  BY <1>1 DEF TableOK, SystemTriggersHold, SystemTriggersOf
<1>2. CASE EndOfListening
  <2>1. evrPhase = "listen" /\ evrPhase' = "run" /\ action' = Started(action)
    BY <1>2 DEF EndOfListening
  <2>2. \A e \in Events : e \in {Heartbeat, Pps} \/ action[e] = {}
    BY <2>1 DEF TableOK
  <2>3. \A e \in Events : action'[e] \ IocTriggers = SystemTriggersOf(e)
    BY <1>t, <2>1, <2>2, StartedEntries
  <2> QED  BY <2>1, <2>3 DEF TableOK, SystemTriggersHold
<1>3. ASSUME NEW event \in Events, NEW triggers \in SUBSET IocTriggers,
             EventTriggers(event, triggers)
      PROVE  TableOK'
  <2>1. evrPhase = "run" /\ evrPhase' = "run"
        /\ action' = Set(action, event, triggers \cup (action[event] \ IocTriggers))
    BY <1>3 DEF EventTriggers
  <2>2. triggers \cup (action[event] \ IocTriggers) \in SUBSET Action
    BY <1>t DEF Action
  <2>3. ASSUME NEW e \in Events
        PROVE  action'[e] \ IocTriggers = SystemTriggersOf(e)
    <3>1. action[e] \ IocTriggers = SystemTriggersOf(e)
      BY <2>1 DEF TableOK, SystemTriggersHold
    <3>2. action'[e] = IF e = event THEN triggers \cup (action[event] \ IocTriggers) ELSE action[e]
      BY <1>t, <2>1, <2>2, SetEntry
    <3>3. (triggers \cup (action[event] \ IocTriggers)) \ IocTriggers = action[event] \ IocTriggers
      OBVIOUS
    <3> QED  BY <3>1, <3>2, <3>3
  <2> QED  BY <2>1, <2>3 DEF TableOK, SystemTriggersHold
<1> QED
  BY <1>1, <1>2, <1>3 DEF EvrNext, EvrVars, evGot, Arrives, ReadSeconds, ReadTicks,
     ReadSecondsAgain, Return, Unread, EvrTick, EvrWait

-----------------------------------------------------------------------------
(***************************************************************************)
(* The time of day.                                                        *)
(***************************************************************************)

\* Time goes on while it is read, so that seconds read twice the same did not change
\* when the ticks were read in between.
LEMMA ReaderStep == EvrTypeOK /\ ReaderOK /\ [EvrNext]_EvrVars => ReaderOK'
<1> SUFFICES ASSUME EvrTypeOK, ReaderOK, [EvrNext]_EvrVars PROVE ReaderOK'
  OBVIOUS
<1>t. seconds \in Nat /\ ticks \in Nat
  BY EventFacts DEF EvrTypeOK
<1>r. reader \in [at : {"idle", "ticks", "seconds", "done"}, s : Nat, t : Nat, now : Nat \X Nat]
  BY DEF ReaderOK
<1>1. CASE UNCHANGED <<seconds, ticks, reader>>
  BY <1>1 DEF ReaderOK, TimeIsConsistent
<1>2. CASE ReadSeconds
  <2>1. seconds' = seconds
        /\ reader' = [at |-> "ticks", s |-> seconds, t |-> 0, now |-> <<0, 0>>]
    BY <1>2 DEF ReadSeconds, Unread, Idle
  <2> QED  BY <1>t, <2>1 DEF ReaderOK, TimeIsConsistent
<1>3. CASE ReadTicks
  <2>1. seconds' = seconds /\ ticks' = ticks
        /\ reader' = [at |-> "seconds", s |-> reader.s, t |-> ticks, now |-> <<seconds, ticks>>]
    BY <1>3, <1>r DEF ReadTicks, Unread
  <2>2. reader.s \in Nat /\ reader.s <= seconds
    BY <1>r DEF ReaderOK
  <2> QED  BY <1>t, <2>1, <2>2 DEF ReaderOK, TimeIsConsistent
<1>4. CASE ReadSecondsAgain
  <2>1. reader.at = "seconds" /\ seconds' = seconds
        /\ reader' = [at |-> IF seconds = reader.s THEN "done" ELSE "ticks", s |-> seconds,
                      t |-> reader.t, now |-> reader.now]
    BY <1>4, <1>r DEF ReadSecondsAgain, Unread
  <2>2. /\ reader.s \in Nat /\ reader.t \in Nat /\ reader.now \in Nat \X Nat
        /\ reader.t = reader.now[2]
        /\ reader.s <= reader.now[1] /\ reader.now[1] <= seconds
    BY <1>r, <2>1 DEF ReaderOK
  <2>3. CASE seconds = reader.s
    <3>1. reader.now[1] = seconds
      BY <1>t, <2>2, <2>3
    <3>2. reader.now = <<seconds, reader.t>>
      BY <2>2, <3>1
    <3>3. reader' = [at |-> "done", s |-> seconds, t |-> reader.t, now |-> <<seconds, reader.t>>]
      BY <2>1, <2>3, <3>2
    <3> QED  BY <1>t, <2>1, <2>2, <3>3 DEF ReaderOK, TimeIsConsistent
  <2>4. CASE seconds # reader.s
    BY <1>t, <2>1, <2>2, <2>4 DEF ReaderOK, TimeIsConsistent
  <2> QED  BY <2>3, <2>4
<1>5. CASE Return
  <2>1. seconds' = seconds /\ reader' = [at |-> "idle", s |-> 0, t |-> 0, now |-> <<0, 0>>]
    BY <1>5 DEF Return, Unread, Idle
  <2> QED  BY <1>t, <2>1 DEF ReaderOK, TimeIsConsistent
<1>6. CASE EvrTick
  <2>1. reader' = reader /\ seconds' \in Nat /\ seconds <= seconds'
    BY <1>6, <1>t DEF EvrTick
  <2>2. reader.s \in Nat /\ reader.now[1] \in Nat
    BY <1>r
  <2>3. reader.s <= seconds'
    BY <1>t, <2>1, <2>2 DEF ReaderOK
  <2>4. reader.now[1] <= seconds => reader.now[1] <= seconds'
    BY <1>t, <2>1, <2>2
  <2> QED  BY <2>1, <2>3, <2>4 DEF ReaderOK, TimeIsConsistent
<1> QED
  BY <1>1, <1>2, <1>3, <1>4, <1>5, <1>6 DEF EvrNext, EvrVars, evGot, Arrives, EndOfListening,
     EventTriggers, EvrWait

-----------------------------------------------------------------------------

\* What the start-up begins with.
LEMMA EvrStarts == EvrInit => EvrInv
<1> SUFFICES ASSUME EvrInit PROVE EvrInv
  OBVIOUS
<1>1. action = [e \in Events |-> IF e = Heartbeat THEN {WriteFifo, 0}
                                ELSE IF e = Pps THEN {WriteFifo, 3} ELSE {}]
  BY EventFacts DEF EvrInit, Set
<1>2. action \in [Events -> SUBSET Action]
  <2>1. {WriteFifo, 0} \in SUBSET Action /\ {WriteFifo, 3} \in SUBSET Action
    BY DEF Action, SystemTriggers
  <2> QED  BY <1>1, <2>1
<1>3. EvrTypeOK
  <2>1. fifo = [e \in Events |-> 0] /\ fifo \in [Events -> 0 .. FifoDepth]
    BY EventFacts DEF EvrInit
  <2>2. got \in [{Heartbeat, Pps} -> 0 .. 2]
    BY DEF EvrInit
  <2>3. waited \in 0 .. Patience + 1 /\ seconds \in 0 .. MaxSeconds /\ ticks \in 0 .. Ticks - 1
    BY EventFacts DEF EvrInit
  <2>4. reader.at = "idle" /\ evrPhase = "listen"
    BY DEF EvrInit, Idle
  <2> QED  BY <1>2, <2>1, <2>2, <2>3, <2>4 DEF EvrTypeOK
<1>4. TableOK
  BY <1>1 DEF EvrInit, TableOK, SystemTriggersHold
<1>5. ReaderOK
  BY DEF EvrInit, ReaderOK, TimeIsConsistent, Idle
<1> QED  BY <1>3, <1>4, <1>5 DEF EvrInv

\* The invariant is inductive.
LEMMA EvrStep == EvrInv /\ [EvrNext]_EvrVars => EvrInv'
BY TypesStep, TableStep, ReaderStep DEF EvrInv

\* Whatever the IOC assigns to events, before or after the start-up, heartbeat, single
\* pass, auto trim and pulse per second keep their triggers and no event gets another.
THEOREM TriggersStayTheSystems == EvrSpec => []SystemTriggersHold
<1>1. EvrInv => SystemTriggersHold
  BY DEF EvrInv, TableOK
<1> QED  BY EvrStarts, EvrStep, <1>1, PTL DEF EvrSpec

\* evrCurrentTime returns a time that was: its seconds belong to its ticks.
THEOREM TimeReadWas == EvrSpec => []TimeIsConsistent
<1>1. EvrInv => TimeIsConsistent
  BY DEF EvrInv, ReaderOK
<1> QED  BY EvrStarts, EvrStep, <1>1, PTL DEF EvrSpec

\* The counts of the start-up and the entries of the FIFO stay within their bounds.
THEOREM EvrTypesHold == EvrSpec => []EvrTypeOK
<1>1. EvrInv => EvrTypeOK
  BY DEF EvrInv
<1> QED  BY EvrStarts, EvrStep, <1>1, PTL DEF EvrSpec
=============================================================================
