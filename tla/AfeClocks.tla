------------------------------ MODULE AfeClocks ------------------------------
(***************************************************************************)
(* The delay of the ADC clock (afePLL.c): it is scanned for when the event  *)
(* receiver's reference appears, again when it comes back or the IOC asks,  *)
(* and jogged when the local oscillators do not stay in step with the SA    *)
(* marker.  Three pieces of code move the one delay: afeCheck and           *)
(* afeLOsyncCheck on every pass of the main loop, and the command server.   *)
(*                                                                         *)
(* The event receiver, the markers, the edges of the ADC clocks and the     *)
(* local oscillators are external: the oscillators stay in step when the    *)
(* delay is one of those in "good", and a scan moves what is good.          *)
(***************************************************************************)
EXTENDS Integers, FiniteSets

CONSTANTS
  Range,      \* DELAY_ADJUST_RANGE
  Adc,        \* ADCs whose clock is sampled
  RelockTime, \* the reference has to be back for longer: a second
  SyncTime,   \* the markers have to be good for longer: 10 seconds
  MaxUpsets   \* bound on what goes wrong with the timing system and on rescans

ASSUME AfeAssumption ==
  /\ Range \in Nat /\ Range >= 4
  /\ IsFiniteSet(Adc)
  /\ RelockTime \in Nat /\ SyncTime \in Nat /\ MaxUpsets \in Nat

Delay == 0 .. Range - 1

VARIABLES
  evrLocked, \* not CLOCKSTATUS_EVR_UNLOCKED
  markers,   \* CLOCKSTATUS_FA_SYNCED and CLOCKSTATUS_SA_SYNCED
  good,      \* the delays with which the local oscillators stay in step
  delay,     \* the delay in the hardware
  adcClkDelayBase, jog,
  firstLock, wasLocked,
  locked,    \* time since whenLocked, -1 if that is zero
  syncState, \* the state of afeLOsyncCheck
  sinceEntry,\* time since secondsAtStateEntry
  turn,      \* which check is next on this pass of the main loop
  upsets

environment == <<evrLocked, markers, good, upsets>>
relock == <<firstLock, wasLocked, locked>>
sync == <<syncState, sinceEntry>>
AfeVars == <<environment, delay, adcClkDelayBase, jog, relock, sync, turn>>

AfeTypeOK ==
  /\ evrLocked \in BOOLEAN /\ markers \in BOOLEAN
  /\ good \subseteq Delay
  /\ delay \in Delay /\ adcClkDelayBase \in Delay
  /\ jog \in -3 .. 3
  /\ firstLock \in BOOLEAN /\ wasLocked \in BOOLEAN
  /\ locked \in -1 .. RelockTime + 1
  /\ syncState \in 0 .. 2
  /\ sinceEntry \in 0 .. SyncTime + 1
  /\ turn \in {"afeCheck", "afeLOsyncCheck"}
  /\ upsets \in 0 .. MaxUpsets

Least(i, j) == IF i < j THEN i ELSE j

\* Of the delays near the one scanned for, one at least is good.
MayBeGood(g, base) == \E d \in g : d - base \in -3 .. 3

AfeInit ==
  /\ evrLocked \in BOOLEAN /\ markers = FALSE
  /\ good \in {{d} : d \in Delay}
  /\ MayBeGood(good, 0)
  /\ delay = 0 /\ adcClkDelayBase = 0 /\ jog = 0
  /\ firstLock = TRUE /\ wasLocked = FALSE /\ locked = -1
  /\ syncState = 0 /\ sinceEntry = 0
  /\ turn = "afeCheck"
  /\ upsets = 0

(***************************************************************************)
(* scanAdcClkdelay: high[d] is the set of ADCs whose clock is high when it  *)
(* is sampled with delay d.                                                *)
(***************************************************************************)
Rises(high) == {d \in 1 .. Range - 1 : high[d] \ high[d - 1] # {}}
Falls(high) == {d \in 1 .. Range - 1 : high[d - 1] \ high[d] # {}}

First(s) == CHOOSE d \in s : \A e \in s : d <= e
Last(s) == CHOOSE d \in s : \A e \in s : e <= d

Scanned(high) ==
  IF Rises(high) # {} THEN (First(Rises(high)) + Last(Rises(high))) \div 2
  ELSE IF Falls(high) = {} THEN Least(16, Range - 1)
  ELSE IF Last(Falls(high)) < Range \div 2 THEN Range - 1 ELSE 0

\* The clocks are square waves: each ADC's has at most one rise and one fall
\* within the range, in either order.
Waves ==
  {[d \in Delay |-> {a \in Adc : IF rise[a] <= fall[a] THEN d \in rise[a] .. fall[a] - 1
                                 ELSE d \notin fall[a] .. rise[a] - 1}] :
     rise \in [Adc -> 0 .. Range], fall \in [Adc -> 0 .. Range]}

Scans == {Scanned(high) : high \in Waves}

ScanAdcClkdelay ==
  \E found \in Scans :
    /\ delay' = found
    /\ adcClkDelayBase' = found
    /\ good' \in {{d} : d \in {e \in Delay : e - found \in -3 .. 3}}
    /\ UNCHANGED <<evrLocked, markers, jog>>

NoScan == UNCHANGED <<evrLocked, markers, good, delay, adcClkDelayBase, jog>>

(***************************************************************************)
(* afeCheck                                                                *)
(***************************************************************************)
EvrUnlocked ==
  /\ ~evrLocked
  /\ wasLocked' = FALSE /\ locked' = -1
  /\ UNCHANGED firstLock
  /\ NoScan

Relocked ==
  /\ evrLocked /\ ~wasLocked
  /\ firstLock \/ locked > RelockTime
  /\ wasLocked' = TRUE
  /\ locked' = IF locked = -1 THEN 0 ELSE locked
  /\ firstLock' = FALSE
  /\ ScanAdcClkdelay

NeverRelocked == \* mutant: whenLocked is taken anew on every pass
  /\ evrLocked /\ ~wasLocked
  /\ ~firstLock /\ locked <= RelockTime
  /\ locked' = 0
  /\ UNCHANGED <<firstLock, wasLocked>>
  /\ NoScan

NotYetRelocked ==
  /\ evrLocked /\ ~wasLocked
  /\ ~firstLock /\ locked <= RelockTime
  /\ locked' = IF locked = -1 THEN 0 ELSE locked
  /\ UNCHANGED <<firstLock, wasLocked>>
  /\ NoScan

StaysLocked ==
  /\ evrLocked /\ wasLocked
  /\ UNCHANGED relock
  /\ NoScan

AfeCheck ==
  /\ turn = "afeCheck"
  /\ EvrUnlocked \/ Relocked \/ NotYetRelocked \/ StaysLocked
  /\ turn' = "afeLOsyncCheck"
  /\ UNCHANGED <<sync, upsets>>

(***************************************************************************)
(* afeLOsyncCheck                                                          *)
(***************************************************************************)
NextJogUnbounded == \* mutant: the ends of the range are not looked at
  IF jog + 1 > 3 THEN -3 ELSE jog + 1

NextJogUp == \* mutant: after the last step back to the delay scanned for
  IF jog + 1 > 3 \/ adcClkDelayBase + jog + 1 >= Range THEN 0 ELSE jog + 1

NextJog ==
  LET wrapped == IF jog + 1 > 3 \/ adcClkDelayBase + jog + 1 >= Range THEN -3 ELSE jog + 1
  IN IF adcClkDelayBase + wrapped < 0 THEN -adcClkDelayBase ELSE wrapped

AdcJogFurther == \* mutant: the delay is moved from where it is
  /\ jog' = NextJog
  /\ delay' = (delay + NextJog) % Range

AdcJogDelay ==
  /\ jog' = NextJog
  /\ delay' = adcClkDelayBase + NextJog

Enter(state) == syncState' = state /\ sinceEntry' = 0
NoJog == UNCHANGED <<jog, delay>>

\* The local oscillators may be found out of step, unless the delay is good.
OutOfStep == delay \notin good

WaitForMarkers ==
  /\ syncState = 0
  /\ IF markers THEN Enter(1) ELSE UNCHANGED sync
  /\ NoJog

MarkersLost ==
  /\ syncState \in {1, 2} /\ ~markers
  /\ syncState' = 0 /\ UNCHANGED sinceEntry
  /\ NoJog

MarkersGood ==
  /\ syncState = 1 /\ markers
  /\ syncState' = IF sinceEntry > SyncTime THEN 2 ELSE 1
  /\ UNCHANGED sinceEntry
  /\ NoJog

Jogs ==
  /\ syncState = 2 /\ markers
  /\ OutOfStep
  /\ AdcJogDelay
  /\ Enter(1)

\* In step, or not found out of step this time.
InStep ==
  /\ syncState = 2 /\ markers
  /\ UNCHANGED sync
  /\ NoJog

OnThisPass == /\ turn = "afeLOsyncCheck"
              /\ turn' = "afeCheck"
              /\ UNCHANGED <<environment, adcClkDelayBase, relock>>

JogPass == OnThisPass /\ Jogs
AfeLOsyncCheck ==
  \/ JogPass
  \/ OnThisPass /\ (WaitForMarkers \/ MarkersLost \/ MarkersGood \/ InStep)

\* The IOC asks for a scan (io_fpgaReset), between two passes.
RescanAdcClkDelay ==
  /\ turn = "afeCheck"
  /\ upsets < MaxUpsets
  /\ upsets' = upsets + 1
  /\ ScanAdcClkdelay
  /\ UNCHANGED <<relock, sync, turn>>

(***************************************************************************)
(* The timing system                                                       *)
(***************************************************************************)
Software == <<delay, adcClkDelayBase, jog, relock, sync, turn>>

EvrLocks ==
  /\ ~evrLocked
  /\ evrLocked' = TRUE
  /\ UNCHANGED <<markers, good, upsets, Software>>

MarkersSync ==
  /\ evrLocked /\ ~markers
  /\ markers' = TRUE
  /\ UNCHANGED <<evrLocked, good, upsets, Software>>

Upset ==
  /\ upsets < MaxUpsets
  /\ upsets' = upsets + 1
  /\ markers' = FALSE
  /\ evrLocked' \in {FALSE, evrLocked}
  /\ UNCHANGED <<good, Software>>

\* Time passes.
Passes ==
  /\ locked' = IF locked = -1 THEN -1 ELSE Least(locked + 1, RelockTime + 1)
  /\ sinceEntry' = Least(sinceEntry + 1, SyncTime + 1)
  /\ UNCHANGED <<environment, delay, adcClkDelayBase, jog, firstLock, wasLocked, syncState, turn>>

AfeNext ==
  \/ AfeCheck \/ AfeLOsyncCheck \/ RescanAdcClkDelay
  \/ EvrLocks \/ MarkersSync \/ Upset \/ Passes

\* The main loop makes its passes, the timing system comes back, and the
\* oscillators are found out of step again and again while they are.
AfeProcessor == AfeCheck \/ AfeLOsyncCheck
AfeTiming == EvrLocks \/ MarkersSync

AfeSpec ==
  /\ AfeInit /\ [][AfeNext]_AfeVars
  /\ WF_AfeVars(AfeProcessor) /\ SF_AfeVars(JogPass)
  /\ WF_AfeVars(AfeTiming) /\ WF_AfeVars(Passes)

(***************************************************************************)
(* Properties                                                              *)
(***************************************************************************)

\* Whoever moved it last, the delay stays within three steps of the one scanned
\* for, and within its range (AfeTypeOK).
DelayNearScan == delay - adcClkDelayBase \in -3 .. 3

\* When the timing system calms down, the delay ends where the oscillators stay
\* in step (afePLL.c:572-574: "and then be good").
OscillatorsStayInStep == <>[](delay \in good)

\* A reference that is back to stay is scanned for in the end (afePLL.c:378-380).
ReferenceIsScanned == []<>(evrLocked => wasLocked)
==============================================================================
