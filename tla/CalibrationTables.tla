-------------------------- MODULE CalibrationTables --------------------------
(***************************************************************************)
(* The tables that calibrate a BPM: the gains of the attenuators            *)
(* (afeAtten.c) and the two tables of the local oscillators                 *)
(* (localOscillator.c).  They are uploaded and stored (tftp.c), read back   *)
(* at the start, and what the FPGA works with is computed from them: the    *)
(* gain of each channel, the tables of the oscillators, and the shift after *)
(* the filter of the fast data.                                            *)
(*                                                                         *)
(* A factor is in quarters, so that 0.75 is 3 and 1.0 is 4.  A row of an    *)
(* oscillator's table is named by the text it comes from.  The attenuators, *)
(* the registers and the flash memory are external.                        *)
(***************************************************************************)
EXTENDS Integers, FiniteSets

CONSTANTS
  Channel,      \* BPM_PROTOCOL_ADC_COUNT of them
  AttenRow,     \* 0 .. AFE_ATTEN_ROWS - 1
  Startup,      \* 20, the attenuation at the start
  FullScale,    \* FULL_SCALE
  AttenTables,  \* tables of gains that are uploaded
  Decibels,     \* attenuations the IOC commands
  Gains,        \* gain compensations the IOC commands
  Trims,        \* trims that are uploaded
  MaxSteps,     \* 127, the largest setting of an attenuator
  MinRows,      \* 29
  Rows,         \* capacity of an oscillator's table, the same for both
  Texts,        \* texts of oscillators' tables that are uploaded
  Lengths,      \* and their lengths, in rows
  SamplesPerFa, \* evrPerFaMarker * pllMultiplier * 4 / rfDivisor
  Decimation,   \* of the fast data, that the FPGA was built for
  Stages,       \* of its filter
  Shifts,       \* shifts the IOC commands
  MaxChanges,   \* bound on uploads and commands
  MaxFailures   \* bound on failing writes of the flash memory and attenuators

ASSUME TablesAssumption ==
  /\ Channel # {}
  /\ Startup \in AttenRow /\ AttenRow \subseteq Int
  /\ FullScale \in Nat /\ MaxSteps \in Nat
  /\ AttenTables \subseteq [AttenRow -> [Channel -> Int]]
  /\ Decibels \subseteq Int /\ Gains \subseteq Int /\ Shifts \subseteq Int
  /\ Trims \subseteq [Channel -> Nat]
  /\ MinRows \in Nat \ {0} /\ Rows \in Nat /\ MinRows < Rows
  /\ Lengths \subseteq Nat \ {0}
  /\ SamplesPerFa \in Nat /\ Decimation \in Nat /\ Stages \in Nat
  /\ MaxChanges \in Nat /\ MaxFailures \in Nat

Oscillator == {"rf", "pt"}

VARIABLES
  running,          \* has the start-up read the tables?
  attenImage, oscillatorImage, trimImage, \* what is in flash memory
  afeAttenTable, attenuationIndex, gainCompensation, afeTrim,
  attenuator, gainFactor, \* the hardware's attenuators and gains
  table,            \* rfTable and ptTable
  bank,             \* the tables in the FPGA
  oscillates,       \* NOBANK_RUN_BIT
  sumShift,         \* the fields of the SUM_SHIFT register
  keptAtten, keptOscillator, \* uploads stored last without a failure
  changes, failures

images == <<attenImage, oscillatorImage, trimImage, keptAtten, keptOscillator>>
attenuators == <<afeAttenTable, attenuationIndex, gainCompensation, attenuator, gainFactor>>
oscillators == <<table, bank, oscillates>>
TablesVars == <<running, images, attenuators, afeTrim, oscillators, sumShift, changes, failures>>

NaN == -1 \* "nan" as strtod reads it, and an erased word
Quarters(x) == x \in 0 .. 4

Clamp(x, low, high) == IF x < low THEN low ELSE IF x > high THEN high ELSE x

Uniform(x) == [c \in Channel |-> x]
Ones == [r \in AttenRow |-> Uniform(4)]
ErasedTable == [r \in AttenRow |-> Uniform(NaN)]

\* A table of an oscillator in flash memory: complete if its checksum is right.
ErasedOscillator == [rows |-> -1, text |-> "", complete |-> FALSE]
EmptyTable == [rows |-> 0, row |-> [i \in 1 .. Rows |-> ""]]
\* What an image holds: the last row of an incomplete one is missing.
Holding(image) ==
  LET there == IF image.complete THEN image.rows ELSE image.rows - 1
  IN [rows |-> image.rows, row |-> [i \in 1 .. Rows |-> IF i <= there THEN image.text ELSE ""]]

TablesTypeOK ==
  /\ running \in BOOLEAN /\ oscillates \in BOOLEAN
  /\ gainCompensation \in [Channel -> 0 .. FullScale]
  /\ \A c \in Channel : attenuator[c] \in 0 .. MaxSteps
  /\ table \in [Oscillator -> [rows : 0 .. Rows, row : [1 .. Rows -> Texts \cup {""}]]]
  /\ bank \in [Oscillator -> [rows : 0 .. Rows, row : [1 .. Rows -> Texts \cup {""}]]]
  /\ sumShift \in [tbt : 0 .. 15, mt : 0 .. 15, fa : 0 .. 15]

\* Nothing has been uploaded, and the processor has not started.
TablesInit ==
  /\ running = FALSE
  /\ attenImage = ErasedTable /\ trimImage = Uniform(0)
  /\ oscillatorImage = [o \in Oscillator |-> ErasedOscillator]
  /\ keptAtten = {} /\ keptOscillator = [o \in Oscillator |-> {}]
  /\ afeAttenTable = ErasedTable /\ attenuationIndex = 0
  /\ gainCompensation = Uniform(0) /\ afeTrim = Uniform(0)
  /\ attenuator = Uniform(0) /\ gainFactor = Uniform(0)
  /\ table = [o \in Oscillator |-> EmptyTable]
  /\ bank = [o \in Oscillator |-> EmptyTable]
  /\ oscillates = FALSE
  /\ sumShift = [tbt |-> 0, mt |-> 0, fa |-> 0]
  /\ changes = 0 /\ failures = 0

Request == running /\ changes < MaxChanges /\ changes' = changes + 1

(***************************************************************************)
(* The attenuators                                                         *)
(***************************************************************************)

\* The products the multiplication may give.  With a setting outside the table
\* that of whatever is found there, and of NaN the conversion gives anything: 0,
\* FULL_SCALE and a gain beyond it stand for it.
Beyond == FullScale + 1

Compensation(gain, factors, dB, c) ==
  IF dB \in AttenRow /\ factors[dB][c] # NaN
  THEN {(gain * factors[dB][c] + 2) \div 4}
  ELSE {0, FullScale, Beyond}

GainFactors(gains, factors, dB) ==
  {g \in [Channel -> 0 .. Beyond] :
     \A c \in Channel : g[c] \in Compensation(gains[c], factors, dB, c)}

\* afeSetGainCompensation
SetGainCompensation(c, gain) ==
  /\ Request
  /\ gainCompensation' = [gainCompensation EXCEPT ![c] = Clamp(gain, 0, FullScale)]
  /\ \E g \in Compensation(gainCompensation'[c], afeAttenTable, attenuationIndex, c) :
       gainFactor' = [gainFactor EXCEPT ![c] = g]
  /\ UNCHANGED <<running, images, afeAttenTable, attenuationIndex, attenuator, afeTrim,
                 oscillators, sumShift, failures>>

Steps(dB, trims, c) == Clamp(4 * dB + trims[c], 0, MaxSteps)

\* afeAttenSet: an attenuator that stays busy may miss its new setting.
AttenSet(dB, factors, trims, gains, failed) ==
  /\ \E missed \in SUBSET Channel :
       /\ failures' = failures + Cardinality(missed) + failed
       /\ failures' <= MaxFailures
       /\ attenuator' = [c \in Channel |-> IF c \in missed THEN attenuator[c]
                                           ELSE Steps(dB, trims, c)]
  /\ attenuationIndex' = dB
  /\ gainFactor' \in GainFactors(gains, factors, dB)

AttenSetCommand(dB) ==
  /\ Request
  /\ AttenSet(dB, afeAttenTable, afeTrim, gainCompensation, 0)
  /\ UNCHANGED <<running, images, afeAttenTable, gainCompensation, afeTrim, oscillators, sumShift>>

\* An upload of the parameters changes the trims that are in use.
UploadTrims(trims) ==
  /\ Request
  /\ afeTrim' = trims /\ trimImage' = trims
  /\ UNCHANGED <<running, attenImage, oscillatorImage, keptAtten, keptOscillator, attenuators,
                 oscillators, sumShift, failures>>

(***************************************************************************)
(* Uploads                                                                 *)
(***************************************************************************)

\* What is in flash memory after the write of a table has failed.
FailedAtten(new) ==
  {attenImage} \cup {[r \in AttenRow |-> IF r < n THEN new[r] ELSE Uniform(NaN)] : n \in AttenRow}

FailedOscillator(o, new) ==
  {oscillatorImage[o], ErasedOscillator, [new EXCEPT !.complete = FALSE]}

\* A factor is refused if it is less than 0.75 or more than 1.0: NaN is neither.
Accepted(new) == \A r \in AttenRow, c \in Channel : new[r][c] \in (3 .. 4) \cup {NaN}

AllNumbers(new) == \A r \in AttenRow, c \in Channel : new[r][c] # NaN

NoAttenUpload == UNCHANGED <<attenuators, attenImage, keptAtten>>

StoreAtten(new, failed) ==
  \/ failed = 0 /\ attenImage' = new /\ keptAtten' = {new}
  \/ failed = 1 /\ attenImage' \in FailedAtten(new) /\ keptAtten' = {}

AttenSetTableLater(new) == \* mutant: the gains are left until the next command
  /\ Request
  /\ IF Accepted(new)
     THEN /\ afeAttenTable' = new
          /\ UNCHANGED <<attenuationIndex, attenuator, gainFactor, failures>>
          /\ attenImage' = new /\ keptAtten' = {new}
     ELSE NoAttenUpload /\ UNCHANGED failures
  /\ UNCHANGED <<running, oscillatorImage, trimImage, keptOscillator, gainCompensation, afeTrim,
                 oscillators, sumShift>>

\* afeAttenSetTable, and tftp.c stores what it returns.
AttenSetTable(new) ==
  /\ Request
  /\ IF Accepted(new)
     THEN /\ afeAttenTable' = new
          /\ \E failed \in 0 .. 1 :
               /\ AttenSet(attenuationIndex, new, afeTrim, gainCompensation, failed)
               /\ StoreAtten(new, failed)
     ELSE NoAttenUpload /\ UNCHANGED failures
  /\ UNCHANGED <<running, oscillatorImage, trimImage, keptOscillator, gainCompensation, afeTrim,
                 oscillators, sumShift>>

\* The rows parsed overwrite the table one by one.
Overwritten(o, text, n) ==
  [i \in 1 .. Rows |-> IF i <= n THEN text ELSE table[o].row[i]]

StoreOscillator(o, new) ==
  \/ /\ oscillatorImage' = [oscillatorImage EXCEPT ![o] = new]
     /\ keptOscillator' = [keptOscillator EXCEPT ![o] = {new}]
     /\ UNCHANGED failures
  \/ /\ failures < MaxFailures /\ failures' = failures + 1
     /\ \E image \in FailedOscillator(o, new) :
          oscillatorImage' = [oscillatorImage EXCEPT ![o] = image]
     /\ keptOscillator' = [keptOscillator EXCEPT ![o] = {}]

LocalOscSetShortTable(o, text, n, good) == \* mutant: one row less will do
  /\ Request
  /\ IF good = n /\ n >= MinRows - 1 /\ n <= Rows
     THEN /\ table' = [table EXCEPT ![o] = [rows |-> n, row |-> Overwritten(o, text, n)]]
          /\ StoreOscillator(o, [rows |-> n, text |-> text, complete |-> TRUE])
     ELSE /\ table' = [table EXCEPT ![o].row = Overwritten(o, text, good)]
          /\ UNCHANGED <<oscillatorImage, keptOscillator, failures>>
  /\ UNCHANGED <<running, attenImage, trimImage, keptAtten, attenuators, afeTrim, bank,
                 oscillates, sumShift>>

\* localOscSetTable of a text of n rows of which the first good ones are well
\* formed: the table in memory is refused with some of it overwritten, or stored.
LocalOscSetTable(o, text, n, good) ==
  /\ Request
  /\ IF good = n /\ n >= MinRows /\ n <= Rows
     THEN /\ table' = [table EXCEPT ![o] = [rows |-> n, row |-> Overwritten(o, text, n)]]
          /\ StoreOscillator(o, [rows |-> n, text |-> text, complete |-> TRUE])
     ELSE /\ table' = [table EXCEPT ![o].row = Overwritten(o, text, good)]
          /\ UNCHANGED <<oscillatorImage, keptOscillator, failures>>
  /\ UNCHANGED <<running, attenImage, trimImage, keptAtten, attenuators, afeTrim, bank,
                 oscillates, sumShift>>

(***************************************************************************)
(* Other commands                                                          *)
(***************************************************************************)

SetSumShiftUnclamped(field, shift) == \* mutant: the value is not limited
  /\ Request
  /\ sumShift' = [sumShift EXCEPT ![field] = shift]
  /\ UNCHANGED <<running, images, attenuators, afeTrim, oscillators, failures>>

\* sdAccumulateSetTbtSumShift, sdAccumulateSetMtSumShift
SetSumShift(field, shift) ==
  /\ Request
  /\ sumShift' = [sumShift EXCEPT ![field] = Clamp(shift, 0, 15)]
  /\ UNCHANGED <<running, images, attenuators, afeTrim, oscillators, failures>>

(***************************************************************************)
(* Start-up: filesystemReadbacks                                           *)
(***************************************************************************)
InUseUnlessErased(image) == \* mutant: one good number will do
  IF \E r \in AttenRow, c \in Channel : Quarters(image[r][c]) THEN image ELSE Ones

\* afeAttenReadback has no checksum to look at.
InUse(image) ==
  IF \A r \in AttenRow, c \in Channel : Quarters(image[r][c]) THEN image ELSE Ones

GoodTable(image) == image.rows >= MinRows /\ image.rows < Rows /\ image.complete

\* cicShift: x is halved until it is one at most, as often as there are powers
\* of two that are less; the largest of TLC's numbers is 2^31 - 1.
cicShift(x) == Cardinality({n \in 0 .. 30 : 2^n < x})

ActualDecimation(rows) == IF rows > 0 THEN SamplesPerFa \div rows ELSE 0

FaShiftOtherWay(rows) == \* mutant: the other way round
  Clamp(cicShift(ActualDecimation(rows)^Stages) - cicShift(Decimation^Stages), 0, 15)

\* optimizeCicShift; a table that is all ones is as long as 2^32 - 1.
FaShift(rows) ==
  IF ActualDecimation(rows) = Decimation THEN sumShift.fa
  ELSE Clamp(cicShift(Decimation^Stages) - cicShift(ActualDecimation(rows)^Stages), 0, 15)

Start ==
  /\ ~running
  /\ running' = TRUE
  /\ afeTrim' = trimImage
  /\ afeAttenTable' = InUse(attenImage)
  /\ gainCompensation' = Uniform(FullScale)
  /\ AttenSet(Startup, afeAttenTable', trimImage, gainCompensation', 0)
  /\ LET found == {o \in Oscillator : GoodTable(oscillatorImage[o])}
     IN /\ table' = [o \in Oscillator |-> IF o \in found THEN Holding(oscillatorImage[o]) ELSE table[o]]
        /\ bank' = [o \in Oscillator |-> IF o \in found THEN Holding(oscillatorImage[o]) ELSE bank[o]]
        /\ oscillates' = (found = Oscillator)
  /\ sumShift' = [sumShift EXCEPT !.fa = FaShift(oscillatorImage["pt"].rows)]
  /\ UNCHANGED <<images, changes>>

\* The power is switched off or fails; registers and memory lose their contents.
Stop ==
  /\ running
  /\ running' = FALSE
  /\ afeAttenTable' = ErasedTable /\ attenuationIndex' = 0
  /\ gainCompensation' = Uniform(0) /\ afeTrim' = Uniform(0)
  /\ attenuator' = Uniform(0) /\ gainFactor' = Uniform(0)
  /\ table' = [o \in Oscillator |-> EmptyTable]
  /\ bank' = [o \in Oscillator |-> EmptyTable]
  /\ oscillates' = FALSE
  /\ sumShift' = [tbt |-> 0, mt |-> 0, fa |-> 0]
  /\ UNCHANGED <<images, changes, failures>>

TablesNext ==
  \/ Start \/ Stop
  \/ \E c \in Channel, gain \in Gains : SetGainCompensation(c, gain)
  \/ \E dB \in Decibels : AttenSetCommand(dB)
  \/ \E trims \in Trims : UploadTrims(trims)
  \/ \E new \in AttenTables : AttenSetTable(new)
  \/ \E o \in Oscillator, text \in Texts, n \in Lengths : \E good \in 0 .. n :
       LocalOscSetTable(o, text, n, good)
  \/ \E field \in {"tbt", "mt"}, shift \in Shifts : SetSumShift(field, shift)

TablesSpec == TablesInit /\ [][TablesNext]_TablesVars

(***************************************************************************)
(* Properties                                                              *)
(***************************************************************************)

\* The gain of each channel is that of the table in use at the attenuation in
\* use, whichever of them changed last: the table, the attenuation or the gain.
\* Of a factor that is no number it may be anything (Compensation).
GainFollowsTable ==
  running /\ attenuationIndex \in AttenRow =>
    \A c \in Channel :
      gainFactor[c] \in Compensation(gainCompensation[c], afeAttenTable, attenuationIndex, c)

\* The table in use is one that was accepted as a whole, or all ones: what is
\* left of a write that failed is found out without a checksum.
WholeTableInUse ==
  running => afeAttenTable = Ones \/ (afeAttenTable \in AttenTables /\ Accepted(afeAttenTable))

\* The oscillators only run on two tables each of which is one text, whatever was
\* uploaded since the start or left behind by a write that failed.
OscillatorsRunOnTables ==
  oscillates => \A o \in Oscillator : \E text \in Texts :
    \A i \in 1 .. Rows : bank[o].row[i] = IF i <= bank[o].rows THEN text ELSE ""

\* No table is in use of which a write that failed has left only a part: neither
\* that of the gains nor those of the oscillators.
WholeTablesInUse == WholeTableInUse /\ OscillatorsRunOnTables

\* Tables that were stored are in use after the next start, and the oscillators
\* run, but for two kinds of tables that are accepted and stored and yet called
\* corrupt at the start: one that has as many rows as there is room for, and one
\* of gains with a factor that is no number.
StoredTablesComeBack ==
  [][running' /\ ~running =>
       /\ \A new \in keptAtten : AllNumbers(new) => afeAttenTable' = new
       /\ \A o \in Oscillator : \A new \in keptOscillator[o] :
            new.rows < Rows => bank'[o] = Holding(new)
       /\ (\A o \in Oscillator : \E new \in keptOscillator[o] : new.rows < Rows) => oscillates'
    ]_TablesVars

\* The fast data are shifted by as much as they can be without an overflow.
FaShiftIsLargest ==
  oscillates => \A s \in 1 .. 15 :
    s <= sumShift.fa <=>
      ActualDecimation(bank["pt"].rows)^Stages * 2^s <= 2^cicShift(Decimation^Stages)
==============================================================================
