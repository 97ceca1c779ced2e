---------------------------- MODULE ServiceProofs ----------------------------
(***************************************************************************)
(* Proofs about the parts of the software that keep parameters, tables and   *)
(* the marks of a second IOC, one after the other; they share no state.      *)
(***************************************************************************)
EXTENDS MCService, FiniteSetTheorems, TLAPS

(***************************************************************************)
(* The system parameters, for every set of values a field may be given: what *)
(* is complete in flash memory has no erased field, and of an image that is  *)
(* not, the MAC address is erased only if the network parameters are.        *)
(***************************************************************************)

FlashWhole ==
  IF flash.sum = flash.values
  THEN \A f \in Field : flash.values[f] # Erased
  ELSE flash.values[net] = Erased \/ flash.values[mac] # Erased

ParametersInv ==
  /\ TypeOK
  /\ pending # Erased /\ \A f \in Field : live.values[f] # Erased
  /\ FlashWhole
  /\ saved # <<>> => flash = WithChecksum(saved)

\* The values of a field and of the fields.
LEMMA FieldFacts ==
  /\ Field = {mac, net, timing, rotation, trim}
  /\ mac \in Field /\ net \in Field /\ timing \in Field /\ rotation \in Field
  /\ mac # net /\ mac # timing /\ net # timing
BY DEF Field, mac, net, timing, rotation, trim

\* What is good is neither odd nor erased.
LEMMA ValueFacts ==
  /\ Default \in Value /\ Odd \in Value /\ Erased \in Value /\ Version \subseteq Value
  /\ Default # Odd /\ Default # Erased /\ Odd # Erased
  /\ \A v \in Version : v # Odd /\ v # Erased
BY VersionAssumption DEF Value, Default, Odd, Erased

\* Values are not the empty checksum.
LEMMA ValuesAreNoSequence == <<>> \notin Values
BY FieldFacts DEF Values

\* Values with their checksum are an image that is complete.
LEMMA ChecksumMakesImage ==
  ASSUME NEW v \in Values
  PROVE  /\ WithChecksum(v) \in Image
         /\ WithChecksum(v).values = v /\ WithChecksum(v).sum = v
BY DEF WithChecksum, Image

\* An image that is given other values.
LEMMA NewValues ==
  ASSUME NEW image \in Image, NEW v \in Values
  PROVE  /\ [image EXCEPT !.values = v] \in Image
         /\ [image EXCEPT !.values = v].values = v
<1>1. image.sum \in Values \cup {<<>>} /\ image = [values |-> image.values, sum |-> image.sum]
    BY DEF Image
<1>2. [image EXCEPT !.values = v] = [values |-> v, sum |-> image.sum]
    BY <1>1
<1> QED BY <1>1, <1>2 DEF Image

\* The defaults are values none of which is erased.
LEMMA DefaultsAreValues == Defaults \in Values /\ \A f \in Field : Defaults[f] # Erased
BY ValueFacts DEF Defaults, Values

\* The invariant holds at first.
LEMMA ParametersInit == Init => ParametersInv
<1> SUFFICES ASSUME Init PROVE ParametersInv
    OBVIOUS
<1>1. /\ flash = WithChecksum(Defaults) /\ live = flash /\ saved = Defaults
      /\ power = FALSE /\ consoleMode = "command" /\ pending = Default
    BY DEF Init
<1>2. /\ flash \in Image /\ flash.sum = Defaults /\ flash.values = Defaults
    BY <1>1, ChecksumMakesImage, DefaultsAreValues
<1>3. TypeOK
    BY <1>1, <1>2, ValueFacts, DefaultsAreValues DEF TypeOK
<1>4. FlashWhole
    BY <1>2, DefaultsAreValues DEF FlashWhole
<1> QED BY <1>1, <1>2, <1>3, <1>4, ValueFacts, DefaultsAreValues DEF ParametersInv
\* An image written to its end: it is complete, and its values are those saved.
LEMMA WrittenWhole ==
  ASSUME NEW v \in Values, \A f \in Field : v[f] # Erased, Written(WithChecksum(v))
  PROVE  /\ flash' \in Image /\ flash'.sum = flash'.values
         /\ FlashWhole'
         /\ saved' = v /\ flash' = WithChecksum(saved')
BY ChecksumMakesImage DEF Written, FlashWhole

\* An image cut short: the MAC address comes first and the network next.
LEMMA TornWhole ==
  ASSUME NEW v \in Values, \A f \in Field : v[f] # Erased,
         NEW image \in Torn(WithChecksum(v))
  PROVE  /\ image \in Image /\ image.sum = <<>>
         /\ image.values[net] = Erased \/ image.values[mac] # Erased
<1>1. PICK n \in 0 .. 5 :
        image = [ values |-> [f \in Field |-> IF f <= n THEN v[f] ELSE Erased], sum |-> <<>> ]
    BY ChecksumMakesImage DEF Torn
<1>2. image.values = [f \in Field |-> IF f <= n THEN v[f] ELSE Erased] /\ image.sum = <<>>
    BY <1>1
<1>3. image.values \in Values
    BY <1>2, ValueFacts DEF Values
<1>4. image \in Image
    BY <1>1, <1>2, <1>3 DEF Image
<1>5. image.values[net] = Erased \/ image.values[mac] # Erased
  <2>1. CASE n = 0
      BY <1>2, <2>1, FieldFacts DEF net
  <2>2. CASE n # 0
      BY <1>2, <2>2, FieldFacts DEF mac
  <2> QED BY <2>1, <2>2
<1> QED BY <1>2, <1>4, <1>5

\* A write of complete values that may fail keeps what is known of the flash memory.
LEMMA WriteKeeps ==
  ASSUME ParametersInv,
         NEW v \in Values, \A f \in Field : v[f] # Erased,
         Written(WithChecksum(v)) \/ NotWritten(WithChecksum(v))
  PROVE  /\ flash' \in Image /\ flash'.sum \in {<<>>, flash'.values}
         /\ FlashWhole'
         /\ saved' \in Values \cup {<<>>}
         /\ saved' # <<>> => flash' = WithChecksum(saved')
         /\ power' = power
<1>1. CASE Written(WithChecksum(v))
    BY <1>1, WrittenWhole DEF Written
<1>2. CASE NotWritten(WithChecksum(v))
  <2>1. saved' = <<>> /\ power' = power
      BY <1>2 DEF NotWritten
  <2>2. CASE flash' = flash
      BY <2>1, <2>2 DEF ParametersInv, TypeOK, FlashWhole
  <2>3. CASE flash' \in Torn(WithChecksum(v))
    <3>1. /\ flash' \in Image /\ flash'.sum = <<>>
          /\ flash'.values[net] = Erased \/ flash'.values[mac] # Erased
        BY <2>3, TornWhole
    <3>2. flash'.sum # flash'.values
        BY <3>1, ValuesAreNoSequence DEF Image
    <3> QED BY <2>1, <3>1, <3>2 DEF FlashWhole
  <2> QED BY <1>2, <2>2, <2>3 DEF NotWritten
<1> QED BY <1>1, <1>2

\* What start-up makes of an image: it is used, or the network parameters are.
LEMMA ReadbackChoice ==
  ASSUME ParametersInv
  PROVE  \/ /\ flash.sum = flash.values /\ flash.values[timing] \notin {Odd, Erased}
            /\ Readback(flash) = flash
         \/ /\ flash.sum # flash.values \/ flash.values[timing] \in {Odd, Erased}
            /\ \E v \in Values :
                 /\ Readback(flash) = WithChecksum(v)
                 /\ \A f \in Field \ {mac, net} : v[f] = Default
                 /\ v[net] \notin {Odd, Erased} /\ v[mac] # Erased
<1>1. CASE ~Corrupt(flash)
    BY <1>1 DEF Corrupt, Readback
<1>2. CASE Corrupt(flash)
  <2> DEFINE v == [f \in Field |-> IF f \in {mac, net} /\ ~Questionable(flash.values)
                                   THEN flash.values[f] ELSE Default]
  <2>1. Readback(flash) = WithChecksum(v)
      BY <1>2 DEF Readback
  <2>2. flash.values \in Values
      BY DEF ParametersInv, TypeOK, Image
  <2>3. v \in Values
      BY <2>2, ValueFacts DEF Values
  <2>4. \A f \in Field \ {mac, net} : v[f] = Default
      OBVIOUS
  <2>5. v[net] \notin {Odd, Erased}
      BY FieldFacts, ValueFacts DEF Questionable
  <2>6. v[mac] # Erased
      BY FieldFacts, ValueFacts DEF Questionable, ParametersInv, FlashWhole
  <2> HIDE DEF v
  <2> QED BY <1>2, <2>1, <2>3, <2>4, <2>5, <2>6 DEF Corrupt
<1> QED BY <1>1, <1>2
\* What start-up comes up with has no erased field.
LEMMA BootKeeps == ASSUME ParametersInv, Boot PROVE ParametersInv'
<1>1. live' \in Image /\ \A f \in Field : live'.values[f] # Erased
  <2>1. CASE Readback(flash) = flash /\ flash.sum = flash.values
      BY <2>1 DEF Boot, ParametersInv, TypeOK, FlashWhole
  <2>2. ASSUME NEW v \in Values, Readback(flash) = WithChecksum(v),
               \A f \in Field \ {mac, net} : v[f] = Default,
               v[net] \notin {Odd, Erased}, v[mac] # Erased
        PROVE  live' \in Image /\ \A f \in Field : live'.values[f] # Erased
      BY <2>2, ChecksumMakesImage, ValueFacts DEF Boot
  <2> QED BY <2>1, <2>2, ReadbackChoice
<1>2. /\ power' \in BOOLEAN /\ consoleMode' = "command" /\ pending' = Default
      /\ UNCHANGED <<flash, saved>>
    BY DEF Boot
<1> QED BY <1>1, <1>2, ValueFacts DEF ParametersInv, TypeOK, FlashWhole

\* Of an uploaded table a field is good, or odd.
LEMMA TableValues ==
  ASSUME NEW table0 \in Table
  PROVE  table0 \in Values /\ \A f \in Field : table0[f] # Erased
<1>1. PICK odd \in (OddFields \ {mac, trim}) \cup {0}, v \in Version :
        table0 = [f \in Field |-> IF f = odd THEN Odd ELSE v]
    BY DEF Table
<1> QED BY <1>1, ValueFacts DEF Values

\* What an upload with a bad line leaves in memory.
LEMMA BadLineKeeps == ASSUME ParametersInv, UploadBadLine PROVE ParametersInv'
<1>1. PICK table0 \in Table, lines \in 0 .. 4 : \E left \in Left(lines + 1) :
        live' = [live EXCEPT !.values = Parsed(table0, lines, left)]
    BY DEF UploadBadLine
<1>2. PICK left \in Left(lines + 1) :
        live' = [live EXCEPT !.values = Parsed(table0, lines, left)]
    BY <1>1
<1> DEFINE v == Parsed(table0, lines, left)
<1>3. lines + 1 \in Field
    BY DEF Field
<1>4. live.values \in Values /\ live \in Image
    BY DEF ParametersInv, TypeOK, Image
<1>5. left \in Value /\ left # Erased
    BY <1>3, <1>4, ValueFacts DEF Left, ParametersInv, Values
<1>6. v \in Values /\ \A f \in Field : v[f] # Erased
    BY <1>4, <1>5, TableValues DEF Parsed, Values, ParametersInv
<1> HIDE DEF v
<1>7. live' \in Image /\ live'.values = v
    BY <1>2, <1>4, <1>6, NewValues DEF v
<1> QED BY <1>6, <1>7 DEF UploadBadLine, ParametersInv, TypeOK, FlashWhole

\* What an upload with a bad rotation leaves in memory.
LEMMA BadRotationKeeps == ASSUME ParametersInv, UploadBadRotation PROVE ParametersInv'
<1>1. PICK table0 \in Table : live' = [live EXCEPT !.values = table0]
    BY DEF UploadBadRotation
<1>2. table0 \in Values /\ \A f \in Field : table0[f] # Erased
    BY TableValues
<1>3. live' \in Image /\ live'.values = table0
    BY <1>1, <1>2, NewValues DEF ParametersInv, TypeOK
<1> QED BY <1>2, <1>3 DEF UploadBadRotation, ParametersInv, TypeOK, FlashWhole

\* A table that is accepted is written.
LEMMA UploadKeeps == ASSUME ParametersInv, Upload PROVE ParametersInv'
<1>1. PICK table0 \in Table :
        live' = WithChecksum(table0) /\ (Written(live') \/ NotWritten(live'))
    BY DEF Upload
<1>2. table0 \in Values /\ \A f \in Field : table0[f] # Erased
    BY TableValues
<1>3. live' \in Image /\ live'.values = table0
    BY <1>1, <1>2, ChecksumMakesImage
<1>4. Written(WithChecksum(table0)) \/ NotWritten(WithChecksum(table0))
    BY <1>1
<1>5. /\ flash' \in Image /\ flash'.sum \in {<<>>, flash'.values}
      /\ FlashWhole'
      /\ saved' \in Values \cup {<<>>}
      /\ saved' # <<>> => flash' = WithChecksum(saved')
      /\ power' = power
    BY <1>2, <1>4, WriteKeeps
<1> QED BY <1>2, <1>3, <1>5 DEF Upload, ParametersInv, TypeOK

\* A question that is answered with yes: the parameters are written.
LEMMA AnswerYesKeeps == ASSUME ParametersInv, AnswerYes PROVE ParametersInv'
<1> DEFINE f == IF consoleMode = "netQuery" THEN net ELSE mac
           image == [live EXCEPT !.values[f] = pending]
           v == image.values
<1>1. live.values \in Values /\ live \in Image /\ pending \in Value /\ pending # Erased
    BY DEF ParametersInv, TypeOK, Image
<1>2. v = [live.values EXCEPT ![f] = pending]
    BY <1>1 DEF Image
<1>3. f \in Field
    BY FieldFacts
<1>4. v \in Values /\ \A g \in Field : v[g] # Erased
  <2> HIDE DEF f, v
  <2> QED BY <1>1, <1>2, <1>3 DEF Values, ParametersInv
<1>5. live' = WithChecksum(v) /\ (Written(live') \/ NotWritten(live'))
    BY DEF AnswerYes, UpdateChecksum
<1> HIDE DEF v
<1>6. live' \in Image /\ live'.values = v
    BY <1>4, <1>5, ChecksumMakesImage
<1>7. Written(WithChecksum(v)) \/ NotWritten(WithChecksum(v))
    BY <1>5
<1>8. /\ flash' \in Image /\ flash'.sum \in {<<>>, flash'.values}
      /\ FlashWhole'
      /\ saved' \in Values \cup {<<>>}
      /\ saved' # <<>> => flash' = WithChecksum(saved')
      /\ power' = power
    BY <1>4, <1>7, WriteKeeps
<1>9. consoleMode' = "command" /\ pending' = pending
    BY DEF AnswerYes
<1> QED BY <1>1, <1>4, <1>6, <1>8, <1>9 DEF ParametersInv, TypeOK

\* Every step keeps the invariant.
LEMMA ParametersStep == ASSUME ParametersInv, [Next]_vars PROVE ParametersInv'
<1>1. CASE Boot
    BY <1>1, BootKeeps
<1>2. CASE Stops
  <2>1. live' = WithChecksum(Defaults) /\ consoleMode' = "command" /\ pending' = Default
      BY <1>2 DEF Stops, Forgotten
  <2>2. live' \in Image /\ \A f \in Field : live'.values[f] # Erased
      BY <2>1, ChecksumMakesImage, DefaultsAreValues
  <2> QED BY <1>2, <2>1, <2>2, ValueFacts DEF Stops, ParametersInv, TypeOK, FlashWhole
<1>3. CASE UploadBadLine \/ UploadBadRotation \/ Upload \/ AnswerYes
    BY <1>3, BadLineKeeps, BadRotationKeeps, UploadKeeps, AnswerYesKeeps
<1>4. CASE CmdNET \/ CmdMAC
    BY <1>4, ValueFacts DEF CmdNET, CmdMAC, ParametersInv, TypeOK, FlashWhole
<1>5. CASE AnswerNo
    BY <1>5 DEF AnswerNo, ParametersInv, TypeOK, FlashWhole
<1>6. CASE UNCHANGED vars
    BY <1>6 DEF vars, ParametersInv, TypeOK, FlashWhole
<1> QED BY <1>1, <1>2, <1>3, <1>4, <1>5, <1>6 DEF Next

\* The parameters in memory and in flash memory are of their types, and what is
\* in flash memory is either complete with its checksum or has none: for every
\* order of uploads, questions, writes that fail and restarts.
THEOREM ParametersTypesHold == Spec => []TypeOK
<1>1. ParametersInv => TypeOK
    BY DEF ParametersInv
<1> QED BY <1>1, ParametersInit, ParametersStep, PTL DEF Spec

\* After a write that failed or was cut short at any field, start-up comes up
\* with a complete image or with defaults and network parameters that are not
\* left over from an erased page.
THEOREM BootsFromOneImage == Spec => NoMixAtBoot
<1>1. ASSUME ParametersInv, Boot
      PROVE  \/ BootedComplete
             \/ /\ \A f \in Field \ {mac, net} : Booted[f] = Default
                /\ Booted[net] \notin {Odd, Erased} /\ Booted[mac] # Erased
  <2>1. CASE Readback(flash) = flash /\ flash.sum = flash.values
    <3>1. flash.values \in Values
        BY <1>1 DEF ParametersInv, TypeOK, Image
    <3>2. flash.sum # <<>>
        BY <2>1, <3>1, ValuesAreNoSequence
    <3> QED BY <1>1, <2>1, <3>2 DEF Boot, BootedComplete, Booted
  <2>2. ASSUME NEW v \in Values, Readback(flash) = WithChecksum(v),
               \A f \in Field \ {mac, net} : v[f] = Default,
               v[net] \notin {Odd, Erased}, v[mac] # Erased
        PROVE  /\ \A f \in Field \ {mac, net} : Booted[f] = Default
               /\ Booted[net] \notin {Odd, Erased} /\ Booted[mac] # Erased
      BY <1>1, <2>2, ChecksumMakesImage DEF Boot, Booted
  <2> QED BY <1>1, <2>1, <2>2, ReadbackChoice
<1>2. ParametersInv /\ [Next]_vars =>
        [Boot => \/ BootedComplete
                 \/ /\ \A f \in Field \ {mac, net} : Booted[f] = Default
                    /\ Booted[net] \notin {Odd, Erased} /\ Booted[mac] # Erased]_vars
    BY <1>1
<1> QED BY <1>2, ParametersInit, ParametersStep, PTL DEF Spec, NoMixAtBoot

\* What was written last without an error, from the console or by an upload, is
\* what the next start-up comes up with, unless its timing is out of range:
\* nothing that is uploaded and refused or asked and declined gets in between.
THEOREM WrittenIsBooted == Spec => SavedSurvives
<1>1. ASSUME ParametersInv, Boot, saved # <<>>, saved[timing] # Odd
      PROVE  Booted = saved
  <2>1. saved \in Values
      BY <1>1 DEF ParametersInv, TypeOK
  <2>2. flash.values = saved /\ flash.sum = saved
      BY <1>1, <2>1, ChecksumMakesImage DEF ParametersInv
  <2>3. flash.values[timing] # Erased
      BY <1>1, <2>2, FieldFacts DEF ParametersInv, FlashWhole
  <2>4. Readback(flash) = flash
      BY <1>1, <2>2, <2>3, ReadbackChoice
  <2> QED BY <1>1, <2>2, <2>4 DEF Boot, Booted
<1>2. ParametersInv /\ [Next]_vars =>
        [Boot /\ saved # <<>> => saved[timing] = Odd \/ Booted = saved]_vars
    BY <1>1
<1> QED BY <1>2, ParametersInit, ParametersStep, PTL DEF Spec, SavedSurvives
(***************************************************************************)
(* The detection of a second IOC, for every number of senders and all        *)
(* durations: what the two times say of the senders.                        *)
(***************************************************************************)

\* The sender of the last packet is the old address: all others have been silent
\* since it changed.
OldSpokeLast ==
  /\ \A i \in IOC \ {old} : silent[i] >= sinceChanged
  /\ old \in IOC => silent[old] <= sinceChanged
  /\ old = NoIOC => uptime <= sinceChanged

\* While two send, the address changes again and again, and each time it is
\* found to.
ContendersChangeOld ==
  /\ contended > 0 => sinceChanged < Change
  /\ contended > sinceChanged => sinceDuplicate = sinceChanged

\* When a change was suspect the BPM had just been started, or two had sent.
SuspectsSpoke ==
  \/ uptime < sinceDuplicate + Change
  \/ \E i, j \in IOC : /\ i # j
                       /\ silent[i] < sinceDuplicate + Change
                       /\ silent[j] < sinceDuplicate + Change

DuplicateInv == DupTypeOK /\ OldSpokeLast /\ ContendersChangeOld /\ SuspectsSpoke

\* The durations are integers.
LEMMA DurationFacts ==
  /\ IsFiniteSet(IOC) /\ NoIOC \notin IOC
  /\ Change \in Nat /\ Change > 0 /\ Hold \in Nat /\ Hold >= Change /\ Period \in Nat
  /\ Cap \in Nat /\ Cap = 2 * Change + Hold
BY DuplicateAssumption DEF Cap

\* Growing older.
LEMMA OlderFacts ==
  ASSUME NEW x \in Age
  PROVE  /\ Older(x) \in Age /\ x <= Older(x) /\ Older(x) <= x + 1
         /\ Older(x) # x => x < Cap
         /\ Older(x) = x => x = Cap
BY DurationFacts DEF Age, Older

\* Ages keep their order.
LEMMA OlderIsMonotone ==
  ASSUME NEW x \in Age, NEW y \in Age
  PROVE  x <= y => Older(x) <= Older(y)
BY DurationFacts DEF Age, Older

\* Of two that are active one is not the old address.
LEMMA AnotherIsActive ==
  ASSUME NEW ages, Cardinality(Active(ages)) >= 2, NEW x
  PROVE  \E i \in IOC \ {x} : ages[i] < Change
<1>1. Active(ages) \subseteq IOC
    BY DEF Active
<1>2. IsFiniteSet(Active(ages))
    BY <1>1, DurationFacts, FS_Subset
<1>3. ASSUME Active(ages) \subseteq {x} PROVE FALSE
  <2>1. IsFiniteSet({x}) /\ Cardinality({x}) = 1
      BY FS_Singleton
  <2>2. Cardinality(Active(ages)) <= Cardinality({x})
      BY <1>3, <2>1, FS_Subset
  <2>3. Cardinality(Active(ages)) \in Nat
      BY <1>2, FS_CardinalityType
  <2> QED BY <2>1, <2>2, <2>3
<1>4. PICK i \in Active(ages) : i # x
    BY <1>3
<1> QED BY <1>4 DEF Active

\* The invariant holds at first.
LEMMA DuplicateInit == DupInit => DuplicateInv
<1> SUFFICES ASSUME DupInit PROVE DuplicateInv
    OBVIOUS
<1>1. 0 \in Age /\ Cap \in Age /\ 0 <= Cap /\ 0 \in 0 .. Period
    BY DurationFacts DEF Age
<1>2. DupTypeOK
  <2>1. silent \in [IOC -> Age]
      BY <1>1 DEF DupInit
  <2>2. sinceChanged <= sinceDuplicate
      BY DEF DupInit
  <2> QED BY <1>1, <2>1, <2>2 DEF DupInit, DupTypeOK
<1>3. OldSpokeLast
    BY <1>1, DurationFacts DEF DupInit, OldSpokeLast
<1>4. ContendersChangeOld
    BY DurationFacts DEF DupInit, ContendersChangeOld
<1>5. SuspectsSpoke
    BY DurationFacts DEF DupInit, SuspectsSpoke
<1> QED BY <1>2, <1>3, <1>4, <1>5 DEF DuplicateInv

\* A packet from the old address, or from another one.
LEMMA PacketKeeps ==
  ASSUME DuplicateInv, NEW i \in IOC, Packet(i)
  PROVE  DuplicateInv'
<1>1. /\ silent' = [silent EXCEPT ![i] = 0] /\ silent \in [IOC -> Age]
      /\ UNCHANGED <<uptime, contended, subscribed, sincePublished, duplicateIOC>>
      /\ sinceChanged \in Int /\ sinceDuplicate \in Int /\ contended \in Int /\ uptime \in Int
      /\ sinceChanged >= 0 /\ sinceChanged <= sinceDuplicate
      /\ 0 \in Age
    BY DurationFacts DEF Packet, publisher, DuplicateInv, DupTypeOK, Age
<1>2. /\ silent' \in [IOC -> Age] /\ silent'[i] = 0
      /\ \A j \in IOC \ {i} : silent'[j] = silent[j]
      /\ \A j \in IOC : silent[j] \in Int /\ silent[j] >= 0 /\ silent'[j] <= silent[j]
    BY <1>1, DurationFacts DEF Age
<1>3. CASE i = old
  <2>1. UNCHANGED <<old, sinceChanged, sinceDuplicate>>
      BY <1>3 DEF Packet
  <2>2. DupTypeOK'
      BY <1>1, <1>2, <2>1 DEF DuplicateInv, DupTypeOK
  <2>3. OldSpokeLast'
      BY <1>1, <1>2, <1>3, <2>1, DurationFacts DEF DuplicateInv, OldSpokeLast
  <2>4. ContendersChangeOld'
      BY <1>1, <2>1 DEF DuplicateInv, ContendersChangeOld
  <2>5. SuspectsSpoke'
      BY <1>1, <1>2, <2>1, DurationFacts DEF DuplicateInv, SuspectsSpoke
  <2> QED BY <2>2, <2>3, <2>4, <2>5 DEF DuplicateInv
<1>4. CASE i # old
  <2>1. /\ sinceDuplicate' = IF sinceChanged < Change THEN 0 ELSE sinceDuplicate
        /\ old' = i /\ sinceChanged' = 0
      BY <1>4 DEF Packet, Suspect, ChangedNow
  <2>2. DupTypeOK'
      BY <1>1, <1>2, <2>1 DEF DuplicateInv, DupTypeOK
  <2>3. OldSpokeLast'
      BY <1>1, <1>2, <2>1, DurationFacts DEF DuplicateInv, OldSpokeLast
  <2>4. ContendersChangeOld'
      BY <1>1, <2>1, DurationFacts DEF DuplicateInv, ContendersChangeOld
  <2>5. SuspectsSpoke'
    <3>1. CASE sinceChanged < Change /\ old \in IOC
      <4>1. silent'[old] < Change /\ silent'[i] < Change
          BY <1>1, <1>2, <1>4, <3>1, DurationFacts DEF DuplicateInv, OldSpokeLast
      <4> QED BY <1>4, <2>1, <3>1, <4>1, DurationFacts DEF SuspectsSpoke
    <3>2. CASE sinceChanged < Change /\ old = NoIOC
        BY <1>1, <2>1, <3>2, DurationFacts DEF DuplicateInv, OldSpokeLast, SuspectsSpoke
    <3>3. CASE ~(sinceChanged < Change)
        BY <1>1, <1>2, <2>1, <3>3, DurationFacts DEF DuplicateInv, SuspectsSpoke
    <3> QED BY <3>1, <3>2, <3>3 DEF DuplicateInv, DupTypeOK
  <2> QED BY <2>2, <2>3, <2>4, <2>5 DEF DuplicateInv
<1> QED BY <1>3, <1>4

\* A second passes.
LEMMA SecondKeeps == ASSUME DuplicateInv, Second PROVE DuplicateInv'
<1>1. /\ sinceChanged' = Older(sinceChanged) /\ sinceDuplicate' = Older(sinceDuplicate)
      /\ uptime' = Older(uptime)
      /\ silent' = [i \in IOC |-> Older(silent[i])]
      /\ contended' = IF Cardinality(Active(silent')) >= 2 THEN Older(contended) ELSE 0
      /\ UNCHANGED <<old, subscribed, duplicateIOC>>
    BY DEF Second
<1>2. /\ sinceChanged \in Age /\ sinceDuplicate \in Age /\ uptime \in Age /\ contended \in Age
      /\ sinceChanged <= sinceDuplicate
      /\ silent \in [IOC -> Age] /\ \A i \in IOC : silent[i] \in Age
      /\ old \in IOC \cup {NoIOC}
    BY DEF DuplicateInv, DupTypeOK
<1>3. silent' \in [IOC -> Age] /\ \A i \in IOC : silent'[i] = Older(silent[i])
    BY <1>1, <1>2, OlderFacts
<1>4. \A x \in Age : x \in Int /\ x >= 0 /\ x <= Cap
    BY DurationFacts DEF Age
<1>5. sincePublished' \in 0 .. Period
    BY DurationFacts DEF Second, DuplicateInv, DupTypeOK
<1>6. DupTypeOK'
  <2>1. contended' \in Age
      BY <1>1, <1>2, OlderFacts, DurationFacts DEF Age
  <2> QED BY <1>1, <1>2, <1>3, <1>5, <2>1, OlderFacts, OlderIsMonotone
          DEF DuplicateInv, DupTypeOK
<1>7. OldSpokeLast'
    BY <1>1, <1>2, <1>3, OlderIsMonotone DEF DuplicateInv, OldSpokeLast
<1>8. ContendersChangeOld'
  <2>1. CASE Cardinality(Active(silent')) >= 2
    <3>1. PICK i \in IOC \ {old} : silent'[i] < Change
        BY <2>1, AnotherIsActive
    <3>2. sinceChanged' <= silent'[i]
        BY <1>1, <1>7 DEF OldSpokeLast
    <3>3. sinceChanged' \in Age /\ silent'[i] \in Age
        BY <1>1, <1>2, <1>3, OlderFacts
    <3>4. sinceChanged' < Change
        BY <1>4, <3>1, <3>2, <3>3, DurationFacts
    <3>5. contended' > sinceChanged' => sinceDuplicate' = sinceChanged'
        BY <1>1, <1>2, <1>4, <2>1, DurationFacts DEF DuplicateInv, ContendersChangeOld, Older
    <3> QED BY <3>4, <3>5 DEF ContendersChangeOld
  <2>2. CASE ~(Cardinality(Active(silent')) >= 2)
    <3>1. contended' = 0 /\ sinceChanged' \in Age
        BY <1>1, <1>2, <2>2, OlderFacts
    <3> QED BY <1>4, <3>1 DEF ContendersChangeOld
  <2> QED BY <2>1, <2>2
<1>9. SuspectsSpoke'
  <2>1. ASSUME NEW x \in Age, x < sinceDuplicate + Change
        PROVE  Older(x) < sinceDuplicate' + Change
      BY <1>1, <1>2, <1>4, <2>1, DurationFacts DEF Older
  <2> QED BY <1>1, <1>2, <1>3, <2>1 DEF DuplicateInv, SuspectsSpoke
<1> QED BY <1>6, <1>7, <1>8, <1>9 DEF DuplicateInv

\* Every step keeps the invariant.
LEMMA DuplicateStep == ASSUME DuplicateInv, [DupNext]_DupVars PROVE DuplicateInv'
<1>1. CASE \E i \in IOC : Packet(i)
    BY <1>1, PacketKeeps
<1>2. CASE Subscribe
    BY <1>2 DEF Subscribe, DuplicateInv, DupTypeOK, OldSpokeLast, ContendersChangeOld, SuspectsSpoke
<1>3. CASE Publish
  <2>1. 0 \in 0 .. Period
      BY DurationFacts
  <2> QED BY <1>3, <2>1
          DEF Publish, Duplicate, DuplicateInv, DupTypeOK, OldSpokeLast, ContendersChangeOld, SuspectsSpoke
<1>4. CASE Second
    BY <1>4, SecondKeeps
<1>5. CASE UNCHANGED DupVars
    BY <1>5 DEF DupVars, publisher, DuplicateInv, DupTypeOK, OldSpokeLast, ContendersChangeOld, SuspectsSpoke
<1> QED BY <1>1, <1>2, <1>3, <1>4, <1>5 DEF DupNext

\* The ages that duplicateIOCcheck compares stay within the range it tells apart,
\* and the last suspect change is not later than the last change.
THEOREM DuplicateTypesHold == DupSpec => []DupTypeOK
<1>1. DuplicateInv => DupTypeOK
    BY DEF DuplicateInv
<1> QED BY <1>1, DuplicateInit, DuplicateStep, PTL DEF DupSpec

\* Two IOCs that keep sending raise the flag in time and keep it up, and an IOC
\* that has the BPM to itself clears it: for every number of senders and however
\* their packets are spread over time.
THEOREM FlagIsRight == DupSpec => []FlagTellsContention
<1>1. ASSUME DuplicateInv PROVE FlagTellsContention
  <2>1. /\ sinceChanged \in Int /\ sinceDuplicate \in Int /\ contended \in Int /\ uptime \in Int
        /\ \A i \in IOC : silent[i] \in Int
      BY <1>1, DurationFacts DEF DuplicateInv, DupTypeOK, Age
  <2>2. ContentionDetected
      BY <1>1, <2>1, DurationFacts
      DEF DuplicateInv, ContendersChangeOld, ContentionDetected, Duplicate
  <2>3. ASSUME uptime >= Change + Hold,
               NEW i \in IOC, \A j \in IOC \ {i} : silent[j] >= Change + Hold,
               sinceDuplicate < Hold
        PROVE  FALSE
    <3>1. \A j \in IOC \ {i} : ~(silent[j] < sinceDuplicate + Change)
        BY <2>1, <2>3, DurationFacts
    <3>2. ~(uptime < sinceDuplicate + Change)
        BY <2>1, <2>3, DurationFacts
    <3> QED BY <1>1, <3>1, <3>2 DEF DuplicateInv, SuspectsSpoke
  <2>4. FlagClears
      BY <2>3 DEF FlagClears, Duplicate
  <2> QED BY <2>2, <2>4 DEF FlagTellsContention
<1> QED BY <1>1, DuplicateInit, DuplicateStep, PTL DEF DupSpec
(***************************************************************************)
(* The calibration tables, for all numbers of channels and rows, and all     *)
(* tables and lengths of texts: what is in flash memory is a table that was  *)
(* accepted, or shows that it is not.                                       *)
(***************************************************************************)

GainTable == [AttenRow -> [Channel -> Int]]
OscillatorImage == [rows : Int, text : Texts \cup {""}, complete : BOOLEAN]
OscillatorTable == [rows : 0 .. Rows, row : [1 .. Rows -> Texts \cup {""}]]

AttenuatorTypes ==
  /\ afeAttenTable \in GainTable /\ attenuationIndex \in Int
  /\ gainFactor \in [Channel -> Int]
  /\ afeTrim \in [Channel -> Nat] /\ trimImage \in [Channel -> Nat]

\* A table of gains is one that was accepted, or a row of it is erased.
GainsWhole ==
  /\ attenImage \in GainTable
  /\ \/ attenImage \in AttenTables /\ Accepted(attenImage)
     \/ \E r \in AttenRow : attenImage[r] = Uniform(NaN)
  /\ \A new \in keptAtten : new = attenImage /\ new \in AttenTables /\ Accepted(new)

\* A table of an oscillator whose checksum is right is one that was accepted.
OscillatorsWhole ==
  /\ oscillatorImage \in [Oscillator -> OscillatorImage]
  /\ \A o \in Oscillator :
       oscillatorImage[o].complete =>
         oscillatorImage[o].rows >= MinRows /\ oscillatorImage[o].text \in Texts
  /\ keptOscillator \in [Oscillator -> SUBSET OscillatorImage]
  /\ \A o \in Oscillator : \A new \in keptOscillator[o] :
       new = oscillatorImage[o] /\ new.complete

TablesInv ==
  /\ TablesTypeOK
  /\ AttenuatorTypes
  /\ GainsWhole
  /\ OscillatorsWhole
  /\ GainFollowsTable
  /\ WholeTableInUse
  /\ OscillatorsRunOnTables

\* The constants.
LEMMA TableFacts ==
  /\ Channel # {} /\ Startup \in AttenRow /\ AttenRow \subseteq Int
  /\ FullScale \in Nat /\ MaxSteps \in Nat
  /\ AttenTables \subseteq GainTable
  /\ Decibels \subseteq Int /\ Gains \subseteq Int /\ Shifts \subseteq Int
  /\ Trims \subseteq [Channel -> Nat]
  /\ MinRows \in Nat /\ MinRows > 0 /\ Rows \in Nat /\ MinRows < Rows
  /\ Lengths \subseteq Nat
  /\ Stages \in Nat /\ Decimation \in Nat
BY TablesAssumption DEF GainTable

\* An erased table of an oscillator is an image that is not complete.
LEMMA ErasedIsIncomplete ==
  ErasedOscillator \in OscillatorImage /\ ~ErasedOscillator.complete
BY DEF ErasedOscillator, OscillatorImage

\* Replacing one of the two fields.
LEMMA NewRow ==
  ASSUME NEW rows, NEW row, NEW t, t = [rows |-> rows, row |-> row], NEW other
  PROVE  [t EXCEPT !.row = other] = [rows |-> rows, row |-> other]
OBVIOUS

\* A table of which the rows are overwritten.
LEMMA NewRows ==
  ASSUME NEW t \in OscillatorTable, NEW row \in [1 .. Rows -> Texts \cup {""}]
  PROVE  [t EXCEPT !.row = row] \in OscillatorTable
<1>1. PICK a \in 0 .. Rows, b \in [1 .. Rows -> Texts \cup {""}] :
        t = [rows |-> a, row |-> b]
    BY DEF OscillatorTable
<1>2. [t EXCEPT !.row = row] = [rows |-> a, row |-> row]
    BY <1>1, NewRow
<1> QED BY <1>1, <1>2 DEF OscillatorTable

\* What is clamped is within its limits.
LEMMA ClampBounds ==
  ASSUME NEW x \in Int, NEW low \in Int, NEW high \in Int, low <= high
  PROVE  Clamp(x, low, high) \in low .. high
BY DEF Clamp

\* A count of halvings is a number.
LEMMA CicShiftType == ASSUME NEW x PROVE cicShift(x) \in Int
<1> DEFINE S == {n \in 0 .. 30 : 2^n < x}
<1>1. IsFiniteSet(0 .. 30)
  <2>1. \A a, b \in Int : IsFiniteSet(a .. b)
      BY FS_Interval
  <2>2. 0 \in Int /\ 30 \in Int
      OBVIOUS
  <2> QED BY <2>1, <2>2, Zenon
<1>2. IsFiniteSet(S)
    BY <1>1, FS_Subset
<1>3. Cardinality(S) \in Nat
    BY <1>2, FS_CardinalityType
<1> QED BY <1>3 DEF cicShift

\* The products are numbers.
LEMMA CompensationType ==
  ASSUME NEW gain \in Int, NEW factors \in GainTable, NEW dB, NEW c \in Channel
  PROVE  Compensation(gain, factors, dB, c) \subseteq Int
<1>1. ASSUME NEW q \in Int PROVE (gain * q + 2) \div 4 \in Int
    OBVIOUS
<1>2. dB \in AttenRow => factors[dB][c] \in Int
    BY DEF GainTable
<1>3. 0 \in Int /\ FullScale \in Int /\ Beyond \in Int
    BY TableFacts DEF Beyond
<1>4. CASE dB \in AttenRow /\ factors[dB][c] # NaN
    BY <1>1, <1>2, <1>4 DEF Compensation
<1>5. CASE ~(dB \in AttenRow /\ factors[dB][c] # NaN)
    BY <1>3, <1>5 DEF Compensation
<1> QED BY <1>4, <1>5

\* Tables in which a row is erased are not used, those accepted are if all their
\* factors are numbers.
LEMMA InUseWhole ==
  ASSUME GainsWhole
  PROVE  /\ InUse(attenImage) \in GainTable
         /\ \/ InUse(attenImage) = Ones
            \/ InUse(attenImage) \in AttenTables /\ Accepted(InUse(attenImage))
         /\ \A new \in keptAtten : AllNumbers(new) => InUse(attenImage) = new
<1>1. Ones \in GainTable
    BY DEF Ones, Uniform, GainTable
<1>2. ASSUME attenImage \in AttenTables, Accepted(attenImage)
      PROVE  /\ InUse(attenImage) \in {attenImage, Ones}
             /\ AllNumbers(attenImage) => InUse(attenImage) = attenImage
  <2>1. AllNumbers(attenImage) =>
          \A r \in AttenRow, c \in Channel : attenImage[r][c] \in 0 .. 4
      BY <1>2 DEF Accepted, AllNumbers, NaN
  <2> QED BY <2>1 DEF InUse, Quarters
<1>3. ASSUME NEW r \in AttenRow, attenImage[r] = Uniform(NaN)
      PROVE  InUse(attenImage) = Ones
  <2>1. PICK c \in Channel : TRUE
      BY TableFacts
  <2>2. attenImage[r][c] = -1
      BY <1>3 DEF Uniform, NaN
  <2>3. ~Quarters(attenImage[r][c])
      BY <2>2 DEF Quarters
  <2> QED BY <2>3 DEF InUse
<1> QED BY <1>1, <1>2, <1>3 DEF GainsWhole

\* An image that start-up takes: the table has one text up to its last row.
LEMMA HoldingWhole ==
  ASSUME OscillatorsWhole, NEW o \in Oscillator, GoodTable(oscillatorImage[o])
  PROVE  /\ Holding(oscillatorImage[o]) \in OscillatorTable
         /\ \E text \in Texts : \A i \in 1 .. Rows :
              Holding(oscillatorImage[o]).row[i] =
                IF i <= Holding(oscillatorImage[o]).rows THEN text ELSE ""
<1> DEFINE image == oscillatorImage[o]
<1>1. /\ image.complete /\ image.rows >= MinRows /\ image.rows < Rows
      /\ image.rows \in Int /\ image.text \in Texts
    BY DEF OscillatorsWhole, OscillatorImage, GoodTable
<1>2. image.rows \in 0 .. Rows
    BY <1>1, TableFacts
<1>3. /\ Holding(image).rows = image.rows
      /\ Holding(image).row = [i \in 1 .. Rows |-> IF i <= image.rows THEN image.text ELSE ""]
      /\ Holding(image) = [rows |-> Holding(image).rows, row |-> Holding(image).row]
    BY <1>1 DEF Holding
<1>4. Holding(image).row \in [1 .. Rows -> Texts \cup {""}]
    BY <1>1, <1>3
<1> HIDE DEF image
<1>5. Holding(image) \in OscillatorTable
    BY <1>2, <1>3, <1>4 DEF OscillatorTable
<1> QED BY <1>1, <1>3, <1>5 DEF image

\* The invariant holds at first.
LEMMA TablesInitHolds == TablesInit => TablesInv
<1> SUFFICES ASSUME TablesInit PROVE TablesInv
    OBVIOUS
<1>1. /\ ErasedTable \in GainTable
      /\ \E r \in AttenRow : ErasedTable[r] = Uniform(NaN)
      /\ Uniform(0) \in [Channel -> Nat] /\ Uniform(0) \in [Channel -> Int]
      /\ Uniform(0) \in [Channel -> 0 .. FullScale]
      /\ \A c \in Channel : Uniform(0)[c] \in 0 .. MaxSteps
    BY TableFacts DEF ErasedTable, GainTable, Uniform, NaN
<1>2. EmptyTable \in OscillatorTable
    BY TableFacts DEF EmptyTable, OscillatorTable
<1>3. TablesTypeOK
  <2>1. table \in [Oscillator -> OscillatorTable] /\ bank \in [Oscillator -> OscillatorTable]
      BY <1>2 DEF TablesInit
  <2>2. sumShift \in [tbt : 0 .. 15, mt : 0 .. 15, fa : 0 .. 15]
      BY DEF TablesInit
  <2> QED BY <1>1, <2>1, <2>2 DEF TablesInit, TablesTypeOK, OscillatorTable
<1>4. AttenuatorTypes
    BY <1>1 DEF TablesInit, AttenuatorTypes
<1>5. GainsWhole
    BY <1>1 DEF TablesInit, GainsWhole
<1>6. OscillatorsWhole
  <2>1. ErasedOscillator \in OscillatorImage /\ ~ErasedOscillator.complete
      BY ErasedIsIncomplete
  <2>2. \A o \in Oscillator : oscillatorImage[o] = ErasedOscillator /\ keptOscillator[o] = {}
      BY DEF TablesInit
  <2>3. /\ oscillatorImage \in [Oscillator -> OscillatorImage]
        /\ keptOscillator \in [Oscillator -> SUBSET OscillatorImage]
      BY <2>1 DEF TablesInit
  <2> QED BY <2>1, <2>2, <2>3 DEF OscillatorsWhole
<1>7. GainFollowsTable /\ WholeTableInUse /\ OscillatorsRunOnTables
    BY DEF TablesInit, GainFollowsTable, WholeTableInUse, OscillatorsRunOnTables
<1> QED BY <1>3, <1>4, <1>5, <1>6, <1>7 DEF TablesInv
\* What a setting of the attenuators leaves.
LEMMA AttenSetKeeps ==
  ASSUME TablesTypeOK, NEW dB \in Int, NEW factors \in GainTable,
         NEW trims \in [Channel -> Nat], NEW gains \in [Channel -> 0 .. FullScale],
         NEW lost, AttenSet(dB, factors, trims, gains, lost)
  PROVE  /\ \A c \in Channel : attenuator'[c] \in 0 .. MaxSteps
         /\ attenuationIndex' = dB
         /\ gainFactor' \in [Channel -> Int]
         /\ \A c \in Channel : gainFactor'[c] \in Compensation(gains[c], factors, dB, c)
<1>1. \A c \in Channel : Steps(dB, trims, c) \in 0 .. MaxSteps
  <2> SUFFICES ASSUME NEW c \in Channel PROVE Steps(dB, trims, c) \in 0 .. MaxSteps
      OBVIOUS
  <2>1. 4 * dB + trims[c] \in Int
      OBVIOUS
  <2>2. 0 \in Int /\ MaxSteps \in Int /\ 0 <= MaxSteps
      BY TableFacts
  <2> QED BY <2>1, <2>2, ClampBounds, Zenon DEF Steps
<1>2. PICK missed \in SUBSET Channel :
        attenuator' = [c \in Channel |-> IF c \in missed THEN attenuator[c]
                                         ELSE Steps(dB, trims, c)]
    BY DEF AttenSet
<1>3. \A c \in Channel : attenuator'[c] \in 0 .. MaxSteps
    BY <1>1, <1>2 DEF TablesTypeOK
<1>4. gainFactor' \in [Channel -> 0 .. Beyond]
    BY DEF AttenSet, GainFactors
<1>5. \A c \in Channel : gainFactor'[c] \in Compensation(gains[c], factors, dB, c)
    BY DEF AttenSet, GainFactors
<1> QED BY <1>3, <1>4, <1>5 DEF AttenSet

\* A gain is set.
LEMMA SetGainKeeps ==
  ASSUME TablesInv, NEW c \in Channel, NEW gain \in Gains, SetGainCompensation(c, gain)
  PROVE  TablesInv'
<1>1. /\ gainCompensation' = [gainCompensation EXCEPT ![c] = Clamp(gain, 0, FullScale)]
      /\ UNCHANGED <<running, attenImage, oscillatorImage, trimImage, keptAtten, keptOscillator,
                     afeAttenTable, attenuationIndex, attenuator, afeTrim,
                     table, bank, oscillates, sumShift>>
    BY DEF SetGainCompensation, images, oscillators
<1>2. PICK g \in Compensation(gainCompensation'[c], afeAttenTable, attenuationIndex, c) :
        gainFactor' = [gainFactor EXCEPT ![c] = g]
    BY DEF SetGainCompensation
<1>3. gainCompensation \in [Channel -> 0 .. FullScale] /\ afeAttenTable \in GainTable
      /\ gainFactor \in [Channel -> Int]
    BY DEF TablesInv, TablesTypeOK, AttenuatorTypes
<1>4. Clamp(gain, 0, FullScale) \in 0 .. FullScale
  <2>1. gain \in Int /\ 0 \in Int /\ FullScale \in Int /\ 0 <= FullScale
      BY TableFacts
  <2> QED BY <2>1, ClampBounds, Zenon
<1>5. gainCompensation' \in [Channel -> 0 .. FullScale] /\ gainCompensation'[c] \in Int
    BY <1>1, <1>3, <1>4
<1>6. g \in Int
    BY <1>3, <1>5, CompensationType
<1>7. gainFactor' \in [Channel -> Int] /\ gainFactor'[c] = g
      /\ \A d \in Channel \ {c} :
           gainFactor'[d] = gainFactor[d] /\ gainCompensation'[d] = gainCompensation[d]
    BY <1>1, <1>2, <1>3, <1>6
<1>8. TablesTypeOK' /\ AttenuatorTypes'
    BY <1>1, <1>5, <1>7 DEF TablesInv, TablesTypeOK, AttenuatorTypes
<1>9. GainFollowsTable'
  <2> SUFFICES ASSUME running, attenuationIndex \in AttenRow, NEW d \in Channel
               PROVE  gainFactor'[d] \in
                        Compensation(gainCompensation'[d], afeAttenTable, attenuationIndex, d)
      BY <1>1 DEF GainFollowsTable, Compensation
  <2>1. CASE d = c
      BY <1>7, <2>1
  <2>2. CASE d # c
      BY <1>7, <2>2 DEF TablesInv, GainFollowsTable
  <2> QED BY <2>1, <2>2
<1>10. GainsWhole' /\ OscillatorsWhole' /\ WholeTableInUse' /\ OscillatorsRunOnTables'
    BY <1>1 DEF TablesInv, GainsWhole, OscillatorsWhole, WholeTableInUse, OscillatorsRunOnTables
<1> QED BY <1>8, <1>9, <1>10 DEF TablesInv

\* An attenuation is set.
LEMMA AttenSetCommandKeeps ==
  ASSUME TablesInv, NEW dB \in Decibels, AttenSetCommand(dB)
  PROVE  TablesInv'
<1>1. /\ UNCHANGED <<running, attenImage, oscillatorImage, trimImage, keptAtten, keptOscillator,
                     afeAttenTable, gainCompensation, afeTrim, table, bank, oscillates, sumShift>>
      /\ AttenSet(dB, afeAttenTable, afeTrim, gainCompensation, 0)
    BY DEF AttenSetCommand, images, oscillators
<1>2. /\ dB \in Int /\ afeAttenTable \in GainTable /\ afeTrim \in [Channel -> Nat]
      /\ gainCompensation \in [Channel -> 0 .. FullScale] /\ TablesTypeOK
    BY TableFacts DEF TablesInv, TablesTypeOK, AttenuatorTypes
<1>3. /\ \A c \in Channel : attenuator'[c] \in 0 .. MaxSteps
      /\ attenuationIndex' = dB
      /\ gainFactor' \in [Channel -> Int]
      /\ \A c \in Channel : gainFactor'[c] \in
                              Compensation(gainCompensation[c], afeAttenTable, dB, c)
    BY <1>1, <1>2, AttenSetKeeps
<1>4. TablesTypeOK' /\ AttenuatorTypes'
    BY <1>1, <1>2, <1>3 DEF TablesInv, TablesTypeOK, AttenuatorTypes
<1>5. GainFollowsTable'
    BY <1>1, <1>3 DEF GainFollowsTable, Compensation
<1>6. GainsWhole' /\ OscillatorsWhole' /\ WholeTableInUse' /\ OscillatorsRunOnTables'
    BY <1>1 DEF TablesInv, GainsWhole, OscillatorsWhole, WholeTableInUse, OscillatorsRunOnTables
<1> QED BY <1>4, <1>5, <1>6 DEF TablesInv

\* A write that fails leaves the old table, or a row that is erased.
LEMMA StoreAttenKeeps ==
  ASSUME GainsWhole, NEW new \in AttenTables, Accepted(new),
         NEW lost \in 0 .. 1, StoreAtten(new, lost)
  PROVE  GainsWhole'
<1>1. new \in GainTable
    BY TableFacts
<1>2. CASE attenImage' = new /\ keptAtten' = {new}
    BY <1>1, <1>2 DEF GainsWhole, Accepted
<1>3. CASE attenImage' \in FailedAtten(new) /\ keptAtten' = {}
  <2>1. CASE attenImage' = attenImage
      BY <1>3, <2>1 DEF GainsWhole, Accepted
  <2>2. CASE \E n \in AttenRow :
               attenImage' = [r \in AttenRow |-> IF r < n THEN new[r] ELSE Uniform(NaN)]
    <3>1. PICK n \in AttenRow :
            attenImage' = [r \in AttenRow |-> IF r < n THEN new[r] ELSE Uniform(NaN)]
        BY <2>2
    <3>2. n \in Int /\ ~(n < n)
        BY TableFacts
    <3>3. attenImage'[n] = Uniform(NaN)
        BY <3>1, <3>2
    <3>4. Uniform(NaN) \in [Channel -> Int]
        BY DEF Uniform, NaN
    <3>5. attenImage' \in GainTable
        BY <1>1, <3>1, <3>4 DEF GainTable
    <3> QED BY <1>3, <3>3, <3>5 DEF GainsWhole, Uniform, NaN
  <2> QED BY <1>3, <2>1, <2>2 DEF FailedAtten
<1> QED BY <1>2, <1>3 DEF StoreAtten

\* A table of gains is uploaded.
LEMMA AttenSetTableKeeps ==
  ASSUME TablesInv, NEW new \in AttenTables, AttenSetTable(new)
  PROVE  TablesInv'
<1>1. UNCHANGED <<running, oscillatorImage, trimImage, keptOscillator, gainCompensation,
                  afeTrim, table, bank, oscillates, sumShift>>
    BY DEF AttenSetTable, oscillators
<1>2. OscillatorsWhole' /\ OscillatorsRunOnTables'
    BY <1>1 DEF TablesInv, OscillatorsWhole, OscillatorsRunOnTables
<1>3. CASE ~Accepted(new)
  <2>1. UNCHANGED <<afeAttenTable, attenuationIndex, attenuator, gainFactor, attenImage, keptAtten>>
      BY <1>3 DEF AttenSetTable, NoAttenUpload, attenuators
  <2>2. TablesTypeOK' /\ AttenuatorTypes'
      BY <1>1, <2>1 DEF TablesInv, TablesTypeOK, AttenuatorTypes
  <2>3. GainsWhole' /\ GainFollowsTable' /\ WholeTableInUse'
      BY <1>1, <2>1
      DEF TablesInv, GainsWhole, GainFollowsTable, WholeTableInUse, Compensation, Accepted
  <2> QED BY <1>2, <2>2, <2>3 DEF TablesInv
<1>4. CASE Accepted(new)
  <2>1. afeAttenTable' = new
      BY <1>4 DEF AttenSetTable
  <2>2. PICK lost \in 0 .. 1 :
          /\ AttenSet(attenuationIndex, new, afeTrim, gainCompensation, lost)
          /\ StoreAtten(new, lost)
      BY <1>4 DEF AttenSetTable
  <2>3. /\ attenuationIndex \in Int /\ new \in GainTable /\ afeTrim \in [Channel -> Nat]
        /\ gainCompensation \in [Channel -> 0 .. FullScale] /\ TablesTypeOK
      BY TableFacts DEF TablesInv, TablesTypeOK, AttenuatorTypes
  <2>4. /\ \A c \in Channel : attenuator'[c] \in 0 .. MaxSteps
        /\ attenuationIndex' = attenuationIndex
        /\ gainFactor' \in [Channel -> Int]
        /\ \A c \in Channel : gainFactor'[c] \in
                                Compensation(gainCompensation[c], new, attenuationIndex, c)
      BY <2>2, <2>3, AttenSetKeeps
  <2>5. TablesTypeOK' /\ AttenuatorTypes'
      BY <1>1, <2>1, <2>3, <2>4 DEF TablesInv, TablesTypeOK, AttenuatorTypes
  <2>6. GainFollowsTable'
      BY <1>1, <2>1, <2>4 DEF GainFollowsTable, Compensation
  <2>7. GainsWhole'
      BY <1>4, <2>2, StoreAttenKeeps DEF TablesInv
  <2>8. WholeTableInUse'
      BY <1>4, <2>1 DEF WholeTableInUse, Accepted
  <2> QED BY <1>2, <2>5, <2>6, <2>7, <2>8 DEF TablesInv
<1> QED BY <1>3, <1>4
\* A text of an oscillator is stored, or what the write leaves is not complete.
LEMMA StoreOscillatorKeeps ==
  ASSUME OscillatorsWhole, NEW o \in Oscillator,
         NEW new \in OscillatorImage, new.complete, new.rows >= MinRows, new.text \in Texts,
         StoreOscillator(o, new)
  PROVE  OscillatorsWhole'
<1>1. CASE /\ oscillatorImage' = [oscillatorImage EXCEPT ![o] = new]
           /\ keptOscillator' = [keptOscillator EXCEPT ![o] = {new}]
    BY <1>1 DEF OscillatorsWhole
<1>2. ASSUME NEW image \in FailedOscillator(o, new),
             oscillatorImage' = [oscillatorImage EXCEPT ![o] = image],
             keptOscillator' = [keptOscillator EXCEPT ![o] = {}]
      PROVE  OscillatorsWhole'
  <2>1. ErasedOscillator \in OscillatorImage /\ ~ErasedOscillator.complete
      BY ErasedIsIncomplete
  <2>2. /\ [new EXCEPT !.complete = FALSE] \in OscillatorImage
        /\ ~[new EXCEPT !.complete = FALSE].complete
      BY DEF OscillatorImage
  <2>3. /\ image \in OscillatorImage
        /\ image.complete => image.rows >= MinRows /\ image.text \in Texts
      BY <1>2, <2>1, <2>2 DEF FailedOscillator, OscillatorsWhole
  <2> QED BY <1>2, <2>3 DEF OscillatorsWhole
<1> QED BY <1>1, <1>2 DEF StoreOscillator

\* A table of an oscillator is uploaded.
LEMMA LocalOscSetTableKeeps ==
  ASSUME TablesInv, NEW o \in Oscillator, NEW text \in Texts, NEW n \in Lengths,
         NEW good \in 0 .. n, LocalOscSetTable(o, text, n, good)
  PROVE  TablesInv'
<1>1. UNCHANGED <<running, attenImage, trimImage, keptAtten, afeAttenTable, attenuationIndex,
                  gainCompensation, attenuator, gainFactor, afeTrim, bank, oscillates, sumShift>>
    BY DEF LocalOscSetTable, attenuators
<1>2. /\ AttenuatorTypes' /\ GainsWhole' /\ WholeTableInUse' /\ OscillatorsRunOnTables'
      /\ GainFollowsTable'
    BY <1>1 DEF TablesInv, AttenuatorTypes, GainsWhole, WholeTableInUse, OscillatorsRunOnTables,
                GainFollowsTable, Compensation
<1>3. table \in [Oscillator -> OscillatorTable]
    BY DEF TablesInv, TablesTypeOK, OscillatorTable
<1>4. \A m : Overwritten(o, text, m) \in [1 .. Rows -> Texts \cup {""}]
  <2> SUFFICES ASSUME NEW m, NEW i \in 1 .. Rows PROVE table[o].row[i] \in Texts \cup {""}
      BY DEF Overwritten
  <2> QED BY <1>3 DEF OscillatorTable
<1>5. CASE good = n /\ n >= MinRows /\ n <= Rows
  <2> DEFINE new == [rows |-> n, text |-> text, complete |-> TRUE]
             next == [rows |-> n, row |-> Overwritten(o, text, n)]
  <2>1. table' = [table EXCEPT ![o] = next] /\ StoreOscillator(o, new)
      BY <1>5 DEF LocalOscSetTable
  <2>2. n \in 0 .. Rows /\ n \in Int
      BY <1>5, TableFacts
  <2>3. next \in OscillatorTable
      BY <1>4, <2>2 DEF OscillatorTable
  <2>4. new \in OscillatorImage /\ new.complete /\ new.rows >= MinRows /\ new.text \in Texts
      BY <1>5, <2>2 DEF OscillatorImage
  <2> HIDE DEF new, next
  <2>5. OscillatorsWhole'
      BY <2>1, <2>4, StoreOscillatorKeeps DEF TablesInv
  <2>6. table' \in [Oscillator -> OscillatorTable]
      BY <1>3, <2>1, <2>3
  <2>7. TablesTypeOK'
      BY <1>1, <2>6 DEF TablesInv, TablesTypeOK, OscillatorTable
  <2> QED BY <1>2, <2>5, <2>7 DEF TablesInv
<1>6. CASE ~(good = n /\ n >= MinRows /\ n <= Rows)
  <2> DEFINE next == [table[o] EXCEPT !.row = Overwritten(o, text, good)]
  <2>1. UNCHANGED <<oscillatorImage, keptOscillator>>
      BY <1>6 DEF LocalOscSetTable
  <2>2. table' = [table EXCEPT ![o].row = Overwritten(o, text, good)]
      BY <1>6 DEF LocalOscSetTable
  <2>3. table' = [table EXCEPT ![o] = next]
      BY <2>2
  <2>4. next \in OscillatorTable
      BY <1>3, <1>4, NewRows
  <2> HIDE DEF next
  <2>5. table' \in [Oscillator -> OscillatorTable]
      BY <1>3, <2>3, <2>4
  <2>6. TablesTypeOK'
      BY <1>1, <2>5 DEF TablesInv, TablesTypeOK, OscillatorTable
  <2> QED BY <1>2, <2>1, <2>6 DEF TablesInv, OscillatorsWhole
<1> QED BY <1>5, <1>6

\* A shift is set.
LEMMA SetSumShiftKeeps ==
  ASSUME TablesInv, NEW field \in {"tbt", "mt"}, NEW shift \in Shifts, SetSumShift(field, shift)
  PROVE  TablesInv'
<1> DEFINE x == Clamp(shift, 0, 15)
<1>1. x \in 0 .. 15
    BY TableFacts DEF Clamp
<1>2. sumShift' = [sumShift EXCEPT ![field] = x]
    BY DEF SetSumShift
<1> HIDE DEF x
<1>3. sumShift' \in [tbt : 0 .. 15, mt : 0 .. 15, fa : 0 .. 15]
    BY <1>1, <1>2 DEF TablesInv, TablesTypeOK
<1>4. UNCHANGED <<running, images, attenuators, afeTrim, oscillators>>
    BY DEF SetSumShift
<1>5. TablesTypeOK' /\ AttenuatorTypes'
    BY <1>3, <1>4 DEF TablesInv, TablesTypeOK, AttenuatorTypes, images, attenuators, oscillators
<1>6. GainsWhole' /\ OscillatorsWhole' /\ WholeTableInUse' /\ OscillatorsRunOnTables'
    BY <1>4 DEF TablesInv, GainsWhole, OscillatorsWhole, WholeTableInUse, OscillatorsRunOnTables,
                images, attenuators, oscillators
<1>7. GainFollowsTable'
    BY <1>4 DEF TablesInv, GainFollowsTable, Compensation, attenuators
<1> QED BY <1>5, <1>6, <1>7 DEF TablesInv

\* The start-up takes what is whole, and computes the gains from it.
LEMMA StartKeeps == ASSUME TablesInv, Start PROVE TablesInv'
<1>1. /\ afeTrim' = trimImage /\ afeAttenTable' = InUse(attenImage)
      /\ gainCompensation' = Uniform(FullScale)
      /\ AttenSet(Startup, afeAttenTable', trimImage, gainCompensation', 0)
      /\ UNCHANGED <<attenImage, oscillatorImage, trimImage, keptAtten, keptOscillator>>
    BY DEF Start, images
<1>2. /\ afeAttenTable' \in GainTable /\ trimImage \in [Channel -> Nat] /\ Startup \in Int
      /\ gainCompensation' \in [Channel -> 0 .. FullScale] /\ TablesTypeOK
      /\ \/ afeAttenTable' = Ones
         \/ afeAttenTable' \in AttenTables /\ Accepted(afeAttenTable')
    BY <1>1, TableFacts, InUseWhole DEF TablesInv, AttenuatorTypes, Uniform
<1>3. /\ \A c \in Channel : attenuator'[c] \in 0 .. MaxSteps
      /\ attenuationIndex' = Startup
      /\ gainFactor' \in [Channel -> Int]
      /\ \A c \in Channel : gainFactor'[c] \in
                              Compensation(gainCompensation'[c], afeAttenTable', Startup, c)
    BY <1>1, <1>2, AttenSetKeeps
<1> DEFINE found == {o \in Oscillator : GoodTable(oscillatorImage[o])}
           Taken(old0) == [o \in Oscillator |->
                             IF o \in found THEN Holding(oscillatorImage[o]) ELSE old0[o]]
<1>4. table' = Taken(table) /\ bank' = Taken(bank) /\ oscillates' = (found = Oscillator)
    BY DEF Start
<1>5. \A o \in found : Holding(oscillatorImage[o]) \in OscillatorTable
    BY HoldingWhole DEF TablesInv
<1>6. table' \in [Oscillator -> OscillatorTable] /\ bank' \in [Oscillator -> OscillatorTable]
    BY <1>4, <1>5 DEF TablesInv, TablesTypeOK, OscillatorTable
<1>7. FaShift(oscillatorImage["pt"].rows) \in 0 .. 15
  <2>1. cicShift(Decimation^Stages) \in Int
        /\ cicShift(ActualDecimation(oscillatorImage["pt"].rows)^Stages) \in Int
      BY CicShiftType
  <2> DEFINE y == cicShift(Decimation^Stages)
                    - cicShift(ActualDecimation(oscillatorImage["pt"].rows)^Stages)
  <2>2. y \in Int
      BY <2>1
  <2> HIDE DEF y
  <2>3. Clamp(y, 0, 15) \in 0 .. 15
      BY <2>2 DEF Clamp
  <2>4. sumShift.fa \in 0 .. 15
      BY DEF TablesInv, TablesTypeOK
  <2> QED BY <2>3, <2>4 DEF FaShift, y
<1>8. sumShift' \in [tbt : 0 .. 15, mt : 0 .. 15, fa : 0 .. 15]
    BY <1>7 DEF Start, TablesInv, TablesTypeOK
<1>9. running' = TRUE /\ oscillates' \in BOOLEAN
    BY <1>4 DEF Start
<1>10. TablesTypeOK' /\ AttenuatorTypes'
    BY <1>1, <1>2, <1>3, <1>6, <1>8, <1>9 DEF TablesTypeOK, AttenuatorTypes, OscillatorTable
<1>11. GainFollowsTable'
    BY <1>3 DEF GainFollowsTable, Compensation
<1>12. WholeTableInUse'
    BY <1>2 DEF WholeTableInUse, Accepted, Ones
<1>13. OscillatorsRunOnTables'
  <2> SUFFICES ASSUME found = Oscillator, NEW o \in Oscillator
               PROVE  \E text \in Texts : \A i \in 1 .. Rows :
                        bank'[o].row[i] = IF i <= bank'[o].rows THEN text ELSE ""
      BY <1>4 DEF OscillatorsRunOnTables
  <2>1. bank'[o] = Holding(oscillatorImage[o]) /\ GoodTable(oscillatorImage[o])
      BY <1>4
  <2>2. OscillatorsWhole
      BY DEF TablesInv
  <2>3. PICK text \in Texts : \A i \in 1 .. Rows :
          Holding(oscillatorImage[o]).row[i] =
            IF i <= Holding(oscillatorImage[o]).rows THEN text ELSE ""
      BY <2>1, <2>2, HoldingWhole
  <2> QED BY <2>1, <2>3
<1>14. GainsWhole' /\ OscillatorsWhole'
    BY <1>1 DEF TablesInv, GainsWhole, OscillatorsWhole
<1> QED BY <1>10, <1>11, <1>12, <1>13, <1>14 DEF TablesInv

\* The power goes and what is in flash memory stays.
LEMMA StopKeeps == ASSUME TablesInv, Stop PROVE TablesInv'
<1>1. /\ afeAttenTable' = ErasedTable /\ attenuationIndex' = 0 /\ running' = FALSE
      /\ gainCompensation' = Uniform(0) /\ afeTrim' = Uniform(0)
      /\ attenuator' = Uniform(0) /\ gainFactor' = Uniform(0)
      /\ table' = [o \in Oscillator |-> EmptyTable]
      /\ bank' = [o \in Oscillator |-> EmptyTable]
      /\ oscillates' = FALSE
      /\ sumShift' = [tbt |-> 0, mt |-> 0, fa |-> 0]
      /\ UNCHANGED <<attenImage, oscillatorImage, trimImage, keptAtten, keptOscillator>>
    BY DEF Stop, images
<1>2. /\ ErasedTable \in GainTable
      /\ Uniform(0) \in [Channel -> Nat] /\ Uniform(0) \in [Channel -> Int]
      /\ Uniform(0) \in [Channel -> 0 .. FullScale]
      /\ \A c \in Channel : Uniform(0)[c] \in 0 .. MaxSteps
    BY TableFacts DEF ErasedTable, GainTable, Uniform, NaN
<1>3. EmptyTable \in OscillatorTable
    BY TableFacts DEF EmptyTable, OscillatorTable
<1>4. TablesTypeOK'
  <2>1. table' \in [Oscillator -> OscillatorTable] /\ bank' \in [Oscillator -> OscillatorTable]
      BY <1>1, <1>3
  <2>2. sumShift' \in [tbt : 0 .. 15, mt : 0 .. 15, fa : 0 .. 15]
      BY <1>1
  <2> QED BY <1>1, <1>2, <2>1, <2>2 DEF TablesTypeOK, OscillatorTable
<1>5. AttenuatorTypes'
    BY <1>1, <1>2 DEF TablesInv, AttenuatorTypes
<1>6. GainsWhole' /\ OscillatorsWhole'
    BY <1>1 DEF TablesInv, GainsWhole, OscillatorsWhole
<1>7. GainFollowsTable' /\ WholeTableInUse' /\ OscillatorsRunOnTables'
    BY <1>1 DEF GainFollowsTable, WholeTableInUse, OscillatorsRunOnTables
<1> QED BY <1>4, <1>5, <1>6, <1>7 DEF TablesInv
\* Every step keeps the invariant.
LEMMA TablesStep == ASSUME TablesInv, [TablesNext]_TablesVars PROVE TablesInv'
<1>1. CASE Start
    BY <1>1, StartKeeps
<1>2. CASE Stop
    BY <1>2, StopKeeps
<1>3. CASE \E c \in Channel, gain \in Gains : SetGainCompensation(c, gain)
    BY <1>3, SetGainKeeps
<1>4. CASE \E dB \in Decibels : AttenSetCommand(dB)
    BY <1>4, AttenSetCommandKeeps
<1>5. CASE \E trims \in Trims : UploadTrims(trims)
  <2>1. PICK trims \in Trims : UploadTrims(trims)
      BY <1>5
  <2>2. /\ afeTrim' = trims /\ trimImage' = trims /\ trims \in [Channel -> Nat]
        /\ UNCHANGED <<running, attenImage, oscillatorImage, keptAtten, keptOscillator,
                       attenuators, oscillators, sumShift>>
      BY <2>1, TableFacts DEF UploadTrims
  <2>3. TablesTypeOK' /\ AttenuatorTypes'
      BY <2>2 DEF TablesInv, TablesTypeOK, AttenuatorTypes, attenuators, oscillators
  <2>4. GainsWhole' /\ OscillatorsWhole' /\ WholeTableInUse' /\ OscillatorsRunOnTables'
      BY <2>2 DEF TablesInv, GainsWhole, OscillatorsWhole, WholeTableInUse,
                  OscillatorsRunOnTables, attenuators, oscillators
  <2>5. GainFollowsTable'
      BY <2>2 DEF TablesInv, GainFollowsTable, Compensation, attenuators
  <2> QED BY <2>3, <2>4, <2>5 DEF TablesInv
<1>6. CASE \E new \in AttenTables : AttenSetTable(new)
    BY <1>6, AttenSetTableKeeps
<1>7. CASE \E o \in Oscillator, text \in Texts, n \in Lengths : \E good \in 0 .. n :
             LocalOscSetTable(o, text, n, good)
    BY <1>7, LocalOscSetTableKeeps
<1>8. CASE \E field \in {"tbt", "mt"}, shift \in Shifts : SetSumShift(field, shift)
    BY <1>8, SetSumShiftKeeps
<1>9. CASE UNCHANGED TablesVars
  <2>1. TablesTypeOK' /\ AttenuatorTypes'
      BY <1>9 DEF TablesVars, TablesInv, TablesTypeOK, AttenuatorTypes, images, attenuators, oscillators
  <2>2. GainsWhole' /\ OscillatorsWhole' /\ WholeTableInUse' /\ OscillatorsRunOnTables'
      BY <1>9 DEF TablesVars, TablesInv, GainsWhole, OscillatorsWhole, WholeTableInUse,
                  OscillatorsRunOnTables, images, attenuators, oscillators
  <2>3. GainFollowsTable'
      BY <1>9 DEF TablesVars, TablesInv, GainFollowsTable, Compensation, attenuators
  <2> QED BY <2>1, <2>2, <2>3 DEF TablesInv
<1> QED BY <1>1, <1>2, <1>3, <1>4, <1>5, <1>6, <1>7, <1>8, <1>9 DEF TablesNext

\* Gains, attenuators, shifts and tables stay within their registers and arrays,
\* whatever is uploaded or commanded, and whatever a start finds.
THEOREM TablesTypesHold == TablesSpec => []TablesTypeOK
<1>1. TablesInv => TablesTypeOK
    BY DEF TablesInv
<1> QED BY <1>1, TablesInitHolds, TablesStep, PTL DEF TablesSpec

\* The gain of each channel is that of the table, the attenuation and the gain
\* command in use, whichever of the three changed last.
THEOREM GainsFollowTables == TablesSpec => []GainFollowsTable
<1>1. TablesInv => GainFollowsTable
    BY DEF TablesInv
<1> QED BY <1>1, TablesInitHolds, TablesStep, PTL DEF TablesSpec

\* What is left of a write that failed, at whichever row, is never in use.
THEOREM TablesAreWhole == TablesSpec => []WholeTablesInUse
<1>1. TablesInv => WholeTablesInUse
    BY DEF TablesInv, WholeTablesInUse
<1> QED BY <1>1, TablesInitHolds, TablesStep, PTL DEF TablesSpec

\* Tables that were stored without a failure are in use after the next start,
\* and the oscillators run on them, but for a table that fills its array and a
\* table of gains with a factor that is no number.
THEOREM StoredIsInUse == TablesSpec => StoredTablesComeBack
<1> DEFINE ComesBack ==
             running' /\ ~running =>
               /\ \A new \in keptAtten : AllNumbers(new) => afeAttenTable' = new
               /\ \A o \in Oscillator : \A new \in keptOscillator[o] :
                    new.rows < Rows => bank'[o] = Holding(new)
               /\ (\A o \in Oscillator : \E new \in keptOscillator[o] : new.rows < Rows)
                    => oscillates'
<1>1. ASSUME TablesInv, Start PROVE ComesBack
  <2>1. \A new \in keptAtten : AllNumbers(new) => afeAttenTable' = new
      BY <1>1, InUseWhole DEF Start, TablesInv
  <2>2. \A o \in Oscillator : \A new \in keptOscillator[o] :
          new.rows < Rows => new = oscillatorImage[o] /\ GoodTable(oscillatorImage[o])
      BY <1>1 DEF TablesInv, OscillatorsWhole, GoodTable
  <2>3. \A o \in Oscillator : GoodTable(oscillatorImage[o]) => bank'[o] = Holding(oscillatorImage[o])
      BY <1>1 DEF Start
  <2>4. (\A o \in Oscillator : GoodTable(oscillatorImage[o])) => oscillates'
      BY <1>1 DEF Start
  <2> QED BY <2>1, <2>2, <2>3, <2>4
<1>2. ASSUME TablesInv, [TablesNext]_TablesVars PROVE [ComesBack]_TablesVars
  <2>1. CASE Start
      BY <1>1, <1>2, <2>1
  <2>2. CASE ~Start /\ ~UNCHANGED TablesVars
      BY <1>2, <2>2 DEF TablesNext, Stop, SetGainCompensation, AttenSetCommand, UploadTrims,
                        AttenSetTable, LocalOscSetTable, SetSumShift, Request
  <2> QED BY <1>2, <2>1, <2>2
<1>3. TablesInv /\ [TablesNext]_TablesVars => [ComesBack]_TablesVars
    BY <1>2
<1> QED BY <1>3, TablesInitHolds, TablesStep, PTL DEF TablesSpec, StoredTablesComeBack
(***************************************************************************)
(* The three side by side                                                  *)
(***************************************************************************)

\* Side by side the three parts keep their types.
THEOREM ServiceTypes == ServiceSpec => []ServiceTypesHold
<1> DEFINE Inv == ParametersInv /\ DuplicateInv /\ TablesInv
<1>1. ServiceInit => Inv
    BY ParametersInit, DuplicateInit, TablesInitHolds DEF ServiceInit
<1>2. Inv /\ [ServiceNext]_serviceVars => Inv'
  <2> SUFFICES ASSUME Inv, [ServiceNext]_serviceVars PROVE Inv'
      OBVIOUS
  <2>1. [Next]_vars /\ [DupNext]_DupVars /\ [TablesNext]_TablesVars
      BY DEF ServiceNext, serviceVars
  <2> QED BY <2>1, ParametersStep, DuplicateStep, TablesStep
<1>3. Inv => ServiceTypesHold
    BY DEF ServiceTypesHold, ParametersInv, DuplicateInv, TablesInv
<1> QED BY <1>1, <1>2, <1>3, PTL DEF ServiceSpec
=============================================================================
