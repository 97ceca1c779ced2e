--------------------------- MODULE SystemParameters ---------------------------
(***************************************************************************)
(* The system parameters (systemParameters.c): the structure in memory, its *)
(* image in flash memory (linearFlash.c), the two ways to change them, an   *)
(* uploaded Parameters.csv (tftp.c) and the console commands net and mac    *)
(* (console.c), and what start-up makes of the image.                      *)
(*                                                                         *)
(* Five fields stand for the twenty: mac and net are the network            *)
(* parameters, timing those that start-up checks (evrPerFaMarker,           *)
(* evrPerSaMarker, autoTrimStartEvent), rotation the one the upload checks,  *)
(* trim those that nothing checks (afeTrim).  A checksum stands for the      *)
(* values it was computed from: no two values have the same.               *)
(***************************************************************************)
EXTENDS Integers

CONSTANTS
  Version,   \* good values a field may be given, besides its default
  OddFields  \* fields that may get odd values

\* The order of the fields in the structure, which is that of the table.
Field == 1 .. 5
mac == 1
net == 2
timing == 3
rotation == 4
trim == 5

ASSUME ParametersAssumption == OddFields \subseteq Field

Default == "default"
Odd == "odd"       \* net: fails the test of readback; timing: fails it too;
                   \* rotation: neither 0 nor 45; mac, trim: parsed in part
Erased == "erased"

ASSUME VersionAssumption == {Odd, Erased} \cap Version = {}

Value == Version \cup {Default, Odd, Erased}
Values == [Field -> Value]
Image == [values : Values, sum : Values \cup {<<>>}] \* <<>> is no checksum

VARIABLES
  power,        \* is the BPM on?
  live,         \* systemParameters
  flash,        \* the image in flash memory
  consoleMode, pending, \* the console's question and the value it is about
  saved         \* the values last written to flash memory, <<>> if that failed

vars == <<power, live, flash, consoleMode, pending, saved>>

TypeOK ==
  /\ power \in BOOLEAN
  /\ live \in Image /\ flash \in Image
  /\ flash.sum \in {<<>>, flash.values} \* a complete image has its checksum
  /\ consoleMode \in {"command", "netQuery", "macQuery"}
  /\ pending \in Value
  /\ saved \in Values \cup {<<>>}

Defaults == [f \in Field |-> Default]
WithChecksum(v) == [values |-> v, sum |-> v]

Init ==
  /\ power = FALSE
  /\ flash = WithChecksum(Defaults)
  /\ live = flash
  /\ consoleMode = "command" /\ pending = Default
  /\ saved = Defaults

(***************************************************************************)
(* Start-up                                                                *)
(***************************************************************************)
CorruptIgnoringChecksum(image) == image.values[timing] \in {Odd, Erased} \* mutant

Corrupt(image) ==
  \/ image.sum # image.values
  \/ image.values[timing] \in {Odd, Erased}

\* A mask that is neither 24 nor 22 bits long, or a gateway elsewhere.
Questionable(v) == v[net] \in {Odd, Erased}

\* systemParametersReadback
Readback(image) ==
  IF ~Corrupt(image) THEN image
  ELSE WithChecksum(
         [f \in Field |-> IF f \in {mac, net} /\ ~Questionable(image.values)
                          THEN image.values[f] ELSE Default])

Boot ==
  /\ ~power
  /\ power' = TRUE
  /\ live' = Readback(flash)
  /\ consoleMode' = "command"
  /\ pending' = Default
  /\ UNCHANGED <<flash, saved>>

\* What is in memory is lost; what stands in its place does not matter.
Forgotten ==
  /\ live' = WithChecksum(Defaults)
  /\ consoleMode' = "command" /\ pending' = Default

Stops ==
  /\ power
  /\ power' = FALSE
  /\ Forgotten
  /\ UNCHANGED <<flash, saved>>

(***************************************************************************)
(* The flash memory: the page is erased and the image written from its      *)
(* beginning.                                                              *)
(***************************************************************************)
Torn(image) ==
  { [ values |-> [f \in Field |-> IF f <= n THEN image.values[f] ELSE Erased],
      sum |-> <<>> ] : n \in 0 .. 5 }

\* linearFlashWrite succeeds, ...
Written(image) ==
  /\ flash' = image
  /\ saved' = image.values
  /\ UNCHANGED power

\* ... fails, or is cut short by the power: Stops is the next step then.
NotWritten(image) ==
  /\ flash' \in Torn(image) \cup {flash}
  /\ saved' = <<>>
  /\ UNCHANGED power

(***************************************************************************)
(* Uploads                                                                 *)
(***************************************************************************)
Table == { [f \in Field |-> IF f = odd THEN Odd ELSE v] :
             odd \in (OddFields \ {mac, trim}) \cup {0}, v \in Version }

\* parseTable assigns line by line.  What a line it cannot parse leaves of its
\* field is what the field held, or a part of what the line says.
Parsed(table, lines, left) ==
  [f \in Field |-> IF f <= lines THEN table[f]
                   ELSE IF f = lines + 1 THEN left ELSE live.values[f]]

Left(f) == {live.values[f]} \cup {Odd : odd \in (OddFields \ {rotation}) \cap {f}}

UploadBadLine ==
  /\ power
  /\ \E table \in Table, lines \in 0 .. 4 : \E left \in Left(lines + 1) :
       live' = [live EXCEPT !.values = Parsed(table, lines, left)]
  /\ UNCHANGED <<power, flash, consoleMode, pending, saved>>

UploadBadRotation ==
  /\ power
  /\ \E table \in Table :
       /\ table[rotation] = Odd
       /\ live' = [live EXCEPT !.values = table]
  /\ UNCHANGED <<power, flash, consoleMode, pending, saved>>

Upload ==
  /\ power
  /\ \E table \in Table :
       /\ table[rotation] # Odd
       /\ live' = WithChecksum(table)
       /\ Written(live') \/ NotWritten(live')
  /\ UNCHANGED <<consoleMode, pending>>

(***************************************************************************)
(* The console.  net takes masks of 8 to 24 bits, so an odd one too.        *)
(***************************************************************************)
CmdNET ==
  /\ power /\ consoleMode = "command"
  /\ pending' \in (Version \cup {Odd}) \ {live.values[net]}
  /\ consoleMode' = "netQuery"
  /\ UNCHANGED <<power, live, flash, saved>>

CmdMAC ==
  /\ power /\ consoleMode = "command"
  /\ pending' \in Version \ {live.values[mac]}
  /\ consoleMode' = "macQuery"
  /\ UNCHANGED <<power, live, flash, saved>>

AnswerNo ==
  /\ power /\ consoleMode # "command"
  /\ consoleMode' = "command"
  /\ UNCHANGED <<power, live, flash, pending, saved>>

UpdateChecksumNot(image) == image \* mutant: the checksum stays as it was

UpdateChecksum(image) == WithChecksum(image.values)

\* The network parameters are taken over and all parameters written.
AnswerYes ==
  LET f == IF consoleMode = "netQuery" THEN net ELSE mac IN
  /\ power /\ consoleMode # "command"
  /\ consoleMode' = "command"
  /\ live' = UpdateChecksum([live EXCEPT !.values[f] = pending])
  /\ Written(live') \/ NotWritten(live')
  /\ UNCHANGED pending

Next ==
  \/ Boot \/ Stops
  \/ UploadBadLine \/ UploadBadRotation \/ Upload
  \/ CmdNET \/ CmdMAC \/ AnswerNo \/ AnswerYes

Spec == Init /\ [][Next]_vars

(***************************************************************************)
(* Properties                                                              *)
(***************************************************************************)

\* The values start-up comes up with.
Booted == live'.values

\* They are those of an image that was written to its end.
BootedComplete == flash.sum # <<>> /\ Booted = flash.values

\* What was written last, from the console or by an upload, is what the next
\* start-up comes up with, unless its timing is out of range; whatever was
\* uploaded and refused, asked and declined in between.
SavedSurvives ==
  [][Boot /\ saved # <<>> => saved[timing] = Odd \/ Booted = saved]_vars

\* After a write that failed or was cut short, start-up never comes up with a
\* part of the new image: either all of a complete one is used, or everything
\* but the network parameters is the default, and these are neither odd nor what is
\* left of an erased page, so that the BPM can be reached.
NoMixAtBoot ==
  [][Boot => \/ BootedComplete
             \/ /\ \A f \in Field \ {mac, net} : Booted[f] = Default
                /\ Booted[net] \notin {Odd, Erased} /\ Booted[mac] # Erased]_vars

(***************************************************************************)
(* What documents and comments say                                         *)
(***************************************************************************)

\* "Bad button rotation (must be 0 or 45)" (systemParameters.c): another one is
\* not used.
RotationValid == [][Boot => Booted[rotation] # Odd]_vars
=============================================================================
