--------------------------- MODULE PointHardware ---------------------------
(***************************************************************************)
(* The hardware behind the points of the command port that do not simply    *)
(* keep what is written to them: the autotrim block (autotrim.v), the       *)
(* self-trigger register with the overload bits above its level (bpmTop.v), *)
(* and the armed bit of a recorder, which drops when an acquisition ends.   *)
(*                                                                         *)
(* The autotrim block takes a mode and a filter shift from its CSR only     *)
(* when it is idle, and its status follows the mode at the next pilot tone. *)
(* Of the status it matters whether it is OFF, of the overload bits whether *)
(* there is one.                                                           *)
(***************************************************************************)
EXTENDS Integers

HardwarePoints == { "atEnable", "atFilter", "selfTrigLevel", "arm" }

\* The points whose handler writes the autotrim CSR: the algorithm selects the
\* kind of pilot tone (localOscSetDspAlgorithm).
TrimPoints == { "atEnable", "atFilter", "dspType" }

Levels == 16777216 \* the level takes 24 bits, the overload bits are above it

Hardware ==
  [ mode  : 0 .. 4, modePending  : 0 .. 4,  \* trimControl
    shift : 0 .. 7, shiftPending : 0 .. 7,  \* filterShift
    busy  : BOOLEAN,                        \* a tone has come, TS_CHECK has not
    on    : BOOLEAN,                        \* trimStatus is not OFF
    level : 0 .. Levels - 1, overload : 0 .. 1,
    armed : BOOLEAN ]

HardwareAtStart ==
  [ mode |-> 0, modePending |-> 0, shift |-> 0, shiftPending |-> 0,
    busy |-> FALSE, on |-> FALSE, level |-> 0, overload |-> 0, armed |-> FALSE ]

\* TS_IDLE: what is pending comes into effect, and a tone may have come.
Idle(h) ==
  { [h EXCEPT !.mode = h.modePending, !.shift = h.shiftPending, !.busy = tone] :
      tone \in BOOLEAN }

\* TS_CHECK: the status tells whether there is a mode.
Check(h) == { [h EXCEPT !.busy = FALSE, !.on = h.mode # 0] }

\* What the hardware behind a point may do by itself.
StepsOf(p, h) ==
  CASE p \in TrimPoints -> IF h.busy THEN Check(h) ELSE Idle(h)
    [] p = "selfTrigLevel" -> { [h EXCEPT !.overload = o] : o \in 0 .. 1 }
    [] p = "arm" -> { [h EXCEPT !.armed = FALSE] }
    [] OTHER -> {}

\* How the processor may find it at its next access: at most two steps later.
Soon(p, h) == {h} \cup StepsOf(p, h)
Later(p, h) == UNION { Soon(p, g) : g \in Soon(p, h) }

\* What writing v to a point does.  The fields of the autotrim CSR that are
\* not meant are written as they were read before: not those pending, but
\* those in effect.
Written(p, v, read, h) ==
  CASE p = "atEnable" -> IF v \in 0 .. 4
                         THEN [h EXCEPT !.modePending = v, !.shiftPending = read.shift]
                         ELSE h
    [] p = "atFilter" -> [h EXCEPT !.modePending = read.mode, !.shiftPending = v % 8]
    [] p = "dspType" -> [h EXCEPT !.modePending = read.mode, !.shiftPending = read.shift]
    [] p = "selfTrigLevel" -> [h EXCEPT !.level = v % Levels]
    [] p = "arm" -> [h EXCEPT !.armed = v # 0]
    [] OTHER -> h

\* What the hardware may be like when the handler of a write reads it back: it
\* has been read, written and read again, and went on in between.
AfterWrite(p, v, h) ==
  UNION { Later(p, Written(p, v, h, g)) : g \in Later(p, h) }

\* What a point reads.
Readout(p, h) ==
  CASE p = "atEnable" -> IF h.on THEN 1 ELSE 0
    [] p = "atFilter" -> h.shift
    [] p = "selfTrigLevel" -> h.level + Levels * h.overload
    [] OTHER -> IF h.armed THEN 1 ELSE 0

\* The register a write has gone to, in effect or not, and what it should hold.
KeepsWrite(p, v) ==
  p \in {"atFilter", "selfTrigLevel"} \/ (p = "atEnable" /\ v \in 0 .. 4)

Told(p, h) ==
  CASE p = "atEnable" -> h.modePending
    [] p = "atFilter" -> h.shiftPending
    [] OTHER -> h.level

Asked(p, v) ==
  CASE p = "atEnable" -> v
    [] p = "atFilter" -> v % 8
    [] OTHER -> v % Levels
=============================================================================
