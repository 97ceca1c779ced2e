----------------------------- MODULE MCCommand -----------------------------
(***************************************************************************)
(* Two settings of the command server: "plain" with points that keep what    *)
(* is written to them, and "hardware" with points the hardware changes and  *)
(* fewer commands.  The IOCs may be model values: they do the same and      *)
(* nothing tells them apart.                                               *)
(***************************************************************************)
EXTENDS CommandServer, TLC

CONSTANTS PlainPoint, PlainValue, HwPoint, HwValue, HwNumber

ASSUME PlainPoint \cup HwPoint = Point /\ PlainValue \cup HwValue = Value

VARIABLE kind

Plain == INSTANCE CommandServer WITH Point <- PlainPoint, Value <- PlainValue
Hw == INSTANCE CommandServer WITH Point <- HwPoint, Value <- HwValue

kindVars == <<kind, vars>>

KindInit == kind \in {"plain", "hardware"} /\ Init

KindNext ==
  \/ kind = "plain" /\ Plain!Next /\ UNCHANGED kind
  \/ /\ kind = "hardware"
     /\ Hw!Next
     /\ number' \in [Ioc -> 0 .. HwNumber]
     /\ UNCHANGED kind

KindSpec == KindInit /\ [][KindNext]_kindVars

IocPermutations == Permutations(Ioc)
=============================================================================
