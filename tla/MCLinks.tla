------------------------------- MODULE MCLinks -------------------------------
(***************************************************************************)
(* Three parts of the software that follow the timing system and the         *)
(* neighbouring BPMs, side by side: the links of the cell, the delay of the *)
(* ADC clock and the event receiver.  They share no state, so each is run   *)
(* alone, from all its initial states, while the others rest in one.        *)
(***************************************************************************)
EXTENDS CellLinks, AfeClocks, EventReceiver

VARIABLE part \* the one that runs

linksVars == <<part, CellVars, AfeVars, EvrVars>>

LinksInit ==
  /\ part \in {"cell", "afe", "evr"}
  /\ CellInit /\ AfeInit /\ EvrInit
  /\ part # "afe" => ~evrLocked /\ good = {0}

Cell(A) == part = "cell" /\ A /\ UNCHANGED <<part, AfeVars, EvrVars>>
Afe(A) == part = "afe" /\ A /\ UNCHANGED <<part, CellVars, EvrVars>>
Evr(A) == part = "evr" /\ A /\ UNCHANGED <<part, CellVars, AfeVars>>

LinksNext == Cell(CellNext) \/ Afe(AfeNext) \/ Evr(EvrNext)

\* The fairness of CellSpec and AfeSpec: as the same part runs for
\* ever, an action of each may share a condition.
LinksFairness ==
  /\ WF_linksVars(Cell(CellProcessor) \/ Afe(AfeProcessor))
  /\ WF_linksVars(Cell(CellTick) \/ Afe(Passes))
  /\ WF_linksVars(Cell(CellTraining) \/ Afe(AfeTiming))
  /\ SF_linksVars(Afe(JogPass))

LinksSpec == LinksInit /\ [][LinksNext]_linksVars /\ LinksFairness

\* The liveness properties of the part that runs: links come back
\* (LinksComeBack), the oscillators end in step (OscillatorsStayInStep) and a
\* reference that is back is scanned for (ReferenceIsScanned).
CellLinksComeBack == part = "cell" => LinksComeBack
AfeOscillatorsStayInStep == part = "afe" => OscillatorsStayInStep
AfeReferenceIsScanned == part = "afe" => ReferenceIsScanned
==============================================================================
