------------------------------ MODULE MCService ------------------------------
(***************************************************************************)
(* Three parts of the software that share no state, side by side: the        *)
(* system parameters, the detection of a second IOC and the calibration     *)
(* tables.  Each is run alone while the others rest in their initial states. *)
(***************************************************************************)
EXTENDS SystemParameters, DuplicateIoc, CalibrationTables

VARIABLE part \* the one that runs

serviceVars == <<part, vars, DupVars, TablesVars>>

ServiceInit ==
  /\ part \in {"parameters", "duplicate", "tables"}
  /\ Init /\ DupInit /\ TablesInit

ServiceNext ==
  \/ part = "parameters" /\ Next /\ UNCHANGED <<part, DupVars, TablesVars>>
  \/ part = "duplicate" /\ DupNext /\ UNCHANGED <<part, vars, TablesVars>>
  \/ part = "tables" /\ TablesNext /\ UNCHANGED <<part, vars, DupVars>>

ServiceSpec == ServiceInit /\ [][ServiceNext]_serviceVars

\* The variables of all three parts have their types (TypeOK of the parameters,
\* DupTypeOK, TablesTypeOK): gains and shifts are within their registers.
ServiceTypesHold == TypeOK /\ DupTypeOK /\ TablesTypeOK

\* Attenuators: the second row differs, one table has a factor too small and one
\* has a factor that is no number.
UploadedTables ==
  {[r \in {0, 1} |-> [c \in {"A", "B"} |-> IF r = 1 /\ c = "A" THEN q ELSE 3]] : q \in {2, 4, NaN}}

UploadedTrims == {[c \in {"A", "B"} |-> IF c = "A" THEN 1 ELSE 3]}

\* Beyond both ends of what is allowed, and in between.
CommandedGains == {-1, 5}
CommandedShifts == {-1, 16}
==============================================================================
