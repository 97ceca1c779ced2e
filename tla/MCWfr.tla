------------------------------- MODULE MCWfr -------------------------------
(***************************************************************************)
(* Three settings of the waveform recorder service.  "anytime": a ring        *)
(* recorder whose counts may change at any time, and which is full when its *)
(* samples are stored.  "late": one that is full before that, and whose     *)
(* counts do not change.  "quiet": the ADC recorder and a ring recorder in  *)
(* rotation, one acquisition each, whose counts only change while they are  *)
(* quiet and whose headers do not go out before the samples are stored.     *)
(***************************************************************************)
EXTENDS WfrTransfer

VARIABLE setting

Stored == INSTANCE WfrTransfer WITH MaxLag <- 0

Late == INSTANCE WfrTransfer WITH
  AcqValues <- {}, Disarmed <- {}, MaxAllocFailures <- 0

Quietly == INSTANCE WfrTransfer WITH
  Used <- {0, 1}, Disarmed <- {0, 1}, AcqValues <- {6}, PretrigValues <- {3},
  MaxWaveform <- 2, MaxAcq <- 1, MaxAllocFailures <- 0

settingVars == <<setting, vars>>

SettingInit == setting \in {"anytime", "late", "quiet"} /\ Init

SettingNext ==
  \/ setting = "anytime" /\ Stored!Next /\ UNCHANGED setting
  \/ setting = "late" /\ Late!Next /\ UNCHANGED setting
  \/ setting = "quiet" /\ Quietly!Next /\ disturbed' = {} /\ UNCHANGED setting

SettingSpec == SettingInit /\ [][SettingNext]_settingVars
==============================================================================
