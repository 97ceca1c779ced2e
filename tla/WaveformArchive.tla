-------------------------- MODULE WaveformArchive --------------------------
(***************************************************************************)
(* What an IOC may rely on when it puts waveforms together from the blocks  *)
(* it receives, whatever the network does to the datagrams: a waveform      *)
(* number stands for one acquisition, and a block that comes again is the   *)
(* block that came before.  An IOC that files blocks under their numbers    *)
(* therefore never mixes two acquisitions and never has to choose between   *)
(* two versions of a block.                                                 *)
(***************************************************************************)
EXTENDS Integers

VARIABLE archive \* the blocks received

Init == archive = {}

SameWaveform(p, q) == p.rec = q.rec /\ p.wf = q.wf

Agree(p, q) ==
  SameWaveform(p, q) => /\ p.acq = q.acq
                        /\ p.block = q.block => p = q

Receive ==
  \E p \in archive' :
    /\ archive' = archive \cup {p}
    /\ \A q \in archive : Agree(p, q)

Spec == Init /\ [][Receive]_archive

\* Any two blocks filed under one number are blocks of one acquisition, and
\* one position has one block.
Consistent == \A p, q \in archive : Agree(p, q)
=============================================================================
