------------------------------- MODULE MCTftp -------------------------------
(***************************************************************************)
(* Two settings of the TFTP server.  "upload": uploads, with an upload or a  *)
(* download before them, packets in order, repeated and lost; a file stored *)
(* block by block that fills its area or does not fit, crosses a page of    *)
(* the flash memory and makes the block number wrap, and a table; one fault *)
(* of any kind.  "download": downloads with packets in any order, of files  *)
(* of which a short block is the last or an empty one.                      *)
(***************************************************************************)
EXTENDS TftpServer

VARIABLE setting

\* A file in the flash memory has m units at first, a table n.
Of(m, n) == [f \in File |-> IF f \in FlashFile THEN m ELSE n]

UploadSizes == {Of(3, 3)}
DownloadSizes == {Of(4, 1), Of(2, 3)}

Upload == INSTANCE TftpServer WITH Modulus <- 3

Download == INSTANCE TftpServer WITH
  Ops <- {"get"}, Lengths <- {}, Sizes <- DownloadSizes, InOrder <- FALSE, FaultKinds <- {"alloc"}

tftpVars == <<setting, vars>>

TftpInit ==
  \/ setting = "upload" /\ Upload!Init
  \/ setting = "download" /\ Download!Init

TftpNext ==
  \/ setting = "upload" /\ Upload!Next /\ UNCHANGED setting
  \/ setting = "download" /\ Download!Next /\ UNCHANGED setting

TftpSpec == TftpInit /\ [][TftpNext]_tftpVars
==============================================================================
