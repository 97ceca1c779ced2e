----------------------------- MODULE TftpServer -----------------------------
(***************************************************************************)
(* The TFTP server (tftp.c) and the flash memory it stores files in         *)
(* (linearFlash.c): one set of static variables for all clients, requests,  *)
(* data blocks and acknowledgements told apart only by their opcodes and    *)
(* block numbers.  Clients and the network are external: a client repeats   *)
(* its last packet until it is answered, gives up at any time, and starts   *)
(* its transfers one after another; a packet that has been sent may arrive  *)
(* any number of times or never, but a request not after a later one.      *)
(*                                                                         *)
(* Lengths are in units, Full of them in a full block (512 bytes in the     *)
(* code).  A unit of a file being sent is <<t, i>>, the i-th of transfer t; *)
(* one of what file f held at first is <<f, i>>.                           *)
(***************************************************************************)
EXTENDS Integers, Sequences, FiniteSets

CONSTANTS
  FlashFile,    \* files stored block by block (BPM.bin, BPM_APP.srec)
  TableFile,    \* files collected and checked first (the .csv tables)
  MaxSize,      \* maxSize of a file
  Full,         \* TFTP_PAYLOAD_CAPACITY
  Page,         \* PAGESIZE, what the flash memory erases at once, and at most
                \* writes
  Modulus,      \* number of block numbers, 2^16 in the code
  Transfers,    \* bound on the transfers clients start
  Ops,          \* what they start: "get", "put"
  Lengths,      \* lengths of the files they send
  Sizes,        \* lengths of the files at first
  InOrder,      \* does the network keep all packets in the order of sending?
  MayTimeOut,   \* may TRANSFER_TIMEOUT_SECONDS pass?
  FaultKinds,   \* "write", "size": a flash write fails, of a file or of the size
                \* table; "alloc": no packet buffer; "power": power fails
  MaxFaults     \* bound on the faults

ASSUME TftpAssumption ==
  /\ FlashFile \cap TableFile = {}
  /\ MaxSize \in Nat /\ Full \in Nat \ {0} /\ Page \in Nat /\ Full <= Page
  /\ Modulus \in Nat \ {0, 1}
  /\ Transfers \in Nat /\ MaxFaults \in Nat
  /\ Ops \subseteq {"get", "put"}
  /\ Lengths \subseteq Nat
  /\ FaultKinds \subseteq {"write", "size", "alloc", "power"}
  /\ InOrder \in BOOLEAN /\ MayTimeOut \in BOOLEAN

File == FlashFile \cup TableFile

NoFile == "none"

ASSUME FileAssumption ==
  /\ {NoFile, "ioBuf"} \cap File = {}
  /\ Sizes \subseteq [File -> 0 .. MaxSize]

Transfer == 1 .. Transfers

Erased == <<0, 0>>
Garbled == <<0, 1>> \* written over without being erased
Unit == {Erased, Garbled} \cup ((Transfer \cup File) \X Nat)

VARIABLES
  fileIndex, \* the file of the transfer under way, or NoFile
  ioOffset, bytesLeft, lastBlock, lastSend,
  ioPtr,     \* what a download reads from: a file in the flash memory or "ioBuf"
  recent,    \* less than the timeout since lastSeconds
  ioBuf,     \* the transfer buffer
  flash,     \* the flash memory, file by file
  size,      \* the size table in flash memory
  table,     \* the contents of the tables, as text
  client,    \* the clients' transfers
  net,       \* every packet sent so far
  latest,    \* -1, or the newest block delivered from a transfer: if not InOrder,
             \* only whether its request has been (0)
  faults     \* failures so far

server == <<fileIndex, ioOffset, bytesLeft, lastBlock, lastSend, ioPtr, recent, ioBuf>>
store == <<flash, size, table>>
vars == <<server, store, client, net, latest, faults>>

Idle == [state |-> "idle"]

ClientRecord ==
  [ state : {"active", "done", "failed"},
    op    : {"get", "put"},
    file  : File \cup {NoFile},
    len   : Nat,          \* put: length of the file
    valid : BOOLEAN,      \* put: is it a well-formed table?
    k     : Nat,          \* put: block being sent; get: block received last
    got   : Seq(Unit) ]   \* get: what has been received

Range0(n) == 0 .. n - 1

TypeOK ==
  /\ fileIndex \in File \cup {NoFile}
  /\ ioOffset \in 0 .. MaxSize
  /\ bytesLeft \in 0 .. MaxSize
  /\ lastBlock \in 0 .. Modulus - 1
  /\ lastSend \in 0 .. Full
  /\ ioPtr \in FlashFile \cup {"ioBuf"}
  /\ recent \in BOOLEAN
  /\ ioBuf \in [Range0(MaxSize) -> Unit]
  /\ flash \in [FlashFile -> [Range0(MaxSize) -> Unit]]
  /\ size \in [FlashFile -> 0 .. MaxSize]
  /\ table \in [TableFile -> Seq(Unit)]
  /\ \A f \in TableFile : Len(table[f]) <= MaxSize
  /\ client \in [Transfer -> {Idle} \cup ClientRecord]
  /\ latest \in [Transfer -> Nat \cup {-1}]
  /\ faults \in Seq(FaultKinds) /\ Len(faults) <= MaxFaults

\* The file transfer t sends, and the units of its block k.
Text(t) == [i \in 1 .. client[t].len |-> <<t, i - 1>>]

Smaller(a, b) == IF a < b THEN a ELSE b

BlockUnits(t, k) ==
  [i \in 1 .. Smaller(Full, client[t].len - (k - 1) * Full) |-> <<t, (k - 1) * Full + i - 1>>]

LastBlockOf(t) == client[t].len \div Full + 1

\* No transfer is under way, just after start-up or later.
Init ==
  /\ fileIndex = NoFile
  /\ ioOffset = 0 /\ bytesLeft = 0 /\ lastBlock = 0 /\ lastSend = 0
  /\ ioPtr = "ioBuf"
  /\ recent \in BOOLEAN
  /\ ioBuf = [i \in Range0(MaxSize) |-> Garbled]
  /\ flash = [f \in FlashFile |-> [i \in Range0(MaxSize) |-> <<f, i>>]]
  /\ \E n \in Sizes :
       /\ size = [f \in FlashFile |-> n[f]]
       /\ table = [f \in TableFile |-> [i \in 1 .. n[f] |-> <<f, i - 1>>]]
  /\ client = [t \in Transfer |-> Idle]
  /\ net = {}
  /\ latest = [t \in Transfer |-> -1]
  /\ faults = <<>>

(***************************************************************************)
(* Packets and faults                                                      *)
(***************************************************************************)

\* What a client sends for its block k: 0 is the request.
FromClient(t, type, k) ==
  [dir |-> "up", t |-> t, type |-> type, k |-> k, block |-> k % Modulus]

\* What the server sends to a client.  k says which block it is about; the
\* packet only has the block number.
ToClient(t, type, block, k, units) ==
  [dir |-> "down", t |-> t, type |-> type, block |-> block, k |-> k, units |-> units]

Sent(p) == net' = net \cup {p}

Fault(kind) ==
  /\ kind \in FaultKinds
  /\ Len(faults) < MaxFaults
  /\ faults' = Append(faults, kind)

Request == {"RRQ", "WRQ"}

\* Packet m reaches the server.
Delivered(m) ==
  /\ m.dir = "up"
  /\ m.k >= latest[m.t]
  /\ IF InOrder \/ m.type \in Request
     THEN /\ \A u \in Transfer : u > m.t => latest[u] = -1
          /\ latest' = [latest EXCEPT ![m.t] = m.k]
     ELSE UNCHANGED latest
  /\ UNCHANGED client

ReplyERR(m) == Sent(ToClient(m.t, "ERR", 0, 0, <<>>))
ReplyACK(m, block) == Sent(ToClient(m.t, "ACK", block, m.k, <<>>))

(***************************************************************************)
(* linearFlashWrite: the page the data ends in is erased first if the data  *)
(* begins a page or crosses into one.                                      *)
(***************************************************************************)
ErasesNotAtStart(offset, n) == \* mutant: a page that the data begins is not erased
  (offset + n - 1) \div Page # offset \div Page

Erases(offset, n) ==
  \/ offset % Page = 0
  \/ (offset + n - 1) \div Page # offset \div Page

ErasedFor(cells, offset, n) ==
  IF Erases(offset, n)
  THEN [i \in DOMAIN cells |->
          IF i \div Page = (offset + n - 1) \div Page THEN Erased ELSE cells[i]]
  ELSE cells

Written(cells, offset, units) ==
  LET n == Len(units)
      e == ErasedFor(cells, offset, n)
  IN [i \in DOMAIN cells |->
        IF i \notin offset .. offset + n - 1 THEN e[i]
        ELSE IF e[i] = Erased THEN units[i - offset + 1] ELSE Garbled]

\* memcpy into the transfer buffer.
Copied(buf, offset, units) ==
  [i \in DOMAIN buf |->
     IF i \in offset .. offset + Len(units) - 1 THEN units[i - offset + 1] ELSE buf[i]]

TextOf(cells, n) == [i \in 1 .. n |-> cells[i - 1]]

\* What a client that downloads f is to get.
Contents(f) == IF f \in TableFile THEN table[f] ELSE TextOf(flash[f], size[f])

(***************************************************************************)
(* Requests                                                                *)
(***************************************************************************)
Busy == fileIndex # NoFile /\ recent

RefuseBusy(m) ==
  /\ Delivered(m)
  /\ m.type \in Request
  /\ Busy
  /\ lastBlock' = 0
  /\ ReplyERR(m)
  /\ UNCHANGED <<fileIndex, ioOffset, bytesLeft, lastSend, ioPtr, recent, ioBuf,
                 store, faults>>

\* Bad name or mode.
RefuseName(m) ==
  /\ Delivered(m)
  /\ m.type \in Request
  /\ ~Busy
  /\ client[m.t].file = NoFile
  /\ lastBlock' = 0
  /\ fileIndex' = NoFile
  /\ ReplyERR(m)
  /\ UNCHANGED <<ioOffset, bytesLeft, lastSend, ioPtr, recent, ioBuf, store, faults>>

BeginUpload(m) ==
  /\ Delivered(m)
  /\ m.type = "WRQ"
  /\ ~Busy
  /\ client[m.t].file # NoFile
  /\ lastBlock' = 0
  /\ fileIndex' = client[m.t].file
  /\ ioOffset' = 0
  /\ ReplyACK(m, 0)
  /\ UNCHANGED <<bytesLeft, lastSend, ioPtr, recent, ioBuf, store, faults>>

\* sendBlock: at most a full block from offset, or nothing at all if no packet
\* buffer is to be had.
SendBlock(m, block, offset, left, cells) ==
  LET n == Smaller(left, Full) IN
  \/ /\ lastSend' = n
     /\ Sent(ToClient(m.t, "DATA", block, block,
                      [i \in 1 .. n |-> IF offset + i - 1 \in DOMAIN cells
                                        THEN cells[offset + i - 1] ELSE Garbled]))
     /\ UNCHANGED faults
  \/ /\ lastSend' = 0
     /\ Fault("alloc")
     /\ UNCHANGED net

BeginDownload(m) ==
  LET f == client[m.t].file IN
  /\ Delivered(m)
  /\ m.type = "RRQ"
  /\ ~Busy
  /\ f # NoFile
  /\ fileIndex' = f
  /\ ioOffset' = 0
  /\ lastBlock' = 1
  /\ IF f \in TableFile
     THEN /\ ioBuf' = Copied(ioBuf, 0, table[f])
          /\ ioPtr' = "ioBuf"
          /\ bytesLeft' = Len(table[f])
     ELSE /\ UNCHANGED ioBuf
          /\ ioPtr' = f
          /\ bytesLeft' = size[f]
  /\ SendBlock(m, 1, 0, bytesLeft', IF f \in TableFile THEN ioBuf' ELSE flash[f])
  /\ UNCHANGED <<recent, store>>

(***************************************************************************)
(* Data                                                                    *)
(***************************************************************************)
NextBlock == (lastBlock + 1) % Modulus

DataArrives(m) == Delivered(m) /\ m.type = "DATA" /\ fileIndex # NoFile

\* The block stored last, or taken for it.
AcknowledgeAgain(m) ==
  /\ DataArrives(m)
  /\ m.block = lastBlock
  /\ ReplyACK(m, m.block)
  /\ recent' = TRUE
  /\ UNCHANGED <<fileIndex, ioOffset, bytesLeft, lastBlock, lastSend, ioPtr, ioBuf,
                 store, faults>>

IgnoreData(m) ==
  /\ DataArrives(m)
  /\ m.block \notin {lastBlock, NextBlock}
  /\ recent' = TRUE
  /\ UNCHANGED <<fileIndex, ioOffset, bytesLeft, lastBlock, lastSend, ioPtr, ioBuf,
                 store, net, faults>>

FitsAlways(units) == TRUE \* mutant: the size of the file is not limited

Fits(units) == Len(units) <= MaxSize - ioOffset

BlockArrives(m) == DataArrives(m) /\ m.block = NextBlock /\ lastBlock' = m.block

RefuseTooBig(m) ==
  /\ BlockArrives(m)
  /\ ~Fits(BlockUnits(m.t, m.k))
  /\ ReplyERR(m)
  /\ UNCHANGED <<fileIndex, ioOffset, bytesLeft, lastSend, ioPtr, recent, ioBuf,
                 store, faults>>

\* A block of a file that is stored as it comes; with the last one the size
\* is noted, which uses the transfer buffer.
StoreBlock(m) ==
  LET units == BlockUnits(m.t, m.k)
      last  == Len(units) < Full
  IN /\ BlockArrives(m)
     /\ fileIndex \in FlashFile
     /\ Fits(units)
     /\ flash' = IF units = <<>> THEN flash
                 ELSE [flash EXCEPT ![fileIndex] = Written(@, ioOffset, units)]
     /\ ioOffset' = ioOffset + Len(units)
     /\ \/ /\ ~last
           /\ UNCHANGED <<fileIndex, size, ioBuf, faults>>
        \/ /\ last
           /\ fileIndex' = NoFile
           /\ ioBuf' = [ioBuf EXCEPT ![0] = Garbled]
           /\ \/ size' = [size EXCEPT ![fileIndex] = ioOffset'] /\ UNCHANGED faults
              \/ size' = [f \in FlashFile |-> MaxSize] /\ Fault("size")
     /\ ReplyACK(m, m.block)
     /\ recent' = TRUE
     /\ UNCHANGED <<bytesLeft, lastSend, ioPtr, table>>

StoreBlockFails(m) ==
  LET units == BlockUnits(m.t, m.k) IN
  /\ BlockArrives(m)
  /\ fileIndex \in FlashFile
  /\ Fits(units)
  /\ units # <<>>
  /\ Fault("write")
  /\ flash' \in {flash, [flash EXCEPT ![fileIndex] = ErasedFor(@, ioOffset, Len(units))]}
  /\ fileIndex' = NoFile
  /\ ReplyERR(m)
  /\ UNCHANGED <<ioOffset, bytesLeft, lastSend, ioPtr, recent, ioBuf, size, table>>

\* A block of a table is collected.
CollectBlock(m) ==
  LET units == BlockUnits(m.t, m.k) IN
  /\ BlockArrives(m)
  /\ fileIndex \in TableFile
  /\ Fits(units)
  /\ Len(units) = Full
  /\ ioBuf' = Copied(ioBuf, ioOffset, units)
  /\ ioOffset' = ioOffset + Full
  /\ ReplyACK(m, m.block)
  /\ recent' = TRUE
  /\ UNCHANGED <<fileIndex, bytesLeft, lastSend, ioPtr, store, faults>>

\* postReceive parses a text: it takes a table only in one piece.
WellFormed(text) == \E t \in Transfer :
  client[t] # Idle /\ client[t].op = "put" /\ client[t].valid /\ text = Text(t)

\* The last block of a table: it is parsed and stored, or refused, which
\* leaves an error message in the buffer and the transfer under way.
FinishTable(m) ==
  LET units == BlockUnits(m.t, m.k)
      text  == TextOf(Copied(ioBuf, ioOffset, units), ioOffset + Len(units))
  IN /\ BlockArrives(m)
     /\ fileIndex \in TableFile
     /\ Fits(units)
     /\ Len(units) < Full
     /\ ioOffset' = ioOffset + Len(units)
     /\ ioBuf' = [Copied(ioBuf, ioOffset, units) EXCEPT ![0] = Garbled]
     /\ \/ /\ WellFormed(text)
           /\ table' = [table EXCEPT ![fileIndex] = text]
           /\ fileIndex' = NoFile
           /\ ReplyACK(m, m.block)
           /\ recent' = TRUE
           /\ UNCHANGED faults
        \/ /\ \/ ~WellFormed(text) /\ UNCHANGED faults
              \/ WellFormed(text) /\ Fault("write")
           /\ ReplyERR(m)
           /\ UNCHANGED <<fileIndex, recent, table>>
     /\ UNCHANGED <<bytesLeft, lastSend, ioPtr, flash, size>>

(***************************************************************************)
(* Acknowledgements                                                        *)
(***************************************************************************)
IsAnsweredAlways(m) == TRUE \* mutant: any acknowledgement will do

IsAnswered(m) == m.block = lastBlock

\* What ioPtr points to.
Source == IF ioPtr = "ioBuf" THEN ioBuf ELSE flash[ioPtr]

\* The block sent last has arrived: the next one, or the end.
AckNext(m) ==
  /\ Delivered(m)
  /\ m.type = "ACK" /\ fileIndex # NoFile
  /\ IsAnswered(m)
  /\ lastBlock' = NextBlock
  /\ ioOffset' = ioOffset + lastSend
  /\ bytesLeft' = bytesLeft - lastSend
  /\ recent' = TRUE
  /\ \/ /\ lastSend = Full
        /\ SendBlock(m, lastBlock', ioOffset', bytesLeft', Source)
        /\ UNCHANGED fileIndex
     \/ /\ lastSend # Full
        /\ fileIndex' = NoFile
        /\ UNCHANGED <<lastSend, net, faults>>
  /\ UNCHANGED <<ioPtr, ioBuf, store>>

\* Any other acknowledgement fetches the block sent last again.
AckOther(m) ==
  /\ Delivered(m)
  /\ m.type = "ACK" /\ fileIndex # NoFile
  /\ ~IsAnswered(m)
  /\ recent' = TRUE
  /\ SendBlock(m, lastBlock, ioOffset, bytesLeft, Source)
  /\ UNCHANGED <<fileIndex, ioOffset, bytesLeft, lastBlock, ioPtr, ioBuf, store>>

(***************************************************************************)
(* Time and power                                                          *)
(***************************************************************************)
TimePasses ==
  /\ MayTimeOut
  /\ recent
  /\ recent' = FALSE
  /\ UNCHANGED <<fileIndex, ioOffset, bytesLeft, lastBlock, lastSend, ioPtr, ioBuf,
                 store, client, net, latest, faults>>

\* Power fails and the application starts again with what is in the flash.
PowerFails ==
  /\ Fault("power")
  /\ fileIndex' = NoFile
  /\ ioOffset' = 0 /\ bytesLeft' = 0 /\ lastBlock' = 0 /\ lastSend' = 0
  /\ ioPtr' = "ioBuf"
  /\ recent' = TRUE
  /\ ioBuf' = [i \in Range0(MaxSize) |-> Garbled]
  /\ UNCHANGED <<store, client, net, latest>>

(***************************************************************************)
(* The clients (external)                                                  *)
(***************************************************************************)
Ended(t) == client[t] # Idle /\ client[t].state # "active"

Start(t, op, f, len, valid) ==
  /\ op \in Ops
  /\ valid => f \in TableFile
  /\ client[t] = Idle
  /\ \A u \in 1 .. t - 1 : Ended(u)
  /\ client' = [client EXCEPT ![t] =
       [state |-> "active", op |-> op, file |-> f, len |-> len, valid |-> valid,
        k |-> 0, got |-> <<>>]]
  /\ Sent(FromClient(t, IF op = "get" THEN "RRQ" ELSE "WRQ", 0))
  /\ UNCHANGED <<server, store, latest, faults>>

Ending(t, state) ==
  /\ client' = [client EXCEPT ![t].state = state]
  /\ UNCHANGED <<server, store, net, latest, faults>>

GiveUp(t) == client[t] # Idle /\ client[t].state = "active" /\ Ending(t, "failed")

Reaches(m, t, type) ==
  /\ m.dir = "down" /\ m.t = t /\ m.type = type
  /\ client[t].state = "active"

ClientRefused(m) == Reaches(m, m.t, "ERR") /\ Ending(m.t, "failed")

\* An upload is answered: the next block goes out, or the upload is done.
ClientAcked(m) ==
  LET t == m.t
      k == client[t].k
  IN /\ Reaches(m, t, "ACK")
     /\ m.block = k % Modulus
     /\ InOrder => m.k >= k - 1
     /\ IF k = LastBlockOf(t) THEN Ending(t, "done")
        ELSE /\ client' = [client EXCEPT ![t].k = k + 1]
             /\ Sent(FromClient(t, "DATA", k + 1))
             /\ UNCHANGED <<server, store, latest, faults>>

\* A download's next block arrives; a block that is not full ends it.
ClientData(m) ==
  LET t == m.t
      k == client[t].k
  IN /\ Reaches(m, t, "DATA")
     /\ client[t].op = "get"
     /\ m.block = (k + 1) % Modulus
     /\ client' = [client EXCEPT ![t].k = k + 1,
                                 ![t].got = @ \o m.units,
                                 ![t].state = IF Len(m.units) < Full
                                              THEN "done" ELSE "active"]
     /\ Sent(FromClient(t, "ACK", k + 1))
     /\ UNCHANGED <<server, store, latest, faults>>

HandlePacket(m) ==
  \/ RefuseBusy(m) \/ RefuseName(m) \/ BeginUpload(m) \/ BeginDownload(m)
  \/ AcknowledgeAgain(m) \/ IgnoreData(m) \/ RefuseTooBig(m)
  \/ StoreBlock(m) \/ StoreBlockFails(m) \/ CollectBlock(m) \/ FinishTable(m)
  \/ AckNext(m) \/ AckOther(m)

Clients ==
  \/ \E t \in Transfer :
       \/ \E f \in File \cup {NoFile} : Start(t, "get", f, 0, FALSE)
       \/ \E f \in File \cup {NoFile}, len \in Lengths, valid \in BOOLEAN :
            Start(t, "put", f, len, valid)
       \/ GiveUp(t)
  \/ \E m \in net : ClientRefused(m) \/ ClientAcked(m) \/ ClientData(m)

Next ==
  \/ \E m \in net : HandlePacket(m)
  \/ TimePasses
  \/ PowerFails
  \/ Clients

Spec == Init /\ [][Next]_vars

(***************************************************************************)
(* Properties                                                              *)
(***************************************************************************)
UploadDone(t) == client[t] # Idle /\ client[t].op = "put" /\ client[t].state = "done"

\* No upload of the same file has been started since.
IsNewest(t) ==
  \A u \in Transfer :
    u > t => \/ client[u] = Idle
             \/ client[u].op = "get"
             \/ client[u].file # client[t].file

Failed(kind) == \E n \in 1 .. Len(faults) : faults[n] = kind

\* A file that is not too big, a table without errors, and no failure that the
\* server does not report (the size of a file could not be noted) or reports
\* only once (a table could not be stored: its last block, repeated, is
\* acknowledged).
Acceptable(t) ==
  /\ client[t].len <= MaxSize
  /\ client[t].file \in TableFile => client[t].valid /\ ~Failed("write")
  /\ client[t].file \in FlashFile => ~Failed("size")

\* If packets keep their order and clients take turns, a client whose upload
\* ended well has its file in the flash memory, byte for byte and with its
\* size, although requests and blocks are repeated, clients before it gave up
\* half-way, block numbers wrap, a write fails and power fails between two
\* packets; and it stays there.
UploadStored ==
  \A t \in Transfer :
    UploadDone(t) /\ IsNewest(t) /\ Acceptable(t) => Contents(client[t].file) = Text(t)

DownloadsEndWell ==
  \A t \in Transfer :
    client[t] # Idle /\ client[t].op = "get" /\ client[t].state = "active"
      /\ client'[t].state = "done"
    => client'[t].got = Contents(client[t].file)

\* A client that has received a short block has the whole file, and nothing of
\* another, in any order of packets but the requests, and whichever blocks were
\* sent twice or not at all.
DownloadIntact == [][DownloadsEndWell]_vars

=============================================================================
