-------------------------- MODULE TftpServerProofs --------------------------
(***************************************************************************)
(* Proofs about the TFTP server, for every number of transfers, all files,  *)
(* sizes, blocks and pages, every number of block numbers and every bound   *)
(* on the faults: its types, that an upload that ended well is stored, and  *)
(* that a download that ended well is intact.                              *)
(***************************************************************************)
EXTENDS TftpServer, TLAPS

Put(t) == client[t] # Idle /\ client[t].op = "put"
Get(t) == client[t] # Idle /\ client[t].op = "get"
Active(t) == client[t] # Idle /\ client[t].state = "active"

\* An uploading client gets nothing but acknowledgements if it is not refused,
\* a downloading one nothing but data.
Answers(p, type, t) == p.dir = "down" /\ p.type = type /\ p.t = t
Acked(t, k) == \E p \in net : Answers(p, "ACK", t) /\ p.k = k
Begun(t) == \E p \in net : Answers(p, "ACK", t)
Served(t) == \E p \in net : Answers(p, "DATA", t)

\* Nothing of a later transfer has been delivered.
Current(t) == latest[t] >= 0 /\ \A u \in Transfer : u > t => latest[u] = -1

\* Where block k + 1 begins.
At(k) == k * Full

(***************************************************************************)
(* Packets and clients                                                     *)
(***************************************************************************)
FromPut(p) ==
  /\ client[p.t].op = "put"
  /\ p.type = IF p.k = 0 THEN "WRQ" ELSE "DATA"
  /\ p.k <= LastBlockOf(p.t)

FromGet(p) ==
  /\ client[p.t].op = "get"
  /\ p.type = IF p.k = 0 THEN "RRQ" ELSE "ACK"

UpOK(p) ==
  /\ p.dir = "up" /\ p.t \in Transfer /\ client[p.t] # Idle
  /\ p.k \in Nat /\ p.k <= client[p.t].k
  /\ p.block = p.k % Modulus
  /\ FromPut(p) \/ FromGet(p)

DownOK(p) ==
  /\ p.dir = "down" /\ p.t \in Transfer /\ client[p.t] # Idle
  /\ latest[p.t] >= 0
  /\ p.type # "ERR" => client[p.t].file \in File
  /\ \/ p.type = "ERR"
     \/ /\ p.type = "ACK" /\ client[p.t].op = "put"
        /\ p.k \in Nat /\ p.k <= latest[p.t]
        /\ p.block = p.k % Modulus
     \/ /\ p.type = "DATA" /\ client[p.t].op = "get"
        /\ p.k \in 0 .. Modulus - 1 /\ p.block = p.k
        /\ p.units \in Seq(Unit)

NetOK == \A p \in net : UpOK(p) \/ DownOK(p)

\* Clients take turns, and what has been delivered has been sent.
TurnsOK ==
  \A t \in Transfer :
    /\ client[t] # Idle => \A u \in Transfer : u < t => client[u] # Idle /\ ~Active(u)
    /\ client[t] = Idle => latest[t] = -1
    /\ client[t] # Idle => latest[t] <= client[t].k

\* How far a client is, it has been told to go.
HeardOK ==
  \A t \in Transfer :
    /\ Put(t) =>
         /\ client[t].k <= LastBlockOf(t)
         /\ client[t].k > 0 => Acked(t, client[t].k - 1)
         /\ client[t].state = "done" => Acked(t, LastBlockOf(t))
    /\ Get(t) => (client[t].k > 0 => Served(t))

\* While a download is under way, what is left to read is in the file.
Reading ==
  /\ fileIndex # NoFile
  /\ \/ Ops \subseteq {"get"}
     \/ \E t \in Transfer : Current(t) /\ Get(t) /\ Served(t)

PlaceOK == Reading => lastSend <= bytesLeft /\ ioOffset + bytesLeft <= MaxSize

\* Which operations clients have started.
OpsOK == \A t \in Transfer : client[t] # Idle => client[t].op \in Ops

Mode == InOrder \/ Ops \subseteq {"get"}

NetInv == TypeOK /\ NetOK /\ TurnsOK /\ HeardOK /\ OpsOK /\ PlaceOK

(***************************************************************************)
(* Uploads                                                                 *)
(***************************************************************************)
FileOK ==
  \A t \in Transfer : Current(t) /\ Begun(t) => fileIndex \in {NoFile, client[t].file}

\* Where the units of a file are until it is complete.
Collected(f) == IF f \in TableFile THEN ioBuf ELSE flash[f]

PrefixOK(t) ==
  \A i \in 0 .. MaxSize - 1 : i < ioOffset => Collected(client[t].file)[i] = <<t, i>>

\* The rest of a page begun is erased.
RestErased(t) ==
  client[t].file \in FlashFile /\ ioOffset % Page # 0 =>
    \A i \in 0 .. MaxSize - 1 :
      i >= ioOffset /\ i \div Page = ioOffset \div Page => flash[client[t].file][i] = Erased

Under(t) == Current(t) /\ Begun(t) /\ fileIndex # NoFile /\ Acceptable(t)

ProgressOK ==
  \A t \in Transfer :
    Under(t) => /\ lastBlock = latest[t] % Modulus
                /\ ioOffset = At(latest[t])
                /\ latest[t] < LastBlockOf(t)
                /\ PrefixOK(t)
                /\ RestErased(t)

StoredOK ==
  \A t \in Transfer :
    Put(t) /\ Acceptable(t) /\ IsNewest(t) /\ Acked(t, LastBlockOf(t))
      => Contents(client[t].file) = Text(t)

UploadInv == NetInv /\ FileOK /\ ProgressOK /\ StoredOK

(***************************************************************************)
(* Downloads                                                               *)
(***************************************************************************)
FileLen(f) == Len(Contents(f))

\* Block k of a file as a download sends it.
FileBlock(f, k) ==
  [i \in 1 .. Smaller(FileLen(f) - At(k - 1), Full) |-> Contents(f)[At(k - 1) + i]]

\* The blocks of a file are not more than there are block numbers.
FewBlocks == (MaxSize \div Full) + 1 < Modulus

\* A client has not more blocks than a file can have.
GotFew == \A t \in Transfer : Get(t) => client[t].k <= (MaxSize \div Full) + 1

DataOK ==
  \A p \in net :
    p.dir = "down" /\ p.type = "DATA" /\ Active(p.t) /\ p.k > 0 =>
      At(p.k - 1) <= FileLen(client[p.t].file) /\ p.units = FileBlock(client[p.t].file, p.k)

\* A client that has been sent data and goes on.
Sending(t) == Active(t) /\ Get(t) /\ Served(t)

\* It has the file up to its block.
GotOf(t, f) ==
  /\ At(client[t].k) <= FileLen(f)
  /\ client[t].got = [i \in 1 .. At(client[t].k) |-> Contents(f)[i]]

GotOK == \A t \in Transfer : Sending(t) => GotOf(t, client[t].file)

NothingYet ==
  \A t \in Transfer : Active(t) /\ Get(t) /\ ~Served(t) => client[t].k = 0 /\ client[t].got = <<>>

\* The server reads on in the file where the block it has sent last begins.
SourceOf(f) ==
  /\ fileIndex = f
  /\ ioPtr = IF f \in TableFile THEN "ioBuf" ELSE f
  /\ ioOffset + bytesLeft = FileLen(f)
  /\ lastBlock # 0 => ioOffset = At(lastBlock - 1)
  /\ lastSend \in {0, Smaller(bytesLeft, Full)}
  /\ f \in TableFile => \A i \in 1 .. FileLen(f) : ioBuf[i - 1] = table[f][i]

SourceOK == \A t \in Transfer : Sending(t) /\ fileIndex # NoFile => SourceOf(client[t].file)

DownloadInv == NetInv /\ GotFew /\ DataOK /\ GotOK /\ NothingYet /\ SourceOK

(***************************************************************************)
(* Numbers, blocks and records                                             *)
(***************************************************************************)
\* The constants, as numbers.
LEMMA Constants ==
  /\ MaxSize \in Nat /\ Full \in Nat /\ Full > 0 /\ Page \in Nat /\ Full <= Page
  /\ Modulus \in Nat /\ Modulus > 1
  /\ InOrder \in BOOLEAN /\ Ops \subseteq {"get", "put"} /\ Lengths \subseteq Nat
  /\ MaxFaults \in Nat /\ FlashFile \cap TableFile = {}
BY TftpAssumption

\* The names of the files are no other names.
LEMMA Names == NoFile \notin File /\ "ioBuf" \notin File
BY FileAssumption

\* Transfers are numbered.
LEMMA TransferIsInt == \A t \in Transfer : t \in Int
BY TftpAssumption DEF Transfer

\* The smaller of two numbers.
LEMMA SmallerOf ==
  ASSUME NEW a \in Int, NEW b \in Int
  PROVE  /\ Smaller(a, b) \in Int /\ Smaller(a, b) <= a /\ Smaller(a, b) <= b
         /\ Smaller(a, b) \in {a, b}
BY DEF Smaller

\* A number has one quotient and one remainder.
LEMMA Remainder ==
  ASSUME NEW n \in Nat, NEW q \in Nat, NEW y \in 0 .. n - 1, NEW x \in Nat, x = n * q + y
  PROVE  x % n = y /\ x \div n = q
<1> DEFINE p == x \div n
           z == x % n
<1>1. x = n * p + z /\ z \in 0 .. n - 1 /\ p \in Int
  OBVIOUS
<1> HIDE DEF p, z
<1>2. p = q
  <2>1. CASE p + 1 <= q
    <3>1. n * (p + 1) <= n * q
      BY <1>1, <2>1
    <3> QED BY <1>1, <3>1
  <2>2. CASE q + 1 <= p
    <3>1. n * (q + 1) <= n * p
      BY <1>1, <2>2
    <3> QED BY <1>1, <3>1
  <2> QED BY <1>1, <2>1, <2>2
<1>3. z = y
  BY <1>1, <1>2
<1> QED BY <1>2, <1>3 DEF z, p

\* Block numbers wrap.
LEMMA BlockNumber ==
  ASSUME NEW k \in Nat
  PROVE  /\ k % Modulus \in 0 .. Modulus - 1
         /\ (k + 1) % Modulus # k % Modulus
         /\ ((k % Modulus) + 1) % Modulus = (k + 1) % Modulus
         /\ k < Modulus => k % Modulus = k
<1> DEFINE q == k \div Modulus
           r == k % Modulus
<1>1. k = Modulus * q + r /\ r \in 0 .. Modulus - 1 /\ q \in Nat
  BY Constants
<1>2. k < Modulus => k % Modulus = k
  BY Constants
<1> HIDE DEF q, r
<1>3. CASE r + 1 < Modulus
  <2>1. k + 1 = Modulus * q + (r + 1) /\ r + 1 \in 0 .. Modulus - 1 /\ 0 \in Nat /\ r + 1 = Modulus * 0 + (r + 1)
    BY <1>1, <1>3, Constants
  <2>2. (k + 1) % Modulus = r + 1 /\ (r + 1) % Modulus = r + 1
    BY <1>1, <2>1, Remainder, Constants
  <2> QED BY <1>1, <1>2, <2>2 DEF r
<1>4. CASE r + 1 = Modulus
  <2>1. k + 1 = Modulus * (q + 1) + 0 /\ r + 1 = Modulus * 1 + 0 /\ 0 \in 0 .. Modulus - 1 /\ q + 1 \in Nat
    BY <1>1, <1>4, Constants
  <2>2. (k + 1) % Modulus = 0 /\ (r + 1) % Modulus = 0
    <3>1. k + 1 \in Nat /\ r + 1 \in Nat /\ 1 \in Nat
      BY <1>1
    <3> QED BY <2>1, <3>1, Remainder, Constants
  <2>3. r # 0
    BY <1>1, <1>4, Constants
  <2> QED BY <1>1, <1>2, <2>2, <2>3 DEF r
<1>5. r + 1 < Modulus \/ r + 1 = Modulus
  BY <1>1, Constants
<1> QED BY <1>3, <1>4, <1>5, Zenon

\* Blocks follow each other.
LEMMA AtBlocks ==
  /\ At(0) = 0
  /\ \A k \in Nat : At(k) \in Nat /\ At(k + 1) = At(k) + Full
  /\ \A j, k \in Nat : j <= k => At(j) <= At(k)
BY Constants DEF At

\* The last block of a file is the one that is not full.
LEMMA LastBlock ==
  ASSUME NEW t \in Transfer, client[t].len \in Nat
  PROVE  /\ LastBlockOf(t) \in Nat /\ LastBlockOf(t) >= 1
         /\ At(LastBlockOf(t) - 1) <= client[t].len
         /\ client[t].len < At(LastBlockOf(t))
<1> DEFINE q == client[t].len \div Full
<1>1. q \in Nat /\ q * Full <= client[t].len /\ client[t].len < q * Full + Full
  BY Constants
<1> HIDE DEF q
<1>2. LastBlockOf(t) = q + 1
  BY DEF LastBlockOf, q
<1>3. LastBlockOf(t) \in Nat /\ LastBlockOf(t) >= 1 /\ LastBlockOf(t) - 1 = q
  BY <1>1, <1>2
<1>4. At(q) = q * Full /\ At(q + 1) = At(q) + Full
  BY <1>1, AtBlocks DEF At
<1> QED BY <1>1, <1>2, <1>3, <1>4

\* A block of a file that is sent.
LEMMA Block ==
  ASSUME NEW t \in Transfer, client[t].len \in Nat, NEW k \in Nat, 1 <= k, k <= LastBlockOf(t)
  PROVE  \E n \in 0 .. Full :
           /\ BlockUnits(t, k) = [i \in 1 .. n |-> <<t, At(k - 1) + i - 1>>]
           /\ BlockUnits(t, k) \in Seq(Unit) /\ Len(BlockUnits(t, k)) = n
           /\ At(k - 1) + n <= client[t].len
           /\ n < Full <=> k = LastBlockOf(t)
           /\ n < Full => At(k - 1) + n = client[t].len
<1> DEFINE n == Smaller(Full, client[t].len - At(k - 1))
<1>1. At(k - 1) \in Nat /\ At(k - 1) <= At(LastBlockOf(t) - 1) /\ At(k) = At(k - 1) + Full
  <2>1. k - 1 \in Nat /\ LastBlockOf(t) - 1 \in Nat /\ k - 1 <= LastBlockOf(t) - 1
    BY LastBlock
  <2> QED BY <2>1, AtBlocks
<1>2. At(k - 1) <= client[t].len
  <2>1. At(LastBlockOf(t) - 1) \in Nat
    BY LastBlock, AtBlocks
  <2> QED BY <1>1, <2>1, LastBlock
<1>3. n \in 0 .. Full /\ At(k - 1) + n <= client[t].len /\ (n < Full => At(k - 1) + n = client[t].len)
  BY <1>1, <1>2, Constants DEF Smaller
<1>4. n < Full <=> k = LastBlockOf(t)
  <2>1. CASE k = LastBlockOf(t)
    BY <1>1, <1>2, <2>1, LastBlock, Constants DEF Smaller
  <2>2. CASE k # LastBlockOf(t)
    <3>1. k <= LastBlockOf(t) - 1 /\ LastBlockOf(t) - 1 \in Nat
      BY <2>2, LastBlock
    <3>2. At(k) <= client[t].len
      <4>1. At(k) <= At(LastBlockOf(t) - 1) /\ At(LastBlockOf(t) - 1) \in Nat /\ At(k) \in Nat
        BY <3>1, AtBlocks
      <4> QED BY <4>1, LastBlock
    <3> QED BY <1>1, <2>2, <3>2, Constants DEF Smaller
  <2> QED BY <2>1, <2>2
<1>5. BlockUnits(t, k) = [i \in 1 .. n |-> <<t, At(k - 1) + i - 1>>]
  BY DEF BlockUnits, At
<1> HIDE DEF n
<1>6. \A i \in 1 .. n : <<t, At(k - 1) + i - 1>> \in Unit
  BY <1>1, <1>3 DEF Unit
<1>7. BlockUnits(t, k) \in Seq(Unit) /\ Len(BlockUnits(t, k)) = n
  BY <1>3, <1>5, <1>6
<1> QED BY <1>3, <1>4, <1>5, <1>7

\* The fields of a transfer that has been started.
LEMMA ClientFields ==
  ASSUME TypeOK, NEW t \in Transfer, client[t] # Idle
  PROVE  /\ client[t] \in ClientRecord
         /\ client[t].len \in Nat /\ client[t].k \in Nat /\ client[t].got \in Seq(Unit)
         /\ client[t].op \in {"get", "put"} /\ client[t].file \in File \cup {NoFile}
         /\ client[t].state \in {"active", "done", "failed"} /\ client[t].valid \in BOOLEAN
<1>1. client[t] \in ClientRecord
  BY DEF TypeOK
<1> QED BY <1>1 DEF ClientRecord
(***************************************************************************)
(* Packets                                                                 *)
(***************************************************************************)
\* A packet to the server, as the invariant describes it.
LEMMA UpPacket ==
  ASSUME NetInv, NEW m \in net, m.dir = "up"
  PROVE  /\ m.t \in Transfer /\ client[m.t] # Idle
         /\ m.k \in Nat /\ m.k <= client[m.t].k /\ client[m.t].k \in Nat
         /\ m.block = m.k % Modulus
         /\ FromPut(m) \/ FromGet(m)
<1>1. UpOK(m)
  BY DEF NetInv, NetOK, DownOK
<1> QED BY <1>1, ClientFields DEF UpOK, NetInv

\* A request is the first packet of its client.
LEMMA RequestUp ==
  ASSUME NetInv, NEW m \in net, m.dir = "up", m.type \in Request
  PROVE  /\ m.k = 0
         /\ m.type = "WRQ" => Put(m.t)
         /\ m.type = "RRQ" => Get(m.t)
BY UpPacket DEF FromPut, FromGet, Request, Put, Get

\* A block comes from an upload that has been begun, and is at most the next one.
LEMMA DataUp ==
  ASSUME NetInv, NEW m \in net, m.dir = "up", m.type = "DATA"
  PROVE  /\ Put(m.t) /\ Begun(m.t) /\ client[m.t].file \in File
         /\ m.k >= 1 /\ m.k <= LastBlockOf(m.t)
         /\ m.k <= latest[m.t] + 1 /\ latest[m.t] \in Nat
<1>1. /\ Put(m.t) /\ m.k # 0 /\ m.k <= LastBlockOf(m.t) /\ m.t \in Transfer
      /\ m.k \in Nat /\ client[m.t].k \in Nat /\ m.k <= client[m.t].k
  BY UpPacket DEF FromPut, FromGet, Put
<1>2. client[m.t].k > 0
  BY <1>1
<1>3. PICK p \in net : Answers(p, "ACK", m.t) /\ p.k = client[m.t].k - 1
  BY <1>1, <1>2 DEF NetInv, HeardOK, Acked
<1>4. DownOK(p)
  BY <1>3 DEF NetInv, NetOK, UpOK, Answers
<1>5. Begun(m.t)
  BY <1>3 DEF Begun
<1>6. p.k <= latest[m.t] /\ client[m.t].file \in File /\ latest[m.t] >= 0
  BY <1>3, <1>4 DEF DownOK, Answers
<1>7. latest[m.t] \in Nat
  BY <1>1, <1>6 DEF NetInv, TypeOK
<1> QED BY <1>1, <1>3, <1>5, <1>6, <1>7

\* An acknowledgement comes from a download that has been served.
LEMMA AckUp ==
  ASSUME NetInv, NEW m \in net, m.dir = "up", m.type = "ACK"
  PROVE  /\ Get(m.t) /\ Served(m.t) /\ client[m.t].file \in File
         /\ m.k >= 1 /\ latest[m.t] \in Nat
<1>1. /\ Get(m.t) /\ m.k # 0 /\ m.t \in Transfer
      /\ m.k \in Nat /\ client[m.t].k \in Nat /\ m.k <= client[m.t].k
  BY UpPacket DEF FromPut, FromGet, Get
<1>2. Served(m.t)
  BY <1>1 DEF NetInv, HeardOK
<1>3. PICK p \in net : Answers(p, "DATA", m.t)
  BY <1>2 DEF Served
<1>4. DownOK(p)
  BY <1>3 DEF NetInv, NetOK, UpOK, Answers
<1>5. client[m.t].file \in File /\ latest[m.t] >= 0
  BY <1>3, <1>4 DEF DownOK, Answers
<1>6. latest[m.t] \in Nat
  BY <1>1, <1>5 DEF NetInv, TypeOK
<1> QED BY <1>1, <1>2, <1>5, <1>6

\* What the delivery of a packet does to the order.
LEMMA Delivery ==
  ASSUME NetInv, Mode, NEW m \in net, Delivered(m)
  PROVE  /\ client' = client /\ m.t \in Transfer /\ m.dir = "up"
         /\ latest' \in [Transfer -> Nat \cup {-1}]
         /\ \A t \in Transfer : latest'[t] >= latest[t] /\ (t # m.t => latest'[t] = latest[t])
         /\ latest'[m.t] \in Nat /\ latest'[m.t] <= client[m.t].k
         /\ InOrder => latest'[m.t] = m.k /\ m.k >= latest[m.t]
         /\ InOrder \/ m.type \in Request => \A u \in Transfer : u > m.t => latest[u] = -1
<1>1. client' = client /\ m.dir = "up" /\ m.k >= latest[m.t]
  BY DEF Delivered
<1>2. m.t \in Transfer /\ m.k \in Nat /\ m.k <= client[m.t].k
  BY <1>1, UpPacket
<1>3. latest \in [Transfer -> Nat \cup {-1}]
  BY DEF NetInv, TypeOK
<1>4. CASE InOrder \/ m.type \in Request
  <2>1. latest' = [latest EXCEPT ![m.t] = m.k] /\ \A u \in Transfer : u > m.t => latest[u] = -1
    BY <1>4 DEF Delivered
  <2>2. \A t \in Transfer : latest'[t] = IF t = m.t THEN m.k ELSE latest[t]
    BY <1>3, <2>1
  <2>3. latest' \in [Transfer -> Nat \cup {-1}]
    BY <1>2, <1>3, <2>1
  <2>4. \A t \in Transfer : latest[t] \in Int
    BY <1>3
  <2> QED BY <1>1, <1>2, <2>1, <2>2, <2>3, <2>4
<1>5. CASE ~(InOrder \/ m.type \in Request)
  <2>1. latest' = latest
    BY <1>5 DEF Delivered
  <2>2. Get(m.t)
    <3>1. client[m.t].op = "get"
      BY <1>1, <1>2, <1>5, UpPacket DEF Mode, NetInv, OpsOK
    <3> QED BY <1>1, <3>1, UpPacket DEF Get
  <2>3. m.type = "ACK"
    BY <1>1, <1>5, <2>2, UpPacket DEF FromPut, FromGet, Get, Request
  <2>4. latest[m.t] \in Nat
    BY <1>1, <2>3, AckUp
  <2>5. latest[m.t] <= client[m.t].k
    BY <1>2, <2>2 DEF NetInv, TurnsOK, Get
  <2>6. \A t \in Transfer : latest[t] \in Int
    BY <1>3
  <2> QED BY <1>1, <1>2, <1>3, <1>5, <2>1, <2>4, <2>5, <2>6
<1> QED BY <1>4, <1>5

\* How the server answers a packet: an error, an acknowledgement or data.
Reply(m) ==
  \/ net' = net
  \/ Sent(ToClient(m.t, "ERR", 0, 0, <<>>))
  \/ /\ Put(m.t) /\ client[m.t].file \in File
     /\ m.type = "DATA" => Begun(m.t)
     /\ Sent(ToClient(m.t, "ACK", m.k % Modulus, m.k, <<>>))
  \/ /\ Get(m.t) /\ client[m.t].file \in File
     /\ \E b \in 0 .. Modulus - 1, units \in Seq(Unit) : Sent(ToClient(m.t, "DATA", b, b, units))
\* Text and data are of units.
LEMMA CellTypes ==
  ASSUME NEW cells \in [Range0(MaxSize) -> Unit], NEW offset \in Nat, NEW n \in Nat,
         NEW units \in Seq(Unit)
  PROVE  /\ ErasedFor(cells, offset, n) \in [Range0(MaxSize) -> Unit]
         /\ Written(cells, offset, units) \in [Range0(MaxSize) -> Unit]
         /\ Copied(cells, offset, units) \in [Range0(MaxSize) -> Unit]
<1>1. Erased \in Unit /\ Garbled \in Unit
  BY DEF Unit
<1>2. \A k \in Nat : ErasedFor(cells, offset, k) \in [Range0(MaxSize) -> Unit]
  BY <1>1 DEF ErasedFor
<1>3. Len(units) \in Nat
  OBVIOUS
<1>4. \A i \in offset .. offset + Len(units) - 1 : units[i - offset + 1] \in Unit
  <2>1. SUFFICES ASSUME NEW i \in offset .. offset + Len(units) - 1
                 PROVE  units[i - offset + 1] \in Unit
    OBVIOUS
  <2>2. i - offset + 1 \in 1 .. Len(units)
    BY <1>3
  <2> QED BY <2>2
<1>5. Written(cells, offset, units) \in [Range0(MaxSize) -> Unit]
  <2> DEFINE e == ErasedFor(cells, offset, Len(units))
  <2>1. e \in [Range0(MaxSize) -> Unit]
    BY <1>2, <1>3
  <2>2. Written(cells, offset, units) =
          [i \in Range0(MaxSize) |->
             IF i \notin offset .. offset + Len(units) - 1 THEN e[i]
             ELSE IF e[i] = Erased THEN units[i - offset + 1] ELSE Garbled]
    BY DEF Written
  <2> HIDE DEF e
  <2> QED BY <1>1, <1>4, <2>1, <2>2
<1>6. Copied(cells, offset, units) \in [Range0(MaxSize) -> Unit]
  <2>1. Copied(cells, offset, units) =
          [i \in Range0(MaxSize) |->
             IF i \in offset .. offset + Len(units) - 1 THEN units[i - offset + 1] ELSE cells[i]]
    BY DEF Copied
  <2> QED BY <1>4, <2>1
<1> QED BY <1>2, <1>5, <1>6

\* Sending a block: what goes out, and what is noted of it.
LEMMA Sends ==
  ASSUME NEW m, NEW block, NEW offset \in Int, NEW left \in Nat,
         NEW cells \in [Range0(MaxSize) -> Unit], SendBlock(m, block, offset, left, cells)
  PROVE  /\ lastSend' \in 0 .. Full /\ lastSend' <= left /\ lastSend' \in {0, Smaller(left, Full)}
         /\ \/ net' = net
            \/ \E units \in Seq(Unit) :
                 /\ units = [i \in 1 .. Smaller(left, Full) |->
                               IF offset + i - 1 \in DOMAIN cells THEN cells[offset + i - 1] ELSE Garbled]
                 /\ Sent(ToClient(m.t, "DATA", block, block, units))
         /\ UNCHANGED faults \/ Fault("alloc")
<1> DEFINE n == Smaller(left, Full)
           units == [i \in 1 .. n |->
                       IF offset + i - 1 \in DOMAIN cells THEN cells[offset + i - 1] ELSE Garbled]
<1>1. n \in 0 .. Full /\ n <= left
  BY Constants DEF Smaller
<1>2. \/ lastSend' = n /\ Sent(ToClient(m.t, "DATA", block, block, units)) /\ UNCHANGED faults
      \/ lastSend' = 0 /\ Fault("alloc") /\ net' = net
  BY DEF SendBlock
<1>3. units \in Seq(Unit)
  <2>1. \A i \in 1 .. n : units[i] \in Unit
    <3>1. Garbled \in Unit
      BY DEF Unit
    <3> QED BY <3>1
  <2> HIDE DEF n
  <2> QED BY <1>1, <2>1
<1> HIDE DEF units
<1>4. \/ net' = net
      \/ units \in Seq(Unit) /\ Sent(ToClient(m.t, "DATA", block, block, units))
  BY <1>2, <1>3
<1>5. lastSend' \in 0 .. Full /\ lastSend' <= left /\ lastSend' \in {0, n}
  BY <1>1, <1>2, Constants
<1>6. UNCHANGED faults \/ Fault("alloc")
  BY <1>2
<1> QED BY <1>4, <1>5, <1>6 DEF units

\* So data goes out, or nothing.
LEMMA SendsData ==
  ASSUME NEW m, NEW block, NEW offset \in Int, NEW left \in Nat,
         NEW cells \in [Range0(MaxSize) -> Unit], SendBlock(m, block, offset, left, cells)
  PROVE  \/ net' = net
         \/ \E units \in Seq(Unit) : Sent(ToClient(m.t, "DATA", block, block, units))
BY Sends

\* The source of a download is a piece of memory.
LEMMA SourceType ==
  ASSUME TypeOK PROVE Source \in [Range0(MaxSize) -> Unit]
BY DEF TypeOK, Source

\* A table fits into the buffer.
LEMMA TableType ==
  ASSUME TypeOK, NEW f \in TableFile
  PROVE  /\ table[f] \in Seq(Unit) /\ Len(table[f]) \in 0 .. MaxSize
         /\ Copied(ioBuf, 0, table[f]) \in [Range0(MaxSize) -> Unit]
<1>1. table[f] \in Seq(Unit) /\ Len(table[f]) \in 0 .. MaxSize
  BY Constants DEF TypeOK
<1>2. ioBuf \in [Range0(MaxSize) -> Unit]
  BY DEF TypeOK
<1> QED BY <1>1, <1>2, CellTypes

\* What a request for a file sets up.
LEMMA Beginning ==
  ASSUME NetInv, Mode, NEW m \in net, BeginDownload(m)
  PROVE  LET f == client[m.t].file IN
         /\ Delivered(m) /\ m.type = "RRQ" /\ Get(m.t) /\ f \in File
         /\ fileIndex' = f /\ ioOffset' = 0 /\ lastBlock' = 1
         /\ bytesLeft' = (IF f \in TableFile THEN Len(table[f]) ELSE size[f])
         /\ bytesLeft' \in 0 .. MaxSize
         /\ ioPtr' = IF f \in TableFile THEN "ioBuf" ELSE f
         /\ ioBuf' = IF f \in TableFile THEN Copied(ioBuf, 0, table[f]) ELSE ioBuf
         /\ ioBuf' \in [Range0(MaxSize) -> Unit]
         /\ (IF f \in TableFile THEN ioBuf' ELSE flash[f]) \in [Range0(MaxSize) -> Unit]
         /\ SendBlock(m, 1, 0, bytesLeft', IF f \in TableFile THEN ioBuf' ELSE flash[f])
         /\ UNCHANGED <<recent, flash, size, table>>
<1> DEFINE f == client[m.t].file
<1>1. /\ Delivered(m) /\ m.type = "RRQ" /\ f # NoFile
      /\ fileIndex' = f /\ ioOffset' = 0 /\ lastBlock' = 1
      /\ SendBlock(m, 1, 0, bytesLeft', IF f \in TableFile THEN ioBuf' ELSE flash[f])
      /\ UNCHANGED <<recent, flash, size, table>>
  BY DEF BeginDownload, store
<1>2. Get(m.t) /\ m.t \in Transfer
  BY <1>1, RequestUp, Delivery DEF Request
<1>3. f \in File
  BY <1>1, <1>2, ClientFields DEF Get, NetInv
<1>4. CASE f \in TableFile
  <2>1. ioBuf' = Copied(ioBuf, 0, table[f]) /\ ioPtr' = "ioBuf" /\ bytesLeft' = Len(table[f])
    BY <1>4 DEF BeginDownload
  <2>2. Len(table[f]) \in 0 .. MaxSize /\ Copied(ioBuf, 0, table[f]) \in [Range0(MaxSize) -> Unit]
    BY <1>4, TableType DEF NetInv
  <2> QED BY <1>1, <1>2, <1>3, <1>4, <2>1, <2>2
<1>5. CASE f \notin TableFile
  <2>1. ioBuf' = ioBuf /\ ioPtr' = f /\ bytesLeft' = size[f]
    BY <1>5 DEF BeginDownload
  <2>2. f \in FlashFile
    BY <1>3, <1>5 DEF File
  <2>3. size[f] \in 0 .. MaxSize /\ flash[f] \in [Range0(MaxSize) -> Unit]
        /\ ioBuf \in [Range0(MaxSize) -> Unit]
    BY <2>2 DEF NetInv, TypeOK
  <2> QED BY <1>1, <1>2, <1>3, <1>5, <2>1, <2>3
<1> QED BY <1>4, <1>5
\* An acknowledgement finds the place of the download in the file.
LEMMA Continuing ==
  ASSUME NetInv, Mode, NEW m \in net, Delivered(m), m.type = "ACK", fileIndex # NoFile
  PROVE  /\ Get(m.t) /\ Served(m.t) /\ client[m.t].file \in File /\ m.t \in Transfer
         /\ lastSend <= bytesLeft /\ ioOffset + bytesLeft <= MaxSize
         /\ lastSend \in 0 .. Full /\ bytesLeft \in 0 .. MaxSize /\ ioOffset \in 0 .. MaxSize
         /\ lastBlock \in 0 .. Modulus - 1 /\ NextBlock \in 0 .. Modulus - 1
         /\ Source \in [Range0(MaxSize) -> Unit]
<1>1. /\ Get(m.t) /\ Served(m.t) /\ client[m.t].file \in File /\ m.t \in Transfer
      /\ latest[m.t] \in Nat
  BY Delivery, AckUp
<1>2. Reading
  <2>1. CASE InOrder
    <3>1. Current(m.t)
      BY <1>1, <2>1, Delivery DEF Current
    <3> QED BY <1>1, <3>1 DEF Reading
  <2>2. CASE Ops \subseteq {"get"}
    BY <2>2 DEF Reading
  <2> QED BY <2>1, <2>2 DEF Mode
<1>3. lastSend <= bytesLeft /\ ioOffset + bytesLeft <= MaxSize
  BY <1>2 DEF NetInv, PlaceOK
<1>4. /\ lastSend \in 0 .. Full /\ bytesLeft \in 0 .. MaxSize /\ ioOffset \in 0 .. MaxSize
      /\ lastBlock \in 0 .. Modulus - 1
  BY DEF NetInv, TypeOK
<1>5. NextBlock \in 0 .. Modulus - 1
  BY <1>4, BlockNumber, Constants DEF NextBlock
<1>6. Source \in [Range0(MaxSize) -> Unit]
  BY SourceType DEF NetInv
<1> QED BY <1>1, <1>3, <1>4, <1>5, <1>6

\* The block acknowledged: the next one goes out, or the download ends.
LEMMA Advancing ==
  ASSUME NetInv, Mode, NEW m \in net, AckNext(m)
  PROVE  /\ Delivered(m) /\ m.type = "ACK" /\ fileIndex # NoFile /\ IsAnswered(m)
         /\ lastBlock' = NextBlock
         /\ ioOffset' = ioOffset + lastSend /\ bytesLeft' = bytesLeft - lastSend
         /\ ioOffset' \in 0 .. MaxSize /\ bytesLeft' \in 0 .. MaxSize
         /\ recent' = TRUE
         /\ \/ /\ lastSend = Full /\ fileIndex' = fileIndex
               /\ SendBlock(m, NextBlock, ioOffset', bytesLeft', Source)
            \/ /\ lastSend # Full /\ fileIndex' = NoFile
               /\ UNCHANGED <<lastSend, net, faults>>
         /\ UNCHANGED <<ioPtr, ioBuf, flash, size, table>>
<1>1. /\ Delivered(m) /\ m.type = "ACK" /\ fileIndex # NoFile /\ IsAnswered(m)
      /\ lastBlock' = NextBlock
      /\ ioOffset' = ioOffset + lastSend /\ bytesLeft' = bytesLeft - lastSend
      /\ recent' = TRUE
      /\ \/ /\ lastSend = Full /\ fileIndex' = fileIndex
            /\ SendBlock(m, NextBlock, ioOffset', bytesLeft', Source)
         \/ /\ lastSend # Full /\ fileIndex' = NoFile
            /\ UNCHANGED <<lastSend, net, faults>>
      /\ UNCHANGED <<ioPtr, ioBuf, flash, size, table>>
  BY DEF AckNext, store
<1>2. /\ lastSend <= bytesLeft /\ ioOffset + bytesLeft <= MaxSize
      /\ lastSend \in 0 .. Full /\ bytesLeft \in 0 .. MaxSize /\ ioOffset \in 0 .. MaxSize
  BY <1>1, Continuing
<1>3. ioOffset' \in 0 .. MaxSize /\ bytesLeft' \in 0 .. MaxSize
  BY <1>1, <1>2, Constants
<1> QED BY <1>1, <1>3

\* A block of data that arrives, and the file it goes to.
LEMMA Arriving ==
  ASSUME NetInv, Mode, NEW m \in net, DataArrives(m)
  PROVE  /\ Delivered(m) /\ m.type = "DATA" /\ fileIndex # NoFile
         /\ Put(m.t) /\ Begun(m.t) /\ client[m.t].file \in File /\ m.t \in Transfer
         /\ InOrder /\ Current(m.t) /\ latest'[m.t] = m.k
         /\ m.block = m.k % Modulus
         /\ m.k \in Nat /\ m.k >= 1 /\ m.k <= LastBlockOf(m.t)
         /\ latest[m.t] \in Nat /\ latest[m.t] <= m.k /\ m.k <= latest[m.t] + 1
         /\ client[m.t].len \in Nat
<1>1. Delivered(m) /\ m.type = "DATA" /\ fileIndex # NoFile
  BY DEF DataArrives
<1>2. /\ Put(m.t) /\ Begun(m.t) /\ client[m.t].file \in File /\ m.t \in Transfer
      /\ m.k \in Nat /\ m.k >= 1 /\ m.k <= LastBlockOf(m.t)
      /\ latest[m.t] \in Nat /\ m.k <= latest[m.t] + 1
      /\ m.block = m.k % Modulus
  BY <1>1, Delivery, DataUp, UpPacket
<1>3. InOrder
  BY <1>2 DEF Put, Mode, NetInv, OpsOK
<1>4. latest'[m.t] = m.k /\ latest[m.t] <= m.k
  BY <1>1, <1>2, <1>3, Delivery
<1>5. Current(m.t)
  BY <1>1, <1>2, <1>3, Delivery DEF Current
<1>6. client[m.t].len \in Nat
  BY <1>2, ClientFields DEF Put, NetInv
<1> QED BY <1>1, <1>2, <1>3, <1>4, <1>5, <1>6

\* Every handler delivers the packet and answers it so.
LEMMA Replies ==
  ASSUME NetInv, Mode, NEW m \in net, HandlePacket(m)
  PROVE  Delivered(m) /\ Reply(m)
<1>1. CASE RefuseBusy(m)
  BY <1>1 DEF RefuseBusy, ReplyERR, Reply
<1>2. CASE RefuseName(m)
  BY <1>2 DEF RefuseName, ReplyERR, Reply
<1>3. CASE BeginUpload(m)
  <2>1. Delivered(m) /\ m.type = "WRQ" /\ client[m.t].file # NoFile /\ ReplyACK(m, 0)
    BY <1>3 DEF BeginUpload
  <2>2. Put(m.t) /\ m.k = 0 /\ m.t \in Transfer
    BY <2>1, RequestUp, Delivery DEF Request
  <2>3. client[m.t].file \in File
    BY <2>1, <2>2, ClientFields DEF Put, NetInv
  <2>4. m.k % Modulus = 0
    BY <2>2, BlockNumber, Constants
  <2> QED BY <2>1, <2>2, <2>3, <2>4 DEF ReplyACK, Reply
<1>4. CASE BeginDownload(m)
  <2>1. /\ Delivered(m) /\ Get(m.t) /\ client[m.t].file \in File
        /\ \/ net' = net
           \/ \E units \in Seq(Unit) : Sent(ToClient(m.t, "DATA", 1, 1, units))
    <3>1. PICK left \in Nat, cells \in [Range0(MaxSize) -> Unit] : SendBlock(m, 1, 0, left, cells)
      <4>1. bytesLeft' \in Nat
        BY <1>4, Beginning, Constants
      <4> QED BY <1>4, <4>1, Beginning
    <3>2. \/ net' = net
          \/ \E units \in Seq(Unit) : Sent(ToClient(m.t, "DATA", 1, 1, units))
      BY <3>1, SendsData
    <3> QED BY <1>4, <3>2, Beginning
  <2>2. 1 \in 0 .. Modulus - 1
    BY Constants
  <2> QED BY <2>1, <2>2 DEF Reply
<1>5. CASE \/ AcknowledgeAgain(m) \/ IgnoreData(m) \/ RefuseTooBig(m) \/ StoreBlock(m)
           \/ StoreBlockFails(m) \/ CollectBlock(m) \/ FinishTable(m)
  <2>1. DataArrives(m)
    BY <1>5 DEF AcknowledgeAgain, IgnoreData, RefuseTooBig, StoreBlock, StoreBlockFails,
                CollectBlock, FinishTable, BlockArrives
  <2>2. net' = net \/ ReplyERR(m) \/ ReplyACK(m, m.block)
    BY <1>5 DEF AcknowledgeAgain, IgnoreData, RefuseTooBig, StoreBlock, StoreBlockFails,
                CollectBlock, FinishTable
  <2> QED BY <2>1, <2>2, Arriving DEF ReplyERR, ReplyACK, Reply
<1>6. CASE AckNext(m)
  <2>1. /\ Delivered(m) /\ Get(m.t) /\ client[m.t].file \in File /\ NextBlock \in 0 .. Modulus - 1
        /\ Source \in [Range0(MaxSize) -> Unit]
    BY <1>6, Advancing, Continuing
  <2>2. \/ net' = net
        \/ \E units \in Seq(Unit) : Sent(ToClient(m.t, "DATA", NextBlock, NextBlock, units))
    <3>1. CASE SendBlock(m, NextBlock, ioOffset', bytesLeft', Source)
      <4>1. ioOffset' \in 0 .. MaxSize /\ bytesLeft' \in 0 .. MaxSize
        BY <1>6, Advancing
      <4>2. ioOffset' \in Int /\ bytesLeft' \in Nat
        BY <4>1, Constants
      <4> QED BY <2>1, <3>1, <4>2, SendsData
    <3> QED BY <1>6, <3>1, Advancing
  <2> QED BY <2>1, <2>2 DEF Reply
<1>7. CASE AckOther(m)
  <2>1. /\ Delivered(m) /\ m.type = "ACK" /\ fileIndex # NoFile
        /\ SendBlock(m, lastBlock, ioOffset, bytesLeft, Source)
    BY <1>7 DEF AckOther
  <2>2. /\ Get(m.t) /\ client[m.t].file \in File /\ lastBlock \in 0 .. Modulus - 1
        /\ Source \in [Range0(MaxSize) -> Unit] /\ ioOffset \in Int /\ bytesLeft \in Nat
    BY <2>1, Continuing, Constants
  <2>3. \/ net' = net
        \/ \E units \in Seq(Unit) : Sent(ToClient(m.t, "DATA", lastBlock, lastBlock, units))
    BY <2>1, <2>2, SendsData
  <2> QED BY <2>1, <2>2, <2>3 DEF Reply
<1> QED BY <1>1, <1>2, <1>3, <1>4, <1>5, <1>6, <1>7 DEF HandlePacket
\* A packet stays as it should be while the clients go on and more is delivered.
LEMMA PacketsStay ==
  ASSUME NetInv, NEW p \in net,
         client' = client, latest' \in [Transfer -> Nat \cup {-1}],
         \A t \in Transfer : latest'[t] >= latest[t]
  PROVE  (UpOK(p) \/ DownOK(p))'
<1>1. UpOK(p) \/ DownOK(p)
  BY DEF NetInv, NetOK
<1>2. CASE UpOK(p)
  <2>1. (FromPut(p) \/ FromGet(p))' <=> (FromPut(p) \/ FromGet(p))
    BY DEF FromPut, FromGet, LastBlockOf
  <2> QED BY <1>2, <2>1 DEF UpOK
<1>3. CASE DownOK(p)
  <2>1. p.t \in Transfer /\ latest \in [Transfer -> Nat \cup {-1}]
    BY <1>3 DEF DownOK, NetInv, TypeOK
  <2>2. latest'[p.t] >= latest[p.t] /\ latest[p.t] \in Int /\ latest'[p.t] \in Int
    BY <2>1
  <2>3. latest'[p.t] >= 0 /\ \A k \in Nat : k <= latest[p.t] => k <= latest'[p.t]
    BY <1>3, <2>2 DEF DownOK
  <2> QED BY <1>3, <2>3 DEF DownOK
<1> QED BY <1>1, <1>2, <1>3

\* What has been sent stays sent.
LEMMA SentStays ==
  ASSUME net \subseteq net', NEW t
  PROVE  /\ \A k : Acked(t, k) => Acked(t, k)'
         /\ Begun(t) => Begun(t)'
         /\ Served(t) => Served(t)'
BY DEF Acked, Begun, Served, Answers

\* The server's answer is in order, and the other packets are still.
LEMMA NetKept ==
  ASSUME NetInv, Mode, NEW m \in net, Delivered(m), Reply(m)
  PROVE  NetOK' /\ TurnsOK' /\ HeardOK' /\ OpsOK' /\ net \subseteq net'
<1>1. /\ client' = client /\ m.t \in Transfer /\ m.dir = "up" /\ m.k \in Nat
      /\ client[m.t] # Idle
      /\ latest' \in [Transfer -> Nat \cup {-1}]
      /\ \A t \in Transfer : latest'[t] >= latest[t] /\ (t # m.t => latest'[t] = latest[t])
      /\ latest'[m.t] \in Nat /\ latest'[m.t] <= client[m.t].k
  BY Delivery, UpPacket
<1>2. net \subseteq net'
  BY DEF Reply, Sent
<1>3. NetOK'
  <2>1. \A p \in net : (UpOK(p) \/ DownOK(p))'
    BY <1>1, PacketsStay
  <2>2. ASSUME NEW q, q = ToClient(m.t, "ERR", 0, 0, <<>>)
        PROVE  DownOK(q)'
    BY <1>1, <2>2 DEF DownOK, ToClient
  <2>3. ASSUME NEW q, q = ToClient(m.t, "ACK", m.k % Modulus, m.k, <<>>),
               Put(m.t), client[m.t].file \in File
        PROVE  DownOK(q)'
    <3>1. InOrder
      BY <1>1, <2>3 DEF Put, Mode, NetInv, OpsOK
    <3>2. latest'[m.t] = m.k
      BY <3>1, Delivery
    <3>3. m.k <= latest'[m.t]
      BY <1>1, <3>2
    <3> QED BY <1>1, <2>3, <3>3 DEF DownOK, ToClient, Put
  <2>4. ASSUME NEW q, NEW b \in 0 .. Modulus - 1, NEW units \in Seq(Unit),
               q = ToClient(m.t, "DATA", b, b, units), Get(m.t), client[m.t].file \in File
        PROVE  DownOK(q)'
    BY <1>1, <2>4 DEF DownOK, ToClient, Get
  <2>5. \A q \in net' : q \in net \/ DownOK(q)'
    BY <2>2, <2>3, <2>4 DEF Reply, Sent
  <2> QED BY <2>1, <2>5 DEF NetOK
<1>4. TurnsOK'
  BY <1>1 DEF NetInv, TurnsOK, Active
<1>5. HeardOK'
  <2>1. SUFFICES ASSUME NEW t \in Transfer
                 PROVE  /\ Put(t)' =>
                             /\ client'[t].k <= LastBlockOf(t)'
                             /\ client'[t].k > 0 => Acked(t, client[t].k - 1)'
                             /\ client'[t].state = "done" => Acked(t, LastBlockOf(t))'
                        /\ Get(t)' => (client'[t].k > 0 => Served(t)')
    BY DEF HeardOK
  <2>2. (Put(t)' <=> Put(t)) /\ (Get(t)' <=> Get(t))
    BY <1>1 DEF Put, Get
  <2>3. PICK b : b = LastBlockOf(t) /\ b = LastBlockOf(t)'
    BY <1>1 DEF LastBlockOf
  <2>4. PICK k : k = client[t].k - 1 /\ k = client'[t].k - 1
    BY <1>1
  <2>5. /\ Put(t) => /\ client[t].k <= b
                     /\ client[t].k > 0 => Acked(t, k)
                     /\ client[t].state = "done" => Acked(t, b)
        /\ Get(t) => (client[t].k > 0 => Served(t))
    BY <2>3, <2>4 DEF NetInv, HeardOK
  <2>6. (Acked(t, k) => Acked(t, k)') /\ (Acked(t, b) => Acked(t, b)') /\ (Served(t) => Served(t)')
    BY <1>2, SentStays
  <2>7. (Acked(t, k)' => Acked(t, client[t].k - 1)') /\ (Acked(t, b)' => Acked(t, LastBlockOf(t))')
    BY <2>3, <2>4
  <2> QED BY <1>1, <2>2, <2>3, <2>5, <2>6, <2>7
<1>6. OpsOK'
  BY <1>1 DEF NetInv, OpsOK
<1> QED BY <1>2, <1>3, <1>4, <1>5, <1>6
\* Only one transfer is the current one.
LEMMA OneCurrent ==
  ASSUME NEW t \in Transfer, NEW u \in Transfer, Current(t), Current(u),
         latest \in [Transfer -> Nat \cup {-1}]
  PROVE  t = u
<1>1. latest[t] # -1 /\ latest[u] # -1
  BY DEF Current
<1>2. ~(u > t) /\ ~(t > u)
  BY <1>1 DEF Current
<1> QED BY <1>2, TransferIsInt

\* Where packets keep their order, what has been delivered is of the current
\* transfer.
LEMMA DeliveredIsCurrent ==
  ASSUME NetInv, Mode, NEW m \in net, Delivered(m), InOrder \/ m.type \in Request
  PROVE  Current(m.t)' /\ \A t \in Transfer : Current(t)' => t = m.t
<1>1. /\ m.t \in Transfer /\ latest' \in [Transfer -> Nat \cup {-1}] /\ latest'[m.t] \in Nat
      /\ \A t \in Transfer : t # m.t => latest'[t] = latest[t]
      /\ \A u \in Transfer : u > m.t => latest[u] = -1
  BY Delivery
<1>2. \A u \in Transfer : u > m.t => u # m.t
  BY <1>1, TransferIsInt
<1>3. Current(m.t)'
  BY <1>1, <1>2 DEF Current
<1>4. ASSUME NEW t \in Transfer, Current(t)', t # m.t PROVE FALSE
  <2>1. t > m.t \/ m.t > t
    BY <1>1, <1>4, TransferIsInt
  <2>2. latest'[t] # -1 /\ latest'[m.t] # -1
    BY <1>1, <1>4 DEF Current
  <2> QED BY <1>1, <1>3, <1>4, <2>1, <2>2 DEF Current
<1> QED BY <1>3, <1>4

\* While no data goes out, no download begins.
LEMMA ReadingStays ==
  ASSUME NetInv, client' = client, fileIndex' = fileIndex,
         latest' \in [Transfer -> Nat \cup {-1}],
         \A t \in Transfer : latest'[t] >= latest[t],
         \A t \in Transfer : Served(t)' => Served(t), Reading'
  PROVE  Reading
<1>1. CASE Ops \subseteq {"get"}
  BY <1>1 DEF Reading
<1>2. ASSUME NEW t \in Transfer, Current(t)', Get(t)', Served(t)'
      PROVE  Reading
  <2>1. Served(t) /\ Get(t)
    BY <1>2 DEF Get
  <2>2. PICK p \in net : Answers(p, "DATA", t)
    BY <2>1 DEF Served
  <2>3. latest[t] >= 0
    BY <2>2 DEF NetInv, NetOK, UpOK, DownOK, Answers
  <2>4. \A u \in Transfer : latest[u] \in Nat \cup {-1} /\ latest'[u] \in Nat \cup {-1}
    BY DEF NetInv, TypeOK
  <2>5. \A u \in Transfer : latest'[u] = -1 => latest[u] = -1
    BY <2>4
  <2>6. Current(t)
    BY <1>2, <2>3, <2>5 DEF Current
  <2> QED BY <2>1, <2>6 DEF Reading
<1> QED BY <1>1, <1>2 DEF Reading

\* So the place of a download stays.
LEMMA PlaceStays ==
  ASSUME NetInv, client' = client,
         fileIndex' = NoFile \/ (fileIndex' = fileIndex /\ UNCHANGED <<lastSend, bytesLeft, ioOffset>>),
         latest' \in [Transfer -> Nat \cup {-1}],
         \A t \in Transfer : latest'[t] >= latest[t],
         \A t \in Transfer : Served(t)' => Served(t)
  PROVE  PlaceOK'
<1>1. CASE fileIndex' = NoFile
  BY <1>1 DEF PlaceOK, Reading
<1>2. CASE fileIndex' = fileIndex /\ UNCHANGED <<lastSend, bytesLeft, ioOffset>>
  <2>1. Reading' => Reading
    BY <1>2, ReadingStays
  <2> QED BY <1>2, <2>1 DEF NetInv, PlaceOK
<1> QED BY <1>1, <1>2

\* While an upload is current, no download is under way.
LEMMA NoReading ==
  ASSUME NetInv, Mode, NEW m \in net, Delivered(m), Put(m.t)
  PROVE  PlaceOK'
<1>1. client' = client /\ m.t \in Transfer
  BY Delivery
<1>2. InOrder /\ ~(Ops \subseteq {"get"})
  BY <1>1 DEF Put, Mode, NetInv, OpsOK
<1>3. \A t \in Transfer : Current(t)' => ~Get(t)'
  BY <1>1, <1>2, DeliveredIsCurrent DEF Put, Get
<1> QED BY <1>2, <1>3 DEF PlaceOK, Reading

\* A fault is noted.
LEMMA FaultTypes ==
  ASSUME TypeOK, faults' = faults \/ \E kind : Fault(kind)
  PROVE  faults' \in Seq(FaultKinds) /\ Len(faults') <= MaxFaults
<1>1. faults \in Seq(FaultKinds) /\ Len(faults) <= MaxFaults /\ Len(faults) \in Nat
  BY DEF TypeOK
<1>2. ASSUME NEW kind, Fault(kind) PROVE faults' \in Seq(FaultKinds) /\ Len(faults') <= MaxFaults
  <2>1. kind \in FaultKinds /\ Len(faults) < MaxFaults /\ faults' = Append(faults, kind)
    BY <1>2 DEF Fault
  <2>2. faults' \in Seq(FaultKinds) /\ Len(faults') = Len(faults) + 1
    BY <1>1, <2>1
  <2> QED BY <1>1, <2>1, <2>2, Constants
<1> QED BY <1>1, <1>2
\* The types of what the server has.
MemoryOK ==
  /\ fileIndex \in File \cup {NoFile}
  /\ ioOffset \in 0 .. MaxSize
  /\ bytesLeft \in 0 .. MaxSize
  /\ lastBlock \in 0 .. Modulus - 1
  /\ lastSend \in 0 .. Full
  /\ ioPtr \in FlashFile \cup {"ioBuf"}
  /\ recent \in BOOLEAN
  /\ ioBuf \in [Range0(MaxSize) -> Unit]
  /\ flash \in [FlashFile -> [Range0(MaxSize) -> Unit]]
  /\ size \in [FlashFile -> 0 .. MaxSize]
  /\ table \in [TableFile -> Seq(Unit)]
  /\ \A f \in TableFile : Len(table[f]) <= MaxSize
  /\ faults \in Seq(FaultKinds) /\ Len(faults) <= MaxFaults

\* They are, with those of the network and the clients, the types.
LEMMA TypesOfAll ==
  /\ TypeOK => MemoryOK
  /\ (/\ MemoryOK /\ client \in [Transfer -> {Idle} \cup ClientRecord]
      /\ latest \in [Transfer -> Nat \cup {-1}]) => TypeOK
BY DEF TypeOK, MemoryOK

\* Requests and acknowledgements keep the types.
LEMMA ReadTypes ==
  ASSUME NetInv, Mode, NEW m \in net,
         \/ RefuseBusy(m) \/ RefuseName(m) \/ BeginUpload(m) \/ BeginDownload(m)
         \/ AckNext(m) \/ AckOther(m)
  PROVE  MemoryOK' /\ PlaceOK'
<1>1. MemoryOK /\ 0 \in 0 .. Modulus - 1 /\ 0 \in 0 .. MaxSize /\ 1 \in 0 .. Modulus - 1
      /\ NoFile \in File \cup {NoFile}
  BY TypesOfAll, Constants DEF NetInv
<1>2. ASSUME Delivered(m)
      PROVE  /\ client' = client /\ latest' \in [Transfer -> Nat \cup {-1}]
             /\ \A t \in Transfer : latest'[t] >= latest[t]
  BY <1>2, Delivery
<1>3. ASSUME ReplyERR(m) PROVE \A t \in Transfer : Served(t)' => Served(t)
  BY <1>3 DEF ReplyERR, Sent, ToClient, Served, Answers
<1>4. CASE RefuseBusy(m)
  <2>1. /\ Delivered(m) /\ ReplyERR(m) /\ lastBlock' = 0
        /\ UNCHANGED <<fileIndex, ioOffset, bytesLeft, lastSend, ioPtr, recent, ioBuf,
                       flash, size, table, faults>>
    BY <1>4 DEF RefuseBusy, store
  <2>2. MemoryOK'
    BY <1>1, <2>1 DEF MemoryOK
  <2> QED BY <1>2, <1>3, <2>1, <2>2, PlaceStays
<1>5. CASE RefuseName(m)
  <2>1. /\ Delivered(m) /\ ReplyERR(m) /\ lastBlock' = 0 /\ fileIndex' = NoFile
        /\ UNCHANGED <<ioOffset, bytesLeft, lastSend, ioPtr, recent, ioBuf,
                       flash, size, table, faults>>
    BY <1>5 DEF RefuseName, store
  <2>2. MemoryOK'
    BY <1>1, <2>1 DEF MemoryOK
  <2> QED BY <1>2, <1>3, <2>1, <2>2, PlaceStays
<1>6. CASE BeginUpload(m)
  <2>1. /\ Delivered(m) /\ m.type = "WRQ" /\ client[m.t].file # NoFile
        /\ lastBlock' = 0 /\ fileIndex' = client[m.t].file /\ ioOffset' = 0
        /\ UNCHANGED <<bytesLeft, lastSend, ioPtr, recent, ioBuf, flash, size, table, faults>>
    BY <1>6 DEF BeginUpload, store
  <2>2. Put(m.t) /\ m.t \in Transfer
    BY <2>1, Delivery, RequestUp DEF Request
  <2>3. client[m.t].file \in File
    BY <2>1, <2>2, ClientFields DEF NetInv, Put
  <2>4. MemoryOK'
    BY <1>1, <2>1, <2>3 DEF MemoryOK
  <2> QED BY <2>1, <2>2, <2>4, NoReading
<1>7. CASE BeginDownload(m)
  <2> DEFINE f == client[m.t].file
  <2>1. /\ f \in File /\ fileIndex' = f /\ ioOffset' = 0 /\ lastBlock' = 1
        /\ bytesLeft' \in 0 .. MaxSize
        /\ ioPtr' = (IF f \in TableFile THEN "ioBuf" ELSE f)
        /\ ioBuf' \in [Range0(MaxSize) -> Unit]
        /\ (IF f \in TableFile THEN ioBuf' ELSE flash[f]) \in [Range0(MaxSize) -> Unit]
        /\ SendBlock(m, 1, 0, bytesLeft', IF f \in TableFile THEN ioBuf' ELSE flash[f])
        /\ UNCHANGED <<recent, flash, size, table>>
    BY <1>7, Beginning
  <2>2. PICK left \in Nat, cells \in [Range0(MaxSize) -> Unit] :
          left = bytesLeft' /\ SendBlock(m, 1, 0, left, cells)
    <3>1. bytesLeft' \in Nat
      BY <2>1, Constants
    <3> QED BY <2>1, <3>1
  <2>3. 0 \in Int
    OBVIOUS
  <2>4. lastSend' \in 0 .. Full /\ lastSend' <= left /\ (UNCHANGED faults \/ Fault("alloc"))
    BY <2>2, <2>3, Sends
  <2>5. faults' \in Seq(FaultKinds) /\ Len(faults') <= MaxFaults
    BY <2>4, FaultTypes DEF NetInv
  <2>6. ioPtr' \in FlashFile \cup {"ioBuf"}
    BY <2>1 DEF File
  <2>7. MemoryOK'
    BY <1>1, <2>1, <2>4, <2>5, <2>6 DEF MemoryOK
  <2>8. PlaceOK'
    <3>1. lastSend' <= bytesLeft'
      BY <2>2, <2>4
    <3>2. ioOffset' + bytesLeft' <= MaxSize
      <4>1. ioOffset' = 0 /\ bytesLeft' \in 0 .. MaxSize
        BY <2>1
      <4>2. \A a \in 0 .. MaxSize : \A z : z = 0 => z + a <= MaxSize
        BY Constants
      <4> QED BY <4>1, <4>2, Zenon
    <3> QED BY <3>1, <3>2 DEF PlaceOK
  <2> QED BY <2>7, <2>8
<1>8. CASE AckNext(m)
  <2>1. /\ Delivered(m) /\ m.type = "ACK" /\ fileIndex # NoFile
        /\ lastBlock' = NextBlock
        /\ ioOffset' = ioOffset + lastSend /\ bytesLeft' = bytesLeft - lastSend
        /\ ioOffset' \in 0 .. MaxSize /\ bytesLeft' \in 0 .. MaxSize
        /\ recent' = TRUE
        /\ \/ /\ lastSend = Full /\ fileIndex' = fileIndex
              /\ SendBlock(m, NextBlock, ioOffset', bytesLeft', Source)
           \/ /\ lastSend # Full /\ fileIndex' = NoFile
              /\ UNCHANGED <<lastSend, net, faults>>
        /\ UNCHANGED <<ioPtr, ioBuf, flash, size, table>>
    BY <1>8, Advancing
  <2>2. /\ lastSend <= bytesLeft /\ ioOffset + bytesLeft <= MaxSize
        /\ lastSend \in 0 .. Full /\ bytesLeft \in 0 .. MaxSize /\ ioOffset \in 0 .. MaxSize
        /\ NextBlock \in 0 .. Modulus - 1 /\ Source \in [Range0(MaxSize) -> Unit]
    BY <2>1, Continuing
  <2>3. CASE fileIndex' = NoFile /\ UNCHANGED <<lastSend, net, faults>>
    <3>1. MemoryOK'
      BY <1>1, <2>1, <2>2, <2>3 DEF MemoryOK
    <3> QED BY <2>3, <3>1 DEF PlaceOK, Reading
  <2>4. CASE fileIndex' = fileIndex /\ SendBlock(m, NextBlock, ioOffset', bytesLeft', Source)
    <3>1. PICK left \in Nat, offset \in Int :
            left = bytesLeft' /\ offset = ioOffset' /\ SendBlock(m, NextBlock, offset, left, Source)
      <4>1. bytesLeft' \in Nat /\ ioOffset' \in Int
        BY <2>1, Constants
      <4> QED BY <2>4, <4>1
    <3>2. lastSend' \in 0 .. Full /\ lastSend' <= left /\ (UNCHANGED faults \/ Fault("alloc"))
      BY <2>2, <3>1, Sends
    <3>3. faults' \in Seq(FaultKinds) /\ Len(faults') <= MaxFaults
      BY <3>2, FaultTypes DEF NetInv
    <3>4. MemoryOK'
      BY <1>1, <2>1, <2>2, <2>4, <3>2, <3>3 DEF MemoryOK
    <3>5. ioOffset' + bytesLeft' = ioOffset + bytesLeft
      BY <2>1, <2>2, Constants
    <3>6. PlaceOK'
      BY <2>2, <3>1, <3>2, <3>5 DEF PlaceOK
    <3> QED BY <3>4, <3>6
  <2> QED BY <2>1, <2>3, <2>4
<1>9. CASE AckOther(m)
  <2>1. /\ Delivered(m) /\ m.type = "ACK" /\ fileIndex # NoFile /\ recent' = TRUE
        /\ SendBlock(m, lastBlock, ioOffset, bytesLeft, Source)
        /\ UNCHANGED <<fileIndex, ioOffset, bytesLeft, lastBlock, ioPtr, ioBuf, flash, size, table>>
    BY <1>9 DEF AckOther, store
  <2>2. /\ ioOffset + bytesLeft <= MaxSize
        /\ bytesLeft \in Nat /\ ioOffset \in Int /\ Source \in [Range0(MaxSize) -> Unit]
    BY <2>1, Continuing, Constants
  <2>3. lastSend' \in 0 .. Full /\ lastSend' <= bytesLeft /\ (UNCHANGED faults \/ Fault("alloc"))
    BY <2>1, <2>2, Sends
  <2>4. faults' \in Seq(FaultKinds) /\ Len(faults') <= MaxFaults
    BY <2>3, FaultTypes DEF NetInv
  <2>5. MemoryOK'
    BY <1>1, <2>1, <2>3, <2>4 DEF MemoryOK
  <2>6. PlaceOK'
    BY <2>1, <2>2, <2>3 DEF PlaceOK
  <2> QED BY <2>5, <2>6
<1> QED BY <1>4, <1>5, <1>6, <1>7, <1>8, <1>9
\* The block that arrives: its units, and where the transfer goes on.
LEMMA ArrivingBlock ==
  ASSUME NetInv, Mode, NEW m \in net, DataArrives(m)
  PROVE  /\ BlockUnits(m.t, m.k) \in Seq(Unit) /\ Len(BlockUnits(m.t, m.k)) \in 0 .. Full
         /\ Fits(BlockUnits(m.t, m.k)) =>
              ioOffset + Len(BlockUnits(m.t, m.k)) \in 0 .. MaxSize
         /\ m.block \in 0 .. Modulus - 1
         /\ ioOffset \in 0 .. MaxSize
<1>1. /\ m.t \in Transfer /\ client[m.t].len \in Nat /\ m.block = m.k % Modulus
      /\ m.k \in Nat /\ 1 <= m.k /\ m.k <= LastBlockOf(m.t)
  BY Arriving
<1>2. PICK n \in 0 .. Full : BlockUnits(m.t, m.k) \in Seq(Unit) /\ Len(BlockUnits(m.t, m.k)) = n
  BY <1>1, Block
<1>3. ioOffset \in 0 .. MaxSize
  BY DEF NetInv, TypeOK
<1>4. Fits(BlockUnits(m.t, m.k)) => ioOffset + n \in 0 .. MaxSize
  BY <1>2, <1>3, Constants DEF Fits
<1> QED BY <1>1, <1>2, <1>3, <1>4, BlockNumber

\* Data keeps the types.
LEMMA DataTypes ==
  ASSUME NetInv, Mode, NEW m \in net,
         \/ AcknowledgeAgain(m) \/ IgnoreData(m) \/ RefuseTooBig(m)
         \/ StoreBlock(m) \/ StoreBlockFails(m) \/ CollectBlock(m) \/ FinishTable(m)
  PROVE  MemoryOK' /\ PlaceOK'
<1> DEFINE units == BlockUnits(m.t, m.k)
<1>1. DataArrives(m)
  BY DEF AcknowledgeAgain, IgnoreData, RefuseTooBig, StoreBlock, StoreBlockFails,
         CollectBlock, FinishTable, BlockArrives
<1>2. /\ units \in Seq(Unit) /\ Len(units) \in 0 .. Full
      /\ Fits(units) => ioOffset + Len(units) \in 0 .. MaxSize
      /\ m.block \in 0 .. Modulus - 1 /\ ioOffset \in Nat
  BY <1>1, ArrivingBlock, Constants
<1>3. PlaceOK'
  BY <1>1, Arriving, NoReading
<1>4. MemoryOK /\ NoFile \in File \cup {NoFile} /\ Garbled \in Unit /\ TypeOK
  BY TypesOfAll DEF NetInv, Unit
<1> HIDE DEF units
<1>5. CASE AcknowledgeAgain(m)
  <2>1. /\ recent' = TRUE
        /\ UNCHANGED <<fileIndex, ioOffset, bytesLeft, lastBlock, lastSend, ioPtr, ioBuf,
                       flash, size, table, faults>>
    BY <1>5 DEF AcknowledgeAgain, store
  <2>2. MemoryOK'
    BY <1>4, <2>1 DEF MemoryOK
  <2> QED BY <1>3, <2>2
<1>6. CASE IgnoreData(m)
  <2>1. /\ recent' = TRUE
        /\ UNCHANGED <<fileIndex, ioOffset, bytesLeft, lastBlock, lastSend, ioPtr, ioBuf,
                       flash, size, table, faults>>
    BY <1>6 DEF IgnoreData, store
  <2>2. MemoryOK'
    BY <1>4, <2>1 DEF MemoryOK
  <2> QED BY <1>3, <2>2
<1>7. CASE RefuseTooBig(m)
  <2>1. /\ lastBlock' = m.block
        /\ UNCHANGED <<fileIndex, ioOffset, bytesLeft, lastSend, ioPtr, recent, ioBuf,
                       flash, size, table, faults>>
    BY <1>7 DEF RefuseTooBig, BlockArrives, store
  <2>2. MemoryOK'
    BY <1>2, <1>4, <2>1 DEF MemoryOK
  <2> QED BY <1>3, <2>2
<1>8. CASE StoreBlock(m)
  <2>1. /\ lastBlock' = m.block /\ fileIndex \in FlashFile /\ Fits(units) /\ recent' = TRUE
        /\ flash' = (IF units = <<>> THEN flash
                     ELSE [flash EXCEPT ![fileIndex] = Written(flash[fileIndex], ioOffset, units)])
        /\ ioOffset' = ioOffset + Len(units)
        /\ \/ UNCHANGED <<fileIndex, size, ioBuf, faults>>
           \/ /\ fileIndex' = NoFile
              /\ ioBuf' = [ioBuf EXCEPT ![0] = Garbled]
              /\ \/ size' = [size EXCEPT ![fileIndex] = ioOffset'] /\ UNCHANGED faults
                 \/ size' = [f \in FlashFile |-> MaxSize] /\ Fault("size")
        /\ UNCHANGED <<bytesLeft, lastSend, ioPtr, table>>
    BY <1>8 DEF StoreBlock, BlockArrives, units
  <2>2. flash' \in [FlashFile -> [Range0(MaxSize) -> Unit]]
    <3>1. flash \in [FlashFile -> [Range0(MaxSize) -> Unit]]
      BY <1>4 DEF MemoryOK
    <3>2. flash[fileIndex] \in [Range0(MaxSize) -> Unit]
      BY <2>1, <3>1
    <3>3. Len(units) \in Nat
      BY <1>2
    <3>4. Written(flash[fileIndex], ioOffset, units) \in [Range0(MaxSize) -> Unit]
      BY <1>2, <3>2, <3>3, CellTypes
    <3> QED BY <2>1, <3>1, <3>4
  <2>3. ioOffset' \in 0 .. MaxSize
    BY <1>2, <2>1
  <2>4. size' \in [FlashFile -> 0 .. MaxSize]
    <3>1. size \in [FlashFile -> 0 .. MaxSize] /\ MaxSize \in 0 .. MaxSize
      BY <1>4, Constants DEF MemoryOK
    <3> QED BY <2>1, <2>3, <3>1
  <2>5. ioBuf' \in [Range0(MaxSize) -> Unit]
    BY <1>4, <2>1 DEF MemoryOK
  <2>6. faults' \in Seq(FaultKinds) /\ Len(faults') <= MaxFaults
    BY <1>4, <2>1, FaultTypes
  <2>7. fileIndex' \in File \cup {NoFile}
    BY <1>4, <2>1 DEF MemoryOK
  <2>8. MemoryOK'
    BY <1>2, <1>4, <2>1, <2>2, <2>3, <2>4, <2>5, <2>6, <2>7 DEF MemoryOK
  <2> QED BY <1>3, <2>8
<1>9. CASE StoreBlockFails(m)
  <2>1. /\ lastBlock' = m.block /\ fileIndex \in FlashFile /\ Fault("write") /\ fileIndex' = NoFile
        /\ flash' \in {flash, [flash EXCEPT ![fileIndex] =
                                 ErasedFor(flash[fileIndex], ioOffset, Len(units))]}
        /\ UNCHANGED <<ioOffset, bytesLeft, lastSend, ioPtr, recent, ioBuf, size, table>>
    BY <1>9 DEF StoreBlockFails, BlockArrives, units
  <2>2. flash' \in [FlashFile -> [Range0(MaxSize) -> Unit]]
    <3>1. flash \in [FlashFile -> [Range0(MaxSize) -> Unit]]
      BY <1>4 DEF MemoryOK
    <3>2. flash[fileIndex] \in [Range0(MaxSize) -> Unit] /\ Len(units) \in Nat
      BY <1>2, <2>1, <3>1
    <3>3. ErasedFor(flash[fileIndex], ioOffset, Len(units)) \in [Range0(MaxSize) -> Unit]
      BY <1>2, <3>2, CellTypes
    <3> QED BY <2>1, <3>1, <3>3
  <2>3. faults' \in Seq(FaultKinds) /\ Len(faults') <= MaxFaults
    BY <1>4, <2>1, FaultTypes
  <2>4. MemoryOK'
    BY <1>2, <1>4, <2>1, <2>2, <2>3 DEF MemoryOK
  <2> QED BY <1>3, <2>4
<1>10. CASE CollectBlock(m)
  <2>1. /\ lastBlock' = m.block /\ Fits(units) /\ Len(units) = Full /\ recent' = TRUE
        /\ ioBuf' = Copied(ioBuf, ioOffset, units) /\ ioOffset' = ioOffset + Full
        /\ UNCHANGED <<fileIndex, bytesLeft, lastSend, ioPtr, flash, size, table, faults>>
    BY <1>10 DEF CollectBlock, BlockArrives, units, store
  <2>2. ioBuf' \in [Range0(MaxSize) -> Unit]
    <3>1. ioBuf \in [Range0(MaxSize) -> Unit] /\ Len(units) \in Nat
      BY <1>2, <1>4 DEF MemoryOK
    <3> QED BY <1>2, <2>1, <3>1, CellTypes
  <2>3. ioOffset' \in 0 .. MaxSize
    BY <1>2, <2>1
  <2>4. MemoryOK'
    BY <1>2, <1>4, <2>1, <2>2, <2>3 DEF MemoryOK
  <2> QED BY <1>3, <2>4
<1>11. CASE FinishTable(m)
  <2> DEFINE buf  == Copied(ioBuf, ioOffset, units)
             n    == ioOffset + Len(units)
             text == TextOf(buf, n)
  <2>1. /\ lastBlock' = m.block /\ Fits(units) /\ fileIndex \in TableFile
        /\ ioOffset' = n
        /\ ioBuf' = [buf EXCEPT ![0] = Garbled]
        /\ \/ /\ table' = [table EXCEPT ![fileIndex] = text]
              /\ fileIndex' = NoFile /\ recent' = TRUE /\ UNCHANGED faults
           \/ /\ UNCHANGED faults \/ Fault("write")
              /\ UNCHANGED <<fileIndex, recent, table>>
        /\ UNCHANGED <<bytesLeft, lastSend, ioPtr, flash, size>>
    BY <1>11 DEF FinishTable, BlockArrives, units
  <2>2. buf \in [Range0(MaxSize) -> Unit]
    <3>1. ioBuf \in [Range0(MaxSize) -> Unit] /\ Len(units) \in Nat
      BY <1>2, <1>4 DEF MemoryOK
    <3> QED BY <1>2, <3>1, CellTypes
  <2>3. n \in 0 .. MaxSize
    BY <1>2, <2>1
  <2> HIDE DEF buf, n
  <2>4. text \in Seq(Unit) /\ Len(text) = n
    <3>1. \A i \in 1 .. n : i - 1 \in Range0(MaxSize)
      BY <2>3, Constants DEF Range0
    <3>2. \A i \in 1 .. n : buf[i - 1] \in Unit
      BY <2>2, <3>1
    <3>3. text = [i \in 1 .. n |-> buf[i - 1]] /\ n \in Nat
      BY <2>3, Constants DEF TextOf
    <3> QED BY <3>2, <3>3
  <2> HIDE DEF text
  <2>5. ioBuf' \in [Range0(MaxSize) -> Unit]
    BY <1>4, <2>1, <2>2
  <2>6. table' \in [TableFile -> Seq(Unit)] /\ \A f \in TableFile : Len(table'[f]) <= MaxSize
    <3>1. table \in [TableFile -> Seq(Unit)] /\ \A f \in TableFile : Len(table[f]) <= MaxSize
      BY <1>4 DEF MemoryOK
    <3>2. Len(text) <= MaxSize
      BY <2>3, <2>4, Constants
    <3> QED BY <2>1, <2>4, <3>1, <3>2
  <2>7. faults' \in Seq(FaultKinds) /\ Len(faults') <= MaxFaults
    BY <1>4, <2>1, FaultTypes
  <2>8. fileIndex' \in File \cup {NoFile} /\ recent' \in BOOLEAN
    BY <1>4, <2>1 DEF MemoryOK
  <2>9. MemoryOK'
    BY <1>2, <1>4, <2>1, <2>3, <2>5, <2>6, <2>7, <2>8 DEF MemoryOK
  <2> QED BY <1>3, <2>9
<1> QED BY <1>5, <1>6, <1>7, <1>8, <1>9, <1>10, <1>11

\* What the server does with a packet keeps the invariant.
LEMMA HandledKeeps ==
  ASSUME NetInv, Mode, NEW m \in net, HandlePacket(m)
  PROVE  NetInv'
<1>1. Delivered(m) /\ Reply(m)
  BY Replies
<1>2. NetOK' /\ TurnsOK' /\ HeardOK' /\ OpsOK'
  BY <1>1, NetKept
<1>3. MemoryOK' /\ PlaceOK'
  BY ReadTypes, DataTypes DEF HandlePacket
<1>4. client' \in [Transfer -> {Idle} \cup ClientRecord] /\ latest' \in [Transfer -> Nat \cup {-1}]
  BY <1>1, Delivery DEF NetInv, TypeOK
<1>5. TypeOK'
  BY <1>3, <1>4 DEF TypeOK, MemoryOK
<1> QED BY <1>2, <1>3, <1>5 DEF NetInv
(***************************************************************************)
(* Clients, time and power                                                 *)
(***************************************************************************)
\* What a client that goes on leaves as it is.
GoesOn(t) ==
  client[t] # Idle =>
    /\ client'[t] # Idle
    /\ client'[t].op = client[t].op /\ client'[t].file = client[t].file
    /\ client'[t].len = client[t].len /\ client'[t].valid = client[t].valid
    /\ client'[t].k >= client[t].k

\* One client is at block k, has got g, and is in a state.
Moves(t, state, k, g) ==
  /\ \A u \in Transfer : u # t => client'[u] = client[u]
  /\ client'[t] \in ClientRecord
  /\ client'[t].op = client[t].op /\ client'[t].file = client[t].file
  /\ client'[t].len = client[t].len /\ client'[t].valid = client[t].valid
  /\ client'[t].k = k /\ client'[t].got = g /\ client'[t].state = state
  /\ client' \in [Transfer -> {Idle} \cup ClientRecord]

\* Records of clients are not idle.
LEMMA RecordNotIdle == \A c \in ClientRecord : c # Idle
BY DEF ClientRecord, Idle

\* A change of the state of a client.
LEMMA EndingMoves ==
  ASSUME NetInv, NEW t \in Transfer, client[t] # Idle, NEW state \in {"done", "failed"},
         Ending(t, state)
  PROVE  /\ Moves(t, state, client[t].k, client[t].got)
         /\ UNCHANGED <<server, store, net, latest, faults>>
<1>1. PICK c \in ClientRecord : c = client[t]
  BY ClientFields DEF NetInv
<1>2. PICK d : d = [c EXCEPT !.state = state]
  OBVIOUS
<1>3. d \in ClientRecord /\ d.state = state /\ d.op = c.op /\ d.file = c.file /\ d.len = c.len
      /\ d.valid = c.valid /\ d.k = c.k /\ d.got = c.got
  BY <1>2 DEF ClientRecord
<1>4. client' = [client EXCEPT ![t] = d] /\ client \in [Transfer -> {Idle} \cup ClientRecord]
  BY <1>1, <1>2 DEF Ending, NetInv, TypeOK
<1>5. Moves(t, state, client[t].k, client[t].got)
  BY <1>1, <1>3, <1>4 DEF Moves
<1> QED BY <1>5 DEF Ending

\* A client that moves goes on, and so do the others.
LEMMA MovesOn ==
  ASSUME NetInv, NEW t \in Transfer, client[t] # Idle, NEW state, NEW k \in Nat, NEW g,
         k >= client[t].k, Moves(t, state, k, g)
  PROVE  /\ \A u \in Transfer : GoesOn(u)
         /\ \A u \in Transfer : client'[u] = Idle <=> client[u] = Idle
         /\ client'[t] # Idle /\ client[t].k \in Nat
<1>1. client'[t] # Idle
  BY RecordNotIdle DEF Moves
<1>2. \A u \in Transfer : client[u] # Idle => client[u].k \in Nat
  BY ClientFields DEF NetInv
<1> QED BY <1>1, <1>2 DEF Moves, GoesOn

\* Packets stay as they should be.
LEMMA PacketsStayForClients ==
  ASSUME NetInv, \A u \in Transfer : GoesOn(u), latest' = latest,
         client' \in [Transfer -> {Idle} \cup ClientRecord],
         NEW p \in net
  PROVE  (UpOK(p) \/ DownOK(p))'
<1>1. UpOK(p) \/ DownOK(p)
  BY DEF NetInv, NetOK
<1>2. p.t \in Transfer /\ client[p.t] # Idle
  BY <1>1 DEF UpOK, DownOK
<1>3. /\ client'[p.t] # Idle
      /\ client'[p.t].op = client[p.t].op /\ client'[p.t].file = client[p.t].file
      /\ client'[p.t].len = client[p.t].len
      /\ client'[p.t].k >= client[p.t].k
  BY <1>2 DEF GoesOn
<1>4. client[p.t].k \in Nat /\ client'[p.t].k \in Nat
  <2>1. client'[p.t] \in ClientRecord
    BY <1>2, <1>3
  <2> QED BY <1>2, <2>1, ClientFields DEF NetInv, ClientRecord
<1>5. CASE UpOK(p)
  <2>1. (FromPut(p) \/ FromGet(p))'
    BY <1>3, <1>5 DEF UpOK, FromPut, FromGet, LastBlockOf
  <2>2. p.k \in Nat /\ p.k <= client'[p.t].k
    BY <1>3, <1>4, <1>5 DEF UpOK
  <2> QED BY <1>3, <1>5, <2>1, <2>2 DEF UpOK
<1>6. CASE DownOK(p)
  BY <1>3, <1>6 DEF DownOK
<1> QED BY <1>1, <1>5, <1>6
\* A client that moves does not change what is read.
LEMMA ClientsPlace ==
  ASSUME NetInv, \A u \in Transfer : GoesOn(u),
         UNCHANGED <<server, store, latest, faults>>,
         \A u \in Transfer : Served(u)' => Served(u)
  PROVE  PlaceOK'
<1>1. Reading' => Reading
  <2>1. ASSUME NEW u \in Transfer, Current(u)', Get(u)', Served(u)'
        PROVE  Reading \/ fileIndex' = NoFile
    <3>1. Served(u) /\ Current(u)
      BY <2>1 DEF Current
    <3>2. PICK p \in net : Answers(p, "DATA", u)
      BY <3>1 DEF Served
    <3>3. client[u] # Idle
      BY <3>2 DEF NetInv, NetOK, UpOK, DownOK, Answers
    <3>4. Get(u)
      BY <2>1, <3>3 DEF GoesOn, Get
    <3> QED BY <3>1, <3>4 DEF Reading, server
  <2> QED BY <2>1 DEF Reading, server
<1> QED BY <1>1 DEF NetInv, PlaceOK, server

\* The types, if the server does nothing.
LEMMA ClientsTypes ==
  ASSUME TypeOK, client' \in [Transfer -> {Idle} \cup ClientRecord],
         UNCHANGED <<server, store, latest, faults>>
  PROVE  TypeOK'
<1>1. UNCHANGED <<fileIndex, ioOffset, bytesLeft, lastBlock, lastSend, ioPtr, recent, ioBuf,
                  flash, size, table, latest, faults>>
  BY DEF server, store
<1> QED BY <1>1 DEF TypeOK

\* A client that goes on, ends well or badly, and sends its next packet or none.
LEMMA MoveKeeps ==
  ASSUME NetInv, NEW t \in Transfer, Active(t), NEW state, NEW g, NEW k \in Nat,
         Moves(t, state, k, g), k >= client[t].k,
         UNCHANGED <<server, store, latest, faults>>,
         NEW type,
         net' = net \/ /\ net' = net \cup {FromClient(t, type, k)}
                       /\ k > 0 /\ type = IF Put(t) THEN "DATA" ELSE "ACK",
         Put(t) => /\ k <= LastBlockOf(t)
                   /\ k > 0 => Acked(t, k - 1)
                   /\ state = "done" => Acked(t, LastBlockOf(t)),
         Get(t) => (k > 0 => Served(t))
  PROVE  NetInv'
<1>1. client[t] # Idle /\ client' \in [Transfer -> {Idle} \cup ClientRecord]
  BY DEF Active, Moves
<1>2. /\ \A u \in Transfer : GoesOn(u)
      /\ \A u \in Transfer : client'[u] = Idle <=> client[u] = Idle
      /\ client'[t] # Idle /\ client[t].k \in Nat
  BY <1>1, MovesOn
<1>3. net \subseteq net' /\ latest' = latest
  OBVIOUS
<1>4. \A u \in Transfer : Served(u)' => Served(u)
  BY DEF Served, Answers, FromClient
<1>5. NetOK'
  <2>1. \A p \in net : (UpOK(p) \/ DownOK(p))'
    BY <1>1, <1>2, <1>3, PacketsStayForClients
  <2>2. ASSUME NEW q, q = FromClient(t, type, k), k > 0, type = IF Put(t) THEN "DATA" ELSE "ACK"
        PROVE  UpOK(q)'
    <3>1. q.dir = "up" /\ q.t = t /\ q.type = type /\ q.k = k /\ q.block = k % Modulus
      BY <2>2 DEF FromClient
    <3>2. client'[t].op = client[t].op /\ client'[t].k = k /\ client[t].op \in {"get", "put"}
      BY <1>1, ClientFields DEF Moves, NetInv
    <3>3. Put(t) => LastBlockOf(t)' = LastBlockOf(t)
      BY DEF LastBlockOf, Moves
    <3>4. CASE Put(t)
      <4>1. q.k <= LastBlockOf(q.t)'
        BY <3>1, <3>3, <3>4
      <4>2. FromPut(q)'
        BY <2>2, <3>1, <3>2, <3>4, <4>1 DEF FromPut, Put
      <4> QED BY <1>2, <3>1, <3>2, <4>2 DEF UpOK
    <3>5. CASE ~Put(t)
      <4>1. FromGet(q)'
        BY <1>1, <2>2, <3>1, <3>2, <3>5 DEF FromGet, Put
      <4> QED BY <1>2, <3>1, <3>2, <4>1 DEF UpOK
    <3> QED BY <3>4, <3>5
  <2>3. \A q \in net' : q \in net \/ UpOK(q)'
    BY <2>2
  <2> QED BY <2>1, <2>3 DEF NetOK
<1>6. TurnsOK'
  <2>1. \A u \in Transfer : u # t => client'[u] = client[u]
    BY DEF Moves
  <2>2. \A u \in Transfer : client[u] # Idle => ~(t < u)
    BY DEF NetInv, TurnsOK
  <2>3. latest[t] <= client'[t].k
    <3>1. latest[t] <= client[t].k /\ latest[t] \in Int
      BY <1>1 DEF NetInv, TurnsOK, TypeOK
    <3> QED BY <1>2, <3>1 DEF Moves
  <2>4. ASSUME NEW u \in Transfer, NEW v \in Transfer, client'[u] # Idle, v < u
        PROVE  client'[v] # Idle /\ ~Active(v)'
    <3>1. client[u] # Idle
      BY <1>2, <2>4
    <3>2. v # t
      BY <2>2, <2>4, <3>1
    <3> QED BY <2>1, <2>4, <3>1, <3>2 DEF NetInv, TurnsOK, Active
  <2> QED BY <1>2, <1>3, <2>1, <2>3, <2>4 DEF NetInv, TurnsOK
<1>7. HeardOK'
  <2>1. SUFFICES ASSUME NEW u \in Transfer
                 PROVE  /\ Put(u)' =>
                             /\ client'[u].k <= LastBlockOf(u)'
                             /\ client'[u].k > 0 => Acked(u, client[u].k - 1)'
                             /\ client'[u].state = "done" => Acked(u, LastBlockOf(u))'
                        /\ Get(u)' => (client'[u].k > 0 => Served(u)')
    BY DEF HeardOK
  <2>2. (Put(u)' <=> Put(u)) /\ (Get(u)' <=> Get(u))
    BY <1>2 DEF Put, Get, GoesOn
  <2>3. PICK b : b = LastBlockOf(u) /\ (client[u] # Idle => b = LastBlockOf(u)')
    BY <1>2 DEF LastBlockOf, GoesOn
  <2>4. PICK j : j = client'[u].k
    OBVIOUS
  <2>5. PICK i : i = j - 1
    OBVIOUS
  <2>6. /\ Put(u) => /\ j <= b
                     /\ j > 0 => Acked(u, i)
                     /\ client'[u].state = "done" => Acked(u, b)
        /\ Get(u) => (j > 0 => Served(u))
    <3>1. CASE u = t
      BY <2>3, <2>4, <2>5, <3>1 DEF Moves
    <3>2. CASE u # t
      <4>1. client'[u] = client[u]
        BY <3>2 DEF Moves
      <4> QED BY <2>3, <2>4, <2>5, <4>1 DEF NetInv, HeardOK
    <3> QED BY <3>1, <3>2
  <2>7. (Acked(u, i) => Acked(u, i)') /\ (Acked(u, b) => Acked(u, b)') /\ (Served(u) => Served(u)')
    BY <1>3, SentStays
  <2>8. (Acked(u, i)' => Acked(u, client[u].k - 1)')
    BY <2>4, <2>5
  <2>9. Put(u) => (Acked(u, b)' => Acked(u, LastBlockOf(u))')
    BY <2>3 DEF Put
  <2>10. Put(u) => j <= LastBlockOf(u)'
    BY <2>3, <2>6 DEF Put
  <2> QED BY <2>2, <2>4, <2>6, <2>7, <2>8, <2>9, <2>10
<1>8. OpsOK'
  BY <1>2 DEF NetInv, OpsOK, GoesOn
<1>9. TypeOK' /\ PlaceOK'
  BY <1>1, <1>2, <1>4, ClientsTypes, ClientsPlace DEF NetInv
<1> QED BY <1>5, <1>6, <1>7, <1>8, <1>9 DEF NetInv
\* An acknowledgement that an uploading client takes is of the block it sent last.
LEMMA AckTaken ==
  ASSUME NetInv, Mode, NEW m \in net, ClientAcked(m)
  PROVE  /\ m.t \in Transfer /\ client[m.t] # Idle /\ Active(m.t) /\ Put(m.t) /\ ~Get(m.t)
         /\ InOrder /\ client[m.t].k \in Nat
         /\ m.k = client[m.t].k /\ m.k = latest[m.t] /\ Answers(m, "ACK", m.t)
         /\ Acked(m.t, client[m.t].k)
<1> DEFINE t == m.t
           k == client[m.t].k
<1>1. /\ m.dir = "down" /\ m.type = "ACK" /\ client[m.t].state = "active"
      /\ m.block = k % Modulus /\ (InOrder => m.k >= k - 1)
  BY DEF ClientAcked, Reaches
<1>2. DownOK(m)
  BY <1>1 DEF NetInv, NetOK, UpOK
<1>3. /\ m.t \in Transfer /\ client[m.t] # Idle /\ client[m.t].op = "put"
      /\ m.k \in Nat /\ m.k <= latest[m.t] /\ m.block = m.k % Modulus
  BY <1>1, <1>2 DEF DownOK
<1>4. InOrder
  BY <1>3 DEF Mode, NetInv, OpsOK
<1>5. latest[t] <= k /\ k \in Nat /\ latest[t] \in Int
  BY <1>3, ClientFields DEF NetInv, TurnsOK, TypeOK
<1>6. m.k # k - 1
  BY <1>1, <1>3, <1>5, BlockNumber
<1>7. m.k = k /\ m.k = latest[t]
  BY <1>1, <1>3, <1>4, <1>5, <1>6
<1> QED BY <1>1, <1>3, <1>4, <1>5, <1>7 DEF Active, Put, Get, Acked, Answers

\* An acknowledged client sends its next block, or is done.
LEMMA AckedKeeps ==
  ASSUME NetInv, Mode, NEW m \in net, ClientAcked(m)
  PROVE  NetInv'
<1> DEFINE t == m.t
<1>1. PICK k \in Nat : k = client[m.t].k
  BY AckTaken
<1>2. /\ t \in Transfer /\ client[t] # Idle /\ Active(t) /\ Put(t) /\ ~Get(t) /\ Acked(t, k)
  BY <1>1, AckTaken
<1>3. k <= LastBlockOf(t) /\ LastBlockOf(t) \in Nat
  <2>1. client[t].len \in Nat
    BY <1>2, ClientFields DEF NetInv
  <2> QED BY <1>1, <1>2, <2>1, LastBlock DEF NetInv, HeardOK
<1>4. CASE k = LastBlockOf(t)
  <2>1. Ending(t, "done")
    BY <1>1, <1>4 DEF ClientAcked
  <2>2. Moves(t, "done", k, client[t].got) /\ UNCHANGED <<server, store, net, latest, faults>>
    BY <1>1, <1>2, <2>1, EndingMoves
  <2>3. k > 0 => Acked(t, k - 1)
    BY <1>1, <1>2 DEF NetInv, HeardOK
  <2>4. Acked(t, LastBlockOf(t))
    BY <1>2, <1>4
  <2>5. PICK g : Moves(t, "done", k, g)
    BY <2>2
  <2>6. k >= client[t].k
    BY <1>1
  <2> HIDE DEF t
  <2> QED BY <1>2, <1>3, <2>2, <2>3, <2>4, <2>5, <2>6, MoveKeeps
<1>5. CASE k # LastBlockOf(t)
  <2>1. PICK n \in Nat : n = k + 1
    OBVIOUS
  <2>2. /\ client' = [client EXCEPT ![t].k = n]
        /\ net' = net \cup {FromClient(t, "DATA", n)}
        /\ UNCHANGED <<server, store, latest, faults>>
    BY <1>1, <1>5, <2>1 DEF ClientAcked, Sent
  <2>3. Moves(t, "active", n, client[t].got)
    <3>1. PICK c \in ClientRecord : c = client[t] /\ c.state = "active"
      BY <1>2, ClientFields DEF NetInv, Active
    <3>2. PICK d : d = [c EXCEPT !.k = n]
      OBVIOUS
    <3>3. d \in ClientRecord /\ d.state = "active" /\ d.op = c.op /\ d.file = c.file /\ d.len = c.len
          /\ d.valid = c.valid /\ d.k = n /\ d.got = c.got
      BY <3>1, <3>2 DEF ClientRecord
    <3>4. client' = [client EXCEPT ![t] = d] /\ client \in [Transfer -> {Idle} \cup ClientRecord]
      BY <2>2, <3>1, <3>2 DEF NetInv, TypeOK
    <3> QED BY <1>2, <3>1, <3>3, <3>4 DEF Moves
  <2>4. n >= client[t].k /\ n <= LastBlockOf(t) /\ n > 0
    BY <1>1, <1>3, <1>5, <2>1
  <2>5. Acked(t, n - 1)
    <3>1. k = n - 1
      BY <2>1
    <3> QED BY <1>2, <3>1
  <2>6. PICK g : Moves(t, "active", n, g)
    BY <2>3
  <2> HIDE DEF t
  <2> QED BY <1>2, <2>2, <2>4, <2>5, <2>6, MoveKeeps
<1> QED BY <1>4, <1>5

\* The data that a downloading client takes.
LEMMA DataTaken ==
  ASSUME NetInv, NEW m \in net, ClientData(m)
  PROVE  /\ m.t \in Transfer /\ client[m.t] # Idle /\ Active(m.t) /\ Get(m.t) /\ ~Put(m.t)
         /\ Served(m.t) /\ m.dir = "down" /\ m.type = "DATA"
         /\ m.k \in 0 .. Modulus - 1 /\ m.k = (client[m.t].k + 1) % Modulus
         /\ m.units \in Seq(Unit) /\ client[m.t].k \in Nat
         /\ Moves(m.t, IF Len(m.units) < Full THEN "done" ELSE "active",
                  client[m.t].k + 1, client[m.t].got \o m.units)
         /\ net' = net \cup {FromClient(m.t, "ACK", client[m.t].k + 1)}
         /\ UNCHANGED <<server, store, latest, faults>>
<1> DEFINE t == m.t
           state == IF Len(m.units) < Full THEN "done" ELSE "active"
<1>1. /\ m.dir = "down" /\ m.type = "DATA" /\ client[m.t].state = "active"
      /\ m.block = (client[m.t].k + 1) % Modulus
      /\ net' = net \cup {FromClient(m.t, "ACK", client[m.t].k + 1)}
      /\ UNCHANGED <<server, store, latest, faults>>
  BY DEF ClientData, Reaches, Sent
<1>2. DownOK(m)
  BY <1>1 DEF NetInv, NetOK, UpOK
<1>3. /\ m.t \in Transfer /\ client[m.t] # Idle /\ client[m.t].op = "get"
      /\ m.k \in 0 .. Modulus - 1 /\ m.block = m.k /\ m.units \in Seq(Unit)
  BY <1>1, <1>2 DEF DownOK
<1>4. PICK c \in ClientRecord : c = client[t] /\ c.state = "active" /\ c.k \in Nat /\ c.got \in Seq(Unit)
  BY <1>1, <1>3, ClientFields DEF NetInv
<1>5. PICK n \in Nat, g \in Seq(Unit) : n = c.k + 1 /\ g = c.got \o m.units
  <2>1. \A a, b \in Seq(Unit) : a \o b \in Seq(Unit)
    OBVIOUS
  <2>2. c.got \o m.units \in Seq(Unit)
    BY <1>3, <1>4, <2>1, Zenon
  <2>3. c.k + 1 \in Nat
    BY <1>4
  <2> QED BY <2>2, <2>3, Zenon
<1>6. PICK s \in {"done", "active"} : s = state
  OBVIOUS
<1>7. PICK d : d = [c EXCEPT !.k = n, !.got = g, !.state = s]
  OBVIOUS
<1>8. d \in ClientRecord /\ d.state = s /\ d.op = c.op /\ d.file = c.file /\ d.len = c.len
      /\ d.valid = c.valid /\ d.k = n /\ d.got = g
  BY <1>4, <1>7 DEF ClientRecord
<1>9. client' = [client EXCEPT ![t] = d] /\ client \in [Transfer -> {Idle} \cup ClientRecord]
  <2>1. client' = [client EXCEPT ![m.t].k = client[m.t].k + 1,
                                 ![m.t].got = client[m.t].got \o m.units,
                                 ![m.t].state = IF Len(m.units) < Full THEN "done" ELSE "active"]
    BY DEF ClientData
  <2>2. client' = [client EXCEPT ![t] = d]
    BY <1>3, <1>4, <1>5, <1>6, <1>7, <2>1 DEF NetInv, TypeOK
  <2> QED BY <2>2 DEF NetInv, TypeOK
<1>10. Moves(t, s, n, g)
  BY <1>3, <1>4, <1>8, <1>9 DEF Moves
<1>11. Moves(m.t, IF Len(m.units) < Full THEN "done" ELSE "active",
             client[m.t].k + 1, client[m.t].got \o m.units)
  BY <1>4, <1>5, <1>6, <1>10
<1> QED BY <1>1, <1>3, <1>4, <1>11 DEF Active, Get, Put, Served, Answers

\* A downloading client acknowledges the block it takes.
LEMMA DataKeeps ==
  ASSUME NetInv, NEW m \in net, ClientData(m)
  PROVE  NetInv'
<1>1. PICK t \in Transfer, k \in Nat :
        /\ t = m.t /\ k = client[m.t].k + 1 /\ \E state, g : Moves(t, state, k, g)
        /\ net' = net \cup {FromClient(t, "ACK", k)}
        /\ client[t] # Idle /\ Active(t) /\ Get(t) /\ ~Put(t) /\ Served(t) /\ client[t].k \in Nat
        /\ UNCHANGED <<server, store, latest, faults>>
  BY DataTaken
<1>2. k >= client[t].k /\ k > 0
  BY <1>1
<1>3. PICK state, g : Moves(t, state, k, g)
  BY <1>1
<1> QED BY <1>1, <1>2, <1>3, MoveKeeps
\* A client starts its transfer when those before it have ended.
LEMMA StartKeeps ==
  ASSUME NetInv, NEW t \in Transfer, NEW op, NEW f \in File \cup {NoFile}, NEW len \in Nat,
         NEW valid \in BOOLEAN, Start(t, op, f, len, valid)
  PROVE  NetInv'
<1> DEFINE type == IF op = "get" THEN "RRQ" ELSE "WRQ"
<1>1. PICK d : d = [state |-> "active", op |-> op, file |-> f, len |-> len, valid |-> valid,
                    k |-> 0, got |-> <<>>]
  OBVIOUS
<1>2. /\ op \in Ops /\ client[t] = Idle /\ \A u \in 1 .. t - 1 : Ended(u)
      /\ client' = [client EXCEPT ![t] = d]
      /\ net' = net \cup {FromClient(t, type, 0)}
      /\ UNCHANGED <<server, store, latest, faults>>
  BY <1>1 DEF Start, Sent
<1>3. /\ d.state = "active" /\ d.op = op /\ d.file = f /\ d.len = len /\ d.k = 0
      /\ op \in {"get", "put"}
  BY <1>1, <1>2, Constants
<1>4. d \in ClientRecord /\ d # Idle
  <2>1. d \in ClientRecord
    <3>1. <<>> \in Seq(Unit) /\ "active" \in {"active", "done", "failed"} /\ 0 \in Nat
      OBVIOUS
    <3> QED BY <1>1, <1>3, <3>1 DEF ClientRecord
  <2> QED BY <2>1, RecordNotIdle
<1>5. /\ client' \in [Transfer -> {Idle} \cup ClientRecord]
      /\ client'[t] = d /\ \A u \in Transfer : u # t => client'[u] = client[u]
  BY <1>2, <1>4 DEF NetInv, TypeOK
<1>6. \A u \in Transfer : GoesOn(u)
  <2>1. ASSUME NEW u \in Transfer, client[u] # Idle PROVE client'[u] = client[u] /\ client[u].k \in Nat
    BY <1>2, <1>5, <2>1, ClientFields DEF NetInv
  <2>2. ASSUME NEW u \in Transfer PROVE GoesOn(u)
    <3>1. SUFFICES ASSUME client[u] # Idle
                   PROVE  client'[u] = client[u] /\ client'[u].k >= client[u].k
      BY DEF GoesOn
    <3> QED BY <2>1, <3>1
  <2> QED BY <2>2
<1>7. net \subseteq net' /\ latest' = latest
  BY <1>2
<1>8. \A u \in Transfer : Served(u)' => Served(u)
  BY <1>2 DEF Served, Answers, FromClient
<1>9. NetOK'
  <2>1. \A p \in net : (UpOK(p) \/ DownOK(p))'
    BY <1>5, <1>6, <1>7, PacketsStayForClients
  <2>2. ASSUME NEW q, q = FromClient(t, type, 0)
        PROVE  UpOK(q)'
    <3>1. q.dir = "up" /\ q.t = t /\ q.type = type /\ q.k = 0 /\ q.block = 0 % Modulus
      BY <2>2 DEF FromClient
    <3>2. CASE op = "get"
      BY <1>3, <1>4, <1>5, <3>1, <3>2 DEF UpOK, FromGet
    <3>3. CASE op = "put"
      <4>1. client'[t].len \in Nat
        BY <1>3, <1>5
      <4>2. \A n \in Nat : 0 <= (n \div Full) + 1
        BY Constants
      <4>3. 0 <= LastBlockOf(t)'
        BY <4>1, <4>2 DEF LastBlockOf
      <4> QED BY <1>3, <1>4, <1>5, <3>1, <3>3, <4>3 DEF UpOK, FromPut
    <3> QED BY <1>3, <3>2, <3>3
  <2> QED BY <1>2, <2>1, <2>2 DEF NetOK
<1>10. TurnsOK'
  <2>1. ASSUME NEW u \in Transfer, NEW v \in Transfer, client'[u] # Idle, v < u
        PROVE  client'[v] # Idle /\ ~Active(v)'
    <3>1. CASE u = t
      <4>1. v \in 1 .. t - 1 /\ v # t
        BY <2>1, <3>1 DEF Transfer
      <4> QED BY <1>2, <1>5, <4>1 DEF Ended, Active
    <3>2. CASE u # t
      <4>1. client[v] # Idle /\ ~Active(v)
        BY <1>5, <2>1, <3>2 DEF NetInv, TurnsOK
      <4> QED BY <1>2, <1>5, <4>1 DEF Active
    <3> QED BY <3>1, <3>2
  <2>2. ASSUME NEW u \in Transfer
        PROVE  /\ client'[u] = Idle => latest[u] = -1
               /\ client'[u] # Idle => latest[u] <= client'[u].k
    <3>1. CASE u = t
      <4>1. latest[t] = -1
        BY <1>2 DEF NetInv, TurnsOK
      <4> QED BY <1>3, <1>4, <1>5, <3>1, <4>1
    <3>2. CASE u # t
      BY <1>5, <3>2 DEF NetInv, TurnsOK
    <3> QED BY <3>1, <3>2
  <2> QED BY <1>7, <2>1, <2>2 DEF TurnsOK
<1>11. HeardOK'
  <2>1. SUFFICES ASSUME NEW u \in Transfer
                 PROVE  /\ Put(u)' =>
                             /\ client'[u].k <= LastBlockOf(u)'
                             /\ client'[u].k > 0 => Acked(u, client[u].k - 1)'
                             /\ client'[u].state = "done" => Acked(u, LastBlockOf(u))'
                        /\ Get(u)' => (client'[u].k > 0 => Served(u)')
    BY DEF HeardOK
  <2>2. CASE u = t
    <3>1. \A n \in Nat : 0 <= (n \div Full) + 1
      BY Constants
    <3>2. client'[t].len \in Nat
      BY <1>3, <1>5
    <3>3. 0 <= LastBlockOf(t)'
      BY <3>1, <3>2 DEF LastBlockOf
    <3>4. client'[t].k = 0 /\ client'[t].state # "done"
      BY <1>3, <1>5
    <3> QED BY <2>2, <3>3, <3>4
  <2>3. CASE u # t
    <3>1. client'[u] = client[u]
      BY <1>5, <2>3
    <3>2. (Put(u)' <=> Put(u)) /\ (Get(u)' <=> Get(u))
      BY <3>1 DEF Put, Get
    <3>3. PICK b, i, j : b = LastBlockOf(u) /\ b = LastBlockOf(u)' /\ j = client[u].k /\ i = j - 1
      BY <3>1 DEF LastBlockOf
    <3>4. /\ Put(u) => /\ j <= b
                       /\ j > 0 => Acked(u, i)
                       /\ client[u].state = "done" => Acked(u, b)
          /\ Get(u) => (j > 0 => Served(u))
      BY <3>3 DEF NetInv, HeardOK
    <3>5. (Acked(u, i) => Acked(u, i)') /\ (Acked(u, b) => Acked(u, b)') /\ (Served(u) => Served(u)')
      BY <1>7, SentStays
    <3>6. (Acked(u, i)' => Acked(u, client[u].k - 1)') /\ (Acked(u, b)' => Acked(u, LastBlockOf(u))')
      BY <3>1, <3>3
    <3> QED BY <3>1, <3>2, <3>3, <3>4, <3>5, <3>6
  <2> QED BY <2>2, <2>3
<1>12. OpsOK'
  <2>1. ASSUME NEW u \in Transfer, client'[u] # Idle PROVE client'[u].op \in Ops
    BY <1>2, <1>3, <1>5, <2>1 DEF NetInv, OpsOK
  <2> QED BY <2>1 DEF OpsOK
<1>13. TypeOK' /\ PlaceOK'
  BY <1>2, <1>5, <1>6, <1>8, ClientsTypes, ClientsPlace DEF NetInv
<1> QED BY <1>9, <1>10, <1>11, <1>12, <1>13 DEF NetInv

\* Clients keep the invariant.
LEMMA ClientsKeep ==
  ASSUME NetInv, Mode, Clients PROVE NetInv'
<1>1. ASSUME NEW t \in Transfer, NEW f \in File \cup {NoFile}, Start(t, "get", f, 0, FALSE)
      PROVE  NetInv'
  <2>1. 0 \in Nat /\ FALSE \in BOOLEAN
    OBVIOUS
  <2> QED BY <1>1, <2>1, StartKeeps
<1>2. ASSUME NEW t \in Transfer, NEW f \in File \cup {NoFile}, NEW len \in Lengths,
             NEW valid \in BOOLEAN, Start(t, "put", f, len, valid)
      PROVE  NetInv'
  <2>1. len \in Nat
    BY Constants
  <2> QED BY <1>2, <2>1, StartKeeps
<1>3. ASSUME NEW t \in Transfer, client[t] # Idle, client[t].state = "active", Ending(t, "failed")
      PROVE  NetInv'
  <2>1. Moves(t, "failed", client[t].k, client[t].got) /\ UNCHANGED <<server, store, net, latest, faults>>
    BY <1>3, EndingMoves
  <2>2. PICK k \in Nat : k = client[t].k /\ \E g : Moves(t, "failed", k, g)
    BY <1>3, <2>1, ClientFields DEF NetInv
  <2>3. Active(t) /\ k >= client[t].k /\ net' = net
    BY <1>3, <2>1, <2>2 DEF Active
  <2>4. Put(t) => k <= LastBlockOf(t) /\ (k > 0 => Acked(t, k - 1))
    BY <2>2 DEF NetInv, HeardOK
  <2>5. Get(t) => (k > 0 => Served(t))
    BY <2>2 DEF NetInv, HeardOK
  <2> QED BY <2>1, <2>2, <2>3, <2>4, <2>5, MoveKeeps
<1>4. ASSUME NEW m \in net, ClientRefused(m) PROVE NetInv'
  <2>1. Ending(m.t, "failed") /\ m.dir = "down" /\ client[m.t].state = "active"
    BY <1>4 DEF ClientRefused, Reaches
  <2>2. m.t \in Transfer /\ client[m.t] # Idle
    BY <2>1 DEF NetInv, NetOK, UpOK, DownOK
  <2> QED BY <1>3, <2>1, <2>2
<1> QED BY <1>1, <1>2, <1>3, <1>4, AckedKeeps, DataKeeps DEF Clients, GiveUp

\* Time and power keep the invariant.
LEMMA PausesKeep ==
  ASSUME NetInv, TimePasses \/ PowerFails PROVE NetInv'
<1>1. client' = client /\ net' = net /\ latest' = latest
  BY DEF TimePasses, PowerFails
<1>2. NetOK' /\ TurnsOK' /\ HeardOK' /\ OpsOK'
  <2>1. NetOK'
    BY <1>1 DEF NetInv, NetOK, UpOK, DownOK, FromPut, FromGet, LastBlockOf
  <2>2. TurnsOK' /\ OpsOK'
    BY <1>1 DEF NetInv, TurnsOK, OpsOK, Active
  <2>3. HeardOK'
    BY <1>1 DEF NetInv, HeardOK, Put, Get, Acked, Served, Answers, LastBlockOf
  <2> QED BY <2>1, <2>2, <2>3
<1>3. CASE TimePasses
  <2>1. UNCHANGED <<fileIndex, ioOffset, bytesLeft, lastBlock, lastSend, ioPtr, ioBuf,
                    flash, size, table, client, net, latest, faults>> /\ recent' = FALSE
    BY <1>3 DEF TimePasses, store
  <2>2. TypeOK'
    BY <2>1 DEF NetInv, TypeOK
  <2>3. PlaceOK'
    BY <2>1 DEF NetInv, PlaceOK, Reading, Current, Get, Served, Answers
  <2> QED BY <1>2, <2>2, <2>3 DEF NetInv
<1>4. CASE PowerFails
  <2>1. /\ Fault("power") /\ fileIndex' = NoFile
        /\ ioOffset' = 0 /\ bytesLeft' = 0 /\ lastBlock' = 0 /\ lastSend' = 0
        /\ ioPtr' = "ioBuf" /\ recent' = TRUE
        /\ ioBuf' = [i \in Range0(MaxSize) |-> Garbled]
        /\ UNCHANGED <<flash, size, table, client, net, latest>>
    BY <1>4 DEF PowerFails, store
  <2>2. faults' \in Seq(FaultKinds) /\ Len(faults') <= MaxFaults
    BY <2>1, FaultTypes DEF NetInv
  <2>3. 0 \in 0 .. MaxSize /\ 0 \in 0 .. Modulus - 1 /\ 0 \in 0 .. Full /\ Garbled \in Unit
    BY Constants DEF Unit
  <2>4. TypeOK'
    BY <2>1, <2>2, <2>3 DEF NetInv, TypeOK
  <2>5. PlaceOK'
    BY <2>1 DEF PlaceOK, Reading
  <2> QED BY <1>2, <2>4, <2>5 DEF NetInv
<1> QED BY <1>3, <1>4

\* At first nothing has been sent.
LEMMA InitNet == Init => NetInv
<1> SUFFICES ASSUME Init PROVE NetInv
  OBVIOUS
<1>1. NetOK /\ TurnsOK /\ HeardOK /\ OpsOK /\ PlaceOK
  <2>1. \A t \in Transfer : client[t] = Idle /\ latest[t] = -1
    BY DEF Init
  <2>2. net = {} /\ fileIndex = NoFile
    BY DEF Init
  <2> QED BY <2>1, <2>2 DEF NetOK, TurnsOK, HeardOK, OpsOK, PlaceOK, Reading, Put, Get, Active
<1>2. 0 \in 0 .. MaxSize /\ 0 \in 0 .. Modulus - 1 /\ 0 \in 0 .. Full /\ Garbled \in Unit
  BY Constants DEF Unit
<1>3. flash \in [FlashFile -> [Range0(MaxSize) -> Unit]]
  <2>1. flash = [f \in FlashFile |-> [i \in Range0(MaxSize) |-> <<f, i>>]]
    BY DEF Init
  <2>2. \A f \in FlashFile, i \in Range0(MaxSize) : <<f, i>> \in Unit
    BY Constants DEF Unit, File, Range0
  <2> QED BY <2>1, <2>2
<1>4. PICK n \in Sizes : /\ size = [f \in FlashFile |-> n[f]]
                         /\ table = [f \in TableFile |-> [i \in 1 .. n[f] |-> <<f, i - 1>>]]
  BY DEF Init
<1>5. n \in [File -> 0 .. MaxSize]
  BY FileAssumption
<1>6. size \in [FlashFile -> 0 .. MaxSize]
  BY <1>4, <1>5 DEF File
<1>7. table \in [TableFile -> Seq(Unit)] /\ \A f \in TableFile : Len(table[f]) <= MaxSize
  <2>1. ASSUME NEW f \in TableFile
        PROVE  table[f] \in Seq(Unit) /\ Len(table[f]) <= MaxSize
    <3>1. n[f] \in 0 .. MaxSize /\ f \in File
      BY <1>5 DEF File
    <3>2. PICK z \in Nat : z = n[f] /\ z <= MaxSize
      BY <3>1, Constants
    <3>3. table[f] = [i \in 1 .. z |-> <<f, i - 1>>]
      BY <1>4, <3>2
    <3>4. \A i \in 1 .. z : <<f, i - 1>> \in Unit
      BY <3>1, <3>2 DEF Unit
    <3> QED BY <3>2, <3>3, <3>4
  <2>2. DOMAIN table = TableFile /\ table = [f \in TableFile |-> table[f]]
    BY <1>4
  <2> QED BY <2>1, <2>2
<1>8. TypeOK
  <2>1. /\ fileIndex = NoFile /\ ioOffset = 0 /\ bytesLeft = 0 /\ lastBlock = 0 /\ lastSend = 0
        /\ ioPtr = "ioBuf" /\ recent \in BOOLEAN /\ ioBuf = [i \in Range0(MaxSize) |-> Garbled]
        /\ client = [t \in Transfer |-> Idle] /\ latest = [t \in Transfer |-> -1] /\ faults = <<>>
    BY DEF Init
  <2>2. ioBuf \in [Range0(MaxSize) -> Unit]
    BY <1>2, <2>1
  <2>3. faults \in Seq(FaultKinds) /\ Len(faults) <= MaxFaults
    BY <2>1, Constants
  <2> QED BY <1>2, <1>3, <1>6, <1>7, <2>1, <2>2, <2>3 DEF TypeOK
<1> QED BY <1>1, <1>8 DEF NetInv

\* Every step keeps the invariant.
LEMMA NetKeeps ==
  ASSUME NetInv, Mode, [Next]_vars PROVE NetInv'
<1>1. CASE Next
  BY <1>1, HandledKeeps, ClientsKeep, PausesKeep DEF Next
<1>2. CASE UNCHANGED vars
  <2>1. UNCHANGED <<fileIndex, ioOffset, bytesLeft, lastBlock, lastSend, ioPtr, recent, ioBuf,
                    flash, size, table, client, net, latest, faults>>
    BY <1>2 DEF vars, server, store
  <2>2. TypeOK'
    BY <2>1 DEF NetInv, TypeOK
  <2>3. NetOK' /\ PlaceOK'
    BY <2>1 DEF NetInv, NetOK, UpOK, DownOK, FromPut, FromGet, LastBlockOf, PlaceOK, Reading,
                Current, Get, Served, Answers
  <2>4. TurnsOK' /\ OpsOK' /\ HeardOK'
    BY <2>1 DEF NetInv, TurnsOK, OpsOK, Active, HeardOK, Put, Get, Acked, Served, Answers, LastBlockOf
  <2> QED BY <2>2, <2>3, <2>4 DEF NetInv
<1> QED BY <1>1, <1>2

\* What is on the network and in the memory is as the types say, whatever the
\* packets do when clients only read, and as long as they keep their order when
\* clients write as well (tftp.c).
THEOREM TftpTypes ==
  ASSUME Mode PROVE Spec => []TypeOK
<1>1. Init => NetInv
  BY InitNet
<1>2. NetInv /\ [Next]_vars => NetInv'
  BY NetKeeps
<1>3. NetInv => TypeOK
  BY DEF NetInv
<1> QED BY <1>1, <1>2, <1>3, PTL DEF Spec
(***************************************************************************)
(* Pages of the flash memory                                               *)
(***************************************************************************)
\* A place in its page.
LEMMA InPage ==
  ASSUME NEW x \in Nat
  PROVE  /\ x \div Page \in Nat /\ x % Page \in 0 .. Page - 1
         /\ x = Page * (x \div Page) + (x % Page)
<1>1. ASSUME NEW n \in Nat, n > 0
      PROVE  x = n * (x \div n) + (x % n) /\ x % n \in 0 .. n - 1 /\ x \div n \in Int
  BY <1>1
<1>2. ASSUME NEW n \in Nat, n > 0
      PROVE  x \div n \in Nat
  BY <1>2
<1>3. Page \in Nat /\ Page > 0
  BY Constants
<1> QED BY <1>1, <1>2, <1>3, Zenon

\* Pages follow each other.
LEMMA PageMonotone ==
  ASSUME NEW x \in Nat, NEW y \in Nat, x <= y
  PROVE  x \div Page <= y \div Page
<1> DEFINE p == x \div Page
           q == y \div Page
           a == x % Page
           b == y % Page
<1>1. /\ p \in Nat /\ q \in Nat /\ a \in 0 .. Page - 1 /\ b \in 0 .. Page - 1
      /\ x = Page * p + a /\ y = Page * q + b
  BY InPage
<1> HIDE DEF p, q, a, b
<1>2. ASSUME q + 1 <= p PROVE FALSE
  <2>1. Page * (q + 1) <= Page * p
    BY <1>1, <1>2, Constants
  <2>2. Page * (q + 1) = Page * q + Page
    BY <1>1, Constants
  <2> QED BY <1>1, <2>1, <2>2, Constants
<1>3. p <= q
  <2>1. p \in Int /\ q \in Int
    BY <1>1
  <2>2. ~(q + 1 <= p)
    BY <1>2
  <2> QED BY <2>1, <2>2
<1> QED BY <1>3 DEF p, q

\* A place that does not begin a page is in that of the place before.
LEMMA SamePage ==
  ASSUME NEW x \in Nat, (x + 1) % Page # 0
  PROVE  (x + 1) \div Page = x \div Page
<1> DEFINE q == (x + 1) \div Page
           b == (x + 1) % Page
<1>1. q \in Nat /\ b \in 0 .. Page - 1 /\ x + 1 = Page * q + b
  <2>1. x + 1 \in Nat
    OBVIOUS
  <2> QED BY <2>1, InPage
<1> HIDE DEF q, b
<1>2. b # 0
  BY DEF b
<1>3. b - 1 \in 0 .. Page - 1 /\ x = Page * q + (b - 1)
  BY <1>1, <1>2, Constants
<1>4. x \div Page = q
  BY <1>1, <1>3, Remainder, Constants
<1> QED BY <1>4 DEF q

\* What is not longer than a page is in one page, or in two.
LEMMA TwoPages ==
  ASSUME NEW x \in Nat, NEW n \in Nat, 1 <= n, n <= Page
  PROVE  /\ (x + n - 1) \div Page \in {x \div Page, (x \div Page) + 1}
         /\ x % Page = 0 => (x + n - 1) \div Page = x \div Page
<1> DEFINE p == x \div Page
           a == x % Page
<1>1. p \in Nat /\ a \in 0 .. Page - 1 /\ x = Page * p + a
  BY InPage
<1> HIDE DEF p, a
<1>2. CASE a + n - 1 < Page
  <2>1. a + n - 1 \in 0 .. Page - 1 /\ x + n - 1 \in Nat /\ x + n - 1 = Page * p + (a + n - 1)
    BY <1>1, <1>2, Constants
  <2>2. (x + n - 1) \div Page = p
    BY <1>1, <2>1, Remainder, Constants
  <2> QED BY <2>2 DEF p
<1>3. CASE a + n - 1 >= Page
  <2>1. /\ a + n - 1 - Page \in 0 .. Page - 1 /\ x + n - 1 \in Nat /\ p + 1 \in Nat
        /\ x + n - 1 = Page * (p + 1) + (a + n - 1 - Page)
    BY <1>1, <1>3, Constants
  <2>2. (x + n - 1) \div Page = p + 1
    BY <1>1, <2>1, Remainder, Constants
  <2>3. a # 0
    BY <1>1, <1>3, Constants
  <2> QED BY <2>2, <2>3 DEF p, a
<1> QED BY <1>1, <1>2, <1>3, Constants

\* Writing a block where the rest of the page begun is erased: what is before it
\* stays, the block is there, and the rest of its last page is erased.
LEMMA WritesBlock ==
  ASSUME NEW cells \in [Range0(MaxSize) -> Unit], NEW offset \in Nat,
         NEW units \in Seq(Unit), NEW n \in Nat, n = Len(units), 1 <= n, n <= Page,
         offset + n <= MaxSize,
         offset % Page # 0 =>
           \A i \in 0 .. MaxSize - 1 :
             i >= offset /\ i \div Page = offset \div Page => cells[i] = Erased
  PROVE  LET w == Written(cells, offset, units) IN
         /\ \A i \in 0 .. MaxSize - 1 : i < offset => w[i] = cells[i]
         /\ \A i \in 0 .. MaxSize - 1 :
              i >= offset /\ i < offset + n => w[i] = units[i - offset + 1]
         /\ (offset + n) % Page # 0 =>
              \A i \in 0 .. MaxSize - 1 :
                i >= offset + n /\ i \div Page = (offset + n) \div Page => w[i] = Erased
<1> DEFINE e == ErasedFor(cells, offset, n)
           w == Written(cells, offset, units)
<1>1. PICK p \in Nat, q \in Nat : /\ p = offset \div Page /\ q = (offset + n - 1) \div Page
                                  /\ q \in {p, p + 1} /\ (offset % Page = 0 => q = p)
  <2>1. offset \div Page \in Nat
    BY InPage
  <2> QED BY <2>1, TwoPages
<1>2. e = IF offset % Page = 0 \/ q # p
          THEN [i \in Range0(MaxSize) |-> IF i \div Page = q THEN Erased ELSE cells[i]]
          ELSE cells
  BY <1>1 DEF ErasedFor, Erases
<1>3. w = [i \in Range0(MaxSize) |->
             IF i \notin offset .. offset + n - 1 THEN e[i]
             ELSE IF e[i] = Erased THEN units[i - offset + 1] ELSE Garbled]
  BY DEF Written
<1> HIDE DEF e, w
<1>4. ASSUME NEW i \in 0 .. MaxSize - 1
      PROVE  /\ i < offset => e[i] = cells[i]
             /\ i >= offset /\ i \div Page \in {p, q} => e[i] = Erased
  <2>1. i \in Range0(MaxSize) /\ i \in Nat
    BY DEF Range0
  <2>2. i \div Page \in Int
    BY <2>1, InPage
  <2>3. ASSUME i < offset PROVE e[i] = cells[i]
    <3>1. i \div Page <= p
      BY <1>1, <2>1, <2>3, PageMonotone
    <3>2. CASE q # p
      <4>1. i \div Page # q
        BY <1>1, <2>2, <3>1, <3>2
      <4> QED BY <1>2, <2>1, <4>1
    <3>3. CASE q = p /\ offset % Page = 0
      <4>1. i \div Page # p
        <5>1. offset = Page * p
          BY <1>1, <3>3, InPage, Constants
        <5>2. i = Page * (i \div Page) + (i % Page) /\ i % Page \in 0 .. Page - 1
          BY <2>1, InPage
        <5> QED BY <2>1, <2>3, <5>1, <5>2, Constants
      <4> QED BY <1>2, <2>1, <3>3, <4>1
    <3>4. CASE q = p /\ offset % Page # 0
      BY <1>2, <2>1, <3>4
    <3> QED BY <3>2, <3>3, <3>4
  <2>4. ASSUME i >= offset, i \div Page \in {p, q} PROVE e[i] = Erased
    <3>1. CASE offset % Page = 0
      <4>1. q = p /\ i \div Page = q
        BY <1>1, <2>4, <3>1
      <4> QED BY <1>2, <2>1, <3>1, <4>1
    <3>2. CASE offset % Page # 0
      <4>1. i \div Page = p => cells[i] = Erased
        BY <1>1, <2>4, <3>2
      <4>2. CASE q # p
        BY <1>2, <2>1, <2>4, <4>1, <4>2
      <4>3. CASE q = p
        BY <1>2, <2>1, <2>4, <3>2, <4>1, <4>3
      <4> QED BY <4>2, <4>3
    <3> QED BY <3>1, <3>2
  <2> QED BY <2>3, <2>4
<1>5. ASSUME NEW i \in 0 .. MaxSize - 1, i < offset PROVE w[i] = cells[i]
  <2>1. i \in Range0(MaxSize) /\ i \notin offset .. offset + n - 1
    BY <1>5 DEF Range0
  <2>2. w[i] = e[i]
    BY <1>3, <2>1
  <2> QED BY <1>4, <1>5, <2>2
<1>6. ASSUME NEW i \in 0 .. MaxSize - 1, i >= offset, i < offset + n
      PROVE  w[i] = units[i - offset + 1]
  <2>1. i \in Range0(MaxSize) /\ i \in offset .. offset + n - 1 /\ i \in Nat
    BY <1>6 DEF Range0
  <2>2. i \div Page \in {p, q}
    <3>1. p <= i \div Page
      BY <1>1, <1>6, <2>1, PageMonotone
    <3>2. i \div Page <= q
      <4>1. i <= offset + n - 1 /\ offset + n - 1 \in Nat
        BY <1>6
      <4> QED BY <1>1, <2>1, <4>1, PageMonotone
    <3>3. i \div Page \in Int
      BY <2>1, InPage
    <3> QED BY <1>1, <3>1, <3>2, <3>3
  <2>3. e[i] = Erased
    BY <1>4, <1>6, <2>2
  <2> QED BY <1>3, <2>1, <2>3
<1>7. ASSUME NEW i \in 0 .. MaxSize - 1, (offset + n) % Page # 0, i >= offset + n,
             i \div Page = (offset + n) \div Page
      PROVE  w[i] = Erased
  <2>1. i \in Range0(MaxSize) /\ i \notin offset .. offset + n - 1
    BY <1>7 DEF Range0
  <2>2. i \div Page = q
    <3>1. PICK z \in Nat : z = offset + n - 1 /\ z + 1 = offset + n
      <4>1. offset + n - 1 \in Nat /\ (offset + n - 1) + 1 = offset + n
        OBVIOUS
      <4> QED BY <4>1
    <3>2. (z + 1) % Page # 0
      BY <1>7, <3>1
    <3>3. (z + 1) \div Page = z \div Page
      BY <3>2, SamePage
    <3> QED BY <1>1, <1>7, <3>1, <3>3
  <2>3. e[i] = Erased
    BY <1>4, <1>7, <2>2
  <2> QED BY <1>3, <2>1, <2>3
<1> QED BY <1>5, <1>6, <1>7 DEF w

\* Collecting a block: what is before it stays, and the block is there.
LEMMA CopiesBlock ==
  ASSUME NEW cells \in [Range0(MaxSize) -> Unit], NEW offset \in Nat,
         NEW units \in Seq(Unit), NEW n \in Nat, n = Len(units)
  PROVE  LET w == Copied(cells, offset, units) IN
         /\ \A i \in 0 .. MaxSize - 1 : i < offset => w[i] = cells[i]
         /\ \A i \in 0 .. MaxSize - 1 :
              i >= offset /\ i < offset + n => w[i] = units[i - offset + 1]
<1> DEFINE w == Copied(cells, offset, units)
<1>1. w = [i \in Range0(MaxSize) |->
             IF i \in offset .. offset + n - 1 THEN units[i - offset + 1] ELSE cells[i]]
  BY DEF Copied
<1> HIDE DEF w
<1>2. \A i \in 0 .. MaxSize - 1 : i < offset => w[i] = cells[i]
  BY <1>1 DEF Range0
<1>3. \A i \in 0 .. MaxSize - 1 : i >= offset /\ i < offset + n => w[i] = units[i - offset + 1]
  BY <1>1 DEF Range0
<1> QED BY <1>2, <1>3 DEF w
(***************************************************************************)
(* Uploads                                                                 *)
(***************************************************************************)
\* What the server has acknowledged is of an upload, and has been delivered.
LEMMA AckedIsDelivered ==
  ASSUME NetInv, NEW t \in Transfer, NEW k
  PROVE  /\ Begun(t) => /\ Put(t) /\ ~Get(t) /\ client[t] # Idle /\ client[t].file \in File
                        /\ latest[t] \in Nat /\ client[t].len \in Nat
         /\ Acked(t, k) => Begun(t) /\ k \in Nat /\ k <= latest[t]
<1>1. ASSUME NEW p \in net, Answers(p, "ACK", t)
      PROVE  /\ Put(t) /\ ~Get(t) /\ client[t] # Idle /\ client[t].file \in File
             /\ latest[t] \in Nat /\ p.k \in Nat /\ p.k <= latest[t] /\ client[t].len \in Nat
  <2>1. DownOK(p) /\ p.t = t /\ p.type = "ACK"
    BY <1>1 DEF NetInv, NetOK, UpOK, Answers
  <2>2. latest[t] \in Nat
    <3>1. latest[t] \in Nat \cup {-1} /\ latest[t] >= 0
      BY <2>1 DEF NetInv, TypeOK, DownOK
    <3> QED BY <3>1
  <2>3. client[t] # Idle
    BY <2>1 DEF DownOK
  <2>4. client[t].len \in Nat
    BY <2>3, ClientFields DEF NetInv
  <2> QED BY <2>1, <2>2, <2>4 DEF DownOK, Put, Get
<1> QED BY <1>1 DEF Begun, Acked

\* Failures are not forgotten.
LEMMA FailuresStay ==
  ASSUME TypeOK, faults' = faults \/ \E kind : Fault(kind)
  PROVE  /\ \A kind : Failed(kind) => Failed(kind)'
         /\ \A kind : Fault(kind) => Failed(kind)'
<1>1. faults \in Seq(FaultKinds) /\ Len(faults) \in Nat
  BY DEF TypeOK
<1>2. ASSUME NEW kind \in FaultKinds, faults' = Append(faults, kind)
      PROVE  /\ Len(faults') = Len(faults) + 1 /\ faults'[Len(faults) + 1] = kind
             /\ \A n \in 1 .. Len(faults) : faults'[n] = faults[n]
  BY <1>1, <1>2
<1>3. ASSUME NEW kind, Fault(kind) PROVE Failed(kind)'
  <2>1. kind \in FaultKinds /\ faults' = Append(faults, kind)
    BY <1>3 DEF Fault
  <2>2. Len(faults) + 1 \in 1 .. Len(faults')
    BY <1>1, <1>2, <2>1
  <2> QED BY <1>2, <2>1, <2>2 DEF Failed
<1>4. ASSUME NEW kind, Failed(kind) PROVE Failed(kind)'
  <2>1. CASE faults' = faults
    BY <1>4, <2>1 DEF Failed
  <2>2. ASSUME NEW other, Fault(other) PROVE Failed(kind)'
    <3>1. other \in FaultKinds /\ faults' = Append(faults, other)
      BY <2>2 DEF Fault
    <3>2. PICK n \in 1 .. Len(faults) : faults[n] = kind
      BY <1>4 DEF Failed
    <3>3. n \in 1 .. Len(faults') /\ faults'[n] = kind
      BY <1>1, <1>2, <3>1, <3>2
    <3> QED BY <3>3 DEF Failed
  <2> QED BY <2>1, <2>2
<1> QED BY <1>3, <1>4

\* A file that can be stored could be before.
LEMMA AcceptableBefore ==
  ASSUME TypeOK, faults' = faults \/ \E kind : Fault(kind),
         NEW t, client[t] # Idle, GoesOn(t), Acceptable(t)'
  PROVE  Acceptable(t)
<1>1. /\ client'[t].file = client[t].file /\ client'[t].len = client[t].len
      /\ client'[t].valid = client[t].valid
  BY DEF GoesOn
<1>2. (Failed("write") => Failed("write")') /\ (Failed("size") => Failed("size")')
  BY FailuresStay
<1> QED BY <1>1, <1>2 DEF Acceptable

\* An upload that is the newest of its file was so before.
LEMMA NewestBefore ==
  ASSUME \A u \in Transfer : GoesOn(u), NEW t \in Transfer, client[t] # Idle, IsNewest(t)'
  PROVE  IsNewest(t)
BY DEF IsNewest, GoesOn

\* A client that goes on sends the same file.
LEMMA SameFile ==
  ASSUME NEW t, client[t] # Idle, GoesOn(t)
  PROVE  /\ Put(t)' <=> Put(t)
         /\ client'[t].file = client[t].file /\ LastBlockOf(t)' = LastBlockOf(t)
         /\ Text(t)' = Text(t)
BY DEF GoesOn, Put, LastBlockOf, Text

\* Nothing changes for uploads while the server does nothing, or loses its
\* memory.
LEMMA UploadsStay ==
  ASSUME UploadInv, \A u \in Transfer : GoesOn(u),
         UNCHANGED <<flash, size, table, latest>>,
         faults' = faults \/ \E kind : Fault(kind),
         \A t \in Transfer : Begun(t)' => Begun(t),
         \A t \in Transfer : \A k : Acked(t, k)' => Acked(t, k),
         fileIndex' = NoFile \/ UNCHANGED <<fileIndex, ioOffset, lastBlock, ioBuf>>
  PROVE  FileOK' /\ ProgressOK' /\ StoredOK'
<1>1. NetInv /\ TypeOK
  BY DEF UploadInv, NetInv
<1>2. ASSUME NEW t \in Transfer, Current(t)', Begun(t)'
      PROVE  /\ Current(t) /\ Begun(t) /\ client[t] # Idle
             /\ client'[t].file = client[t].file /\ LastBlockOf(t)' = LastBlockOf(t)
             /\ Acceptable(t)' => Acceptable(t)
  <2>1. Begun(t) /\ Current(t)
    BY <1>2 DEF Current
  <2>2. client[t] # Idle
    BY <1>1, <2>1, AckedIsDelivered
  <2> QED BY <1>1, <2>1, <2>2, SameFile, AcceptableBefore
<1>3. FileOK'
  BY <1>2 DEF UploadInv, FileOK
<1>4. ProgressOK'
  <2>1. SUFFICES ASSUME NEW t \in Transfer, Under(t)'
                 PROVE  /\ lastBlock' = latest'[t] % Modulus
                        /\ ioOffset' = At(latest[t])'
                        /\ latest'[t] < LastBlockOf(t)'
                        /\ PrefixOK(t)' /\ RestErased(t)'
    BY DEF ProgressOK
  <2>2. UNCHANGED <<fileIndex, ioOffset, lastBlock, ioBuf>> /\ Under(t)
    BY <1>2, <2>1 DEF Under
  <2>3. client'[t].file = client[t].file /\ LastBlockOf(t)' = LastBlockOf(t)
    BY <1>2, <2>1 DEF Under
  <2>4. /\ lastBlock = latest[t] % Modulus /\ ioOffset = At(latest[t])
        /\ latest[t] < LastBlockOf(t) /\ PrefixOK(t) /\ RestErased(t)
    BY <2>2 DEF UploadInv, ProgressOK
  <2>5. At(latest[t])' = At(latest[t])
    BY DEF At
  <2>6. PrefixOK(t)' /\ RestErased(t)'
    BY <2>2, <2>3, <2>4 DEF PrefixOK, RestErased, Collected
  <2> QED BY <2>2, <2>3, <2>4, <2>5, <2>6
<1>5. StoredOK'
  <2>1. SUFFICES ASSUME NEW t \in Transfer, Put(t)', Acceptable(t)', IsNewest(t)',
                        Acked(t, LastBlockOf(t))'
                 PROVE  Contents(client[t].file)' = Text(t)'
    BY DEF StoredOK
  <2>2. PICK b : b = LastBlockOf(t)'
    OBVIOUS
  <2>3. Acked(t, b)
    <3>1. Acked(t, b)'
      BY <2>1, <2>2
    <3> QED BY <3>1
  <2>4. client[t] # Idle
    BY <1>1, <2>3, AckedIsDelivered
  <2>5. /\ Put(t) /\ client'[t].file = client[t].file /\ b = LastBlockOf(t)
        /\ Text(t)' = Text(t)
    BY <2>1, <2>2, <2>4, SameFile
  <2>6. Acceptable(t) /\ IsNewest(t)
    BY <1>1, <2>1, <2>4, AcceptableBefore, NewestBefore
  <2>7. PICK f : f = client[t].file
    OBVIOUS
  <2>8. Contents(f) = Text(t)
    BY <2>3, <2>5, <2>6, <2>7 DEF UploadInv, StoredOK
  <2>9. Contents(f)' = Contents(f)
    BY DEF Contents, TextOf
  <2>10. Contents(client[t].file)' = Contents(f)'
    BY <2>5, <2>7
  <2> QED BY <2>5, <2>8, <2>9, <2>10
<1> QED BY <1>3, <1>4, <1>5

\* A step of the clients leaves the server alone and sends it at most one packet.
ClientsOnly ==
  /\ UNCHANGED <<server, store, latest, faults>>
  /\ \A u \in Transfer : GoesOn(u)
  /\ net' = net \/ \E t, type, k : net' = net \cup {FromClient(t, type, k)}

\* So the clients, time and power change nothing for uploads.
LEMMA OthersKeepUploads ==
  ASSUME UploadInv, Mode, Clients \/ TimePasses \/ PowerFails, NetInv'
  PROVE  FileOK' /\ ProgressOK' /\ StoredOK'
<1>1. NetInv
  BY DEF UploadInv
<1>2. CASE TimePasses \/ PowerFails
  <2>1. /\ UNCHANGED <<flash, size, table, latest, client, net>>
        /\ faults' = faults \/ Fault("power")
        /\ fileIndex' = NoFile \/ UNCHANGED <<fileIndex, ioOffset, lastBlock, ioBuf>>
    BY <1>2 DEF TimePasses, PowerFails, store
  <2>2. \A u \in Transfer : GoesOn(u)
    <3>1. \A u \in Transfer : client[u] # Idle => client[u].k \in Nat
      BY <1>1, ClientFields DEF NetInv
    <3> QED BY <2>1, <3>1 DEF GoesOn
  <2>3. \A t \in Transfer : Begun(t)' => Begun(t)
    BY <2>1 DEF Begun, Answers
  <2>4. \A t \in Transfer : \A k : Acked(t, k)' => Acked(t, k)
    BY <2>1 DEF Acked, Answers
  <2>5. faults' = faults \/ \E kind : Fault(kind)
    BY <2>1
  <2> QED BY <2>1, <2>2, <2>3, <2>4, <2>5, UploadsStay
<1>3. CASE Clients
  <2>1. ClientsOnly
    <3>1. ASSUME NEW t \in Transfer, NEW op, NEW f, NEW len, NEW valid, Start(t, op, f, len, valid)
          PROVE  ClientsOnly
      <4>1. /\ UNCHANGED <<server, store, latest, faults>> /\ client[t] = Idle
            /\ \E type : net' = net \cup {FromClient(t, type, 0)}
            /\ \A u \in Transfer : u # t => client'[u] = client[u]
        BY <1>1, <3>1 DEF Start, Sent, NetInv, TypeOK
      <4>2. \A u \in Transfer : client[u] # Idle => client[u].k \in Nat
        BY <1>1, ClientFields DEF NetInv
      <4> QED BY <4>1, <4>2 DEF GoesOn, ClientsOnly
    <3>2. ASSUME NEW t \in Transfer, client[t] # Idle, NEW state \in {"done", "failed"}, Ending(t, state)
          PROVE  ClientsOnly
      <4>1. Moves(t, state, client[t].k, client[t].got) /\ UNCHANGED <<server, store, net, latest, faults>>
        BY <1>1, <3>2, EndingMoves
      <4>2. PICK k \in Nat : k = client[t].k /\ \E g : Moves(t, state, k, g)
        BY <1>1, <3>2, <4>1, ClientFields DEF NetInv
      <4>3. k >= client[t].k
        BY <4>2
      <4>4. \A u \in Transfer : GoesOn(u)
        BY <1>1, <3>2, <4>2, <4>3, MovesOn
      <4> QED BY <4>1, <4>4 DEF ClientsOnly
    <3>3. ASSUME NEW m \in net, ClientRefused(m) PROVE ClientsOnly
      <4>1. Ending(m.t, "failed") /\ m.dir = "down"
        BY <3>3 DEF ClientRefused, Reaches
      <4>2. m.t \in Transfer /\ client[m.t] # Idle
        BY <1>1, <4>1 DEF NetInv, NetOK, UpOK, DownOK
      <4> QED BY <3>2, <4>1, <4>2
    <3>4. ASSUME NEW m \in net, ClientAcked(m) PROVE ClientsOnly
      <4>1. m.t \in Transfer /\ client[m.t] # Idle /\ client[m.t].k \in Nat
        BY <1>1, <3>4, AckTaken
      <4>2. CASE Ending(m.t, "done")
        BY <3>2, <4>1, <4>2
      <4>3. CASE ~Ending(m.t, "done")
        <5>1. /\ client' = [client EXCEPT ![m.t].k = client[m.t].k + 1]
              /\ net' = net \cup {FromClient(m.t, "DATA", client[m.t].k + 1)}
              /\ UNCHANGED <<server, store, latest, faults>>
          BY <3>4, <4>3 DEF ClientAcked, Sent
        <5>2. PICK c \in ClientRecord : c = client[m.t]
          BY <1>1, <4>1, ClientFields DEF NetInv
        <5>3. PICK d : d = [c EXCEPT !.k = client[m.t].k + 1]
          OBVIOUS
        <5>4. d \in ClientRecord /\ d.op = c.op /\ d.file = c.file /\ d.len = c.len
              /\ d.valid = c.valid /\ d.k = client[m.t].k + 1
          BY <4>1, <5>2, <5>3 DEF ClientRecord
        <5>5. client'[m.t] = d /\ d # Idle /\ \A u \in Transfer : u # m.t => client'[u] = client[u]
          BY <1>1, <4>1, <5>1, <5>2, <5>3, <5>4, RecordNotIdle DEF NetInv, TypeOK
        <5>6. \A u \in Transfer : client[u] # Idle => client[u].k \in Nat
          BY <1>1, ClientFields DEF NetInv
        <5>7. \A u \in Transfer : GoesOn(u)
          BY <5>2, <5>4, <5>5, <5>6 DEF GoesOn
        <5> QED BY <5>1, <5>7 DEF ClientsOnly
      <4> QED BY <4>2, <4>3
    <3>5. ASSUME NEW m \in net, ClientData(m) PROVE ClientsOnly
      <4>1. PICK t \in Transfer, k \in Nat :
              /\ k = client[t].k + 1 /\ \E state, g : Moves(t, state, k, g)
              /\ net' = net \cup {FromClient(t, "ACK", k)}
              /\ client[t] # Idle /\ client[t].k \in Nat
              /\ UNCHANGED <<server, store, latest, faults>>
        BY <1>1, <3>5, DataTaken
      <4>2. k >= client[t].k
        BY <4>1
      <4>3. \A u \in Transfer : GoesOn(u)
        BY <1>1, <4>1, <4>2, MovesOn
      <4> QED BY <4>1, <4>3 DEF ClientsOnly
    <3> QED BY <1>3, <3>1, <3>2, <3>3, <3>4, <3>5 DEF Clients, GiveUp
  <2>2. \A t \in Transfer : Begun(t)' => Begun(t)
    BY <2>1 DEF Begun, Answers, FromClient, ClientsOnly
  <2>3. \A t \in Transfer : \A k : Acked(t, k)' => Acked(t, k)
    BY <2>1 DEF Acked, Answers, FromClient, ClientsOnly
  <2>4. UNCHANGED <<flash, size, table, latest, faults, fileIndex, ioOffset, lastBlock, ioBuf>>
    BY <2>1 DEF server, store, ClientsOnly
  <2> QED BY <2>1, <2>2, <2>3, <2>4, UploadsStay DEF ClientsOnly
<1> QED BY <1>2, <1>3
\* The fate of the faults in a step of the server.
LEMMA StepFaults ==
  ASSUME NEW m, HandlePacket(m)
  PROVE  faults' = faults \/ \E kind : Fault(kind)
<1>1. CASE BeginDownload(m) \/ AckNext(m) \/ AckOther(m)
  BY <1>1 DEF BeginDownload, AckNext, AckOther, SendBlock
<1>2. CASE ~(BeginDownload(m) \/ AckNext(m) \/ AckOther(m))
  BY <1>2 DEF HandlePacket, RefuseBusy, RefuseName, BeginUpload, AcknowledgeAgain, IgnoreData,
              RefuseTooBig, StoreBlock, StoreBlockFails, CollectBlock, FinishTable
<1> QED BY <1>1, <1>2

\* What the server answers, it answers the sender of the packet.
LEMMA AnswersSender ==
  ASSUME NetInv, Mode, NEW m \in net, Delivered(m), Reply(m), NEW t \in Transfer, NEW k
  PROVE  /\ Acked(t, k)' => Acked(t, k) \/ (t = m.t /\ k = m.k /\ Put(m.t))
         /\ Begun(t)' => Begun(t) \/ (t = m.t /\ Put(m.t))
<1>1. \A q \in net' : q.type = "ACK" /\ q.dir = "down" =>
        q \in net \/ (q.t = m.t /\ q.k = m.k /\ Put(m.t))
  <2>1. UNCHANGED net => net' = net
    OBVIOUS
  <2>2. \A q : q = ToClient(m.t, "ERR", 0, 0, <<>>) => q.type # "ACK"
    BY DEF ToClient
  <2>3. \A q : q = ToClient(m.t, "ACK", m.k % Modulus, m.k, <<>>) => q.t = m.t /\ q.k = m.k
    BY DEF ToClient
  <2>4. \A q, b, units : q = ToClient(m.t, "DATA", b, b, units) => q.type # "ACK"
    BY DEF ToClient
  <2> QED BY <2>1, <2>2, <2>3, <2>4 DEF Reply, Sent
<1> QED BY <1>1 DEF Acked, Begun, Answers

\* What a step of the server has to do for uploads: to answer the sender of the
\* packet truly, and to change no other file, unless it fails.
LEMMA HandledUploads ==
  ASSUME UploadInv, InOrder, NEW m \in net, HandlePacket(m),
         \A f \in File : \/ Contents(f)' = Contents(f)
                         \/ Put(m.t) /\ f = client[m.t].file
                         \/ f \in FlashFile /\ Failed("size")',
         Begun(m.t)' => fileIndex' \in {NoFile, client[m.t].file},
         Begun(m.t)' /\ fileIndex' # NoFile /\ Acceptable(m.t)' =>
           /\ lastBlock' = m.k % Modulus
           /\ ioOffset' = At(m.k)
           /\ m.k < LastBlockOf(m.t)
           /\ PrefixOK(m.t)' /\ RestErased(m.t)',
         \A f, b : /\ f = client[m.t].file /\ b = LastBlockOf(m.t)
                   /\ Put(m.t) /\ Acceptable(m.t)' /\ IsNewest(m.t) /\ Acked(m.t, b)'
                   => Contents(f)' = Text(m.t)
  PROVE  FileOK' /\ ProgressOK' /\ StoredOK'
<1>1. NetInv /\ TypeOK /\ Mode
  BY DEF UploadInv, NetInv, Mode
<1>2. Delivered(m) /\ Reply(m)
  BY <1>1, Replies
<1>3. client' = client /\ m.t \in Transfer /\ latest'[m.t] = m.k /\ m.k \in Nat /\ m.dir = "up"
      /\ m.k >= latest[m.t] /\ \A u \in Transfer : u > m.t => latest[u] = -1
  BY <1>1, <1>2, Delivery, UpPacket
<1>4. \A t \in Transfer : Current(t)' => t = m.t
  BY <1>1, <1>2, DeliveredIsCurrent
<1>5. \A u \in Transfer : GoesOn(u)
  <2>1. \A u \in Transfer : client[u] # Idle => client[u].k \in Nat
    BY <1>1, ClientFields
  <2> QED BY <1>3, <2>1 DEF GoesOn
<1>6. FileOK'
  BY <1>3, <1>4 DEF FileOK
<1>7. ProgressOK'
  <2>1. SUFFICES ASSUME Under(m.t)'
                 PROVE  /\ lastBlock' = latest'[m.t] % Modulus
                        /\ ioOffset' = At(latest[m.t])'
                        /\ latest'[m.t] < LastBlockOf(m.t)'
                        /\ PrefixOK(m.t)' /\ RestErased(m.t)'
    BY <1>4 DEF ProgressOK, Under
  <2>2. At(m.k) = At(latest[m.t])' /\ LastBlockOf(m.t)' = LastBlockOf(m.t)
    BY <1>3 DEF At, LastBlockOf
  <2> QED BY <1>3, <2>1, <2>2 DEF Under
<1>8. StoredOK'
  <2>1. SUFFICES ASSUME NEW t \in Transfer, Put(t)', Acceptable(t)', IsNewest(t)',
                        Acked(t, LastBlockOf(t))'
                 PROVE  Contents(client[t].file)' = Text(t)'
    BY DEF StoredOK
  <2>2. PICK b : b = LastBlockOf(t)'
    OBVIOUS
  <2>3. Acked(t, b)'
    BY <2>1, <2>2
  <2>4. client[t] # Idle /\ Put(t)
    BY <1>3, <2>1 DEF Put
  <2>5. /\ client'[t].file = client[t].file /\ b = LastBlockOf(t) /\ Text(t)' = Text(t)
    BY <1>5, <2>2, <2>4, SameFile
  <2>6. Acceptable(t) /\ IsNewest(t)
    <3>1. faults' = faults \/ \E kind : Fault(kind)
      BY StepFaults
    <3> QED BY <1>1, <1>5, <2>1, <2>4, <3>1, AcceptableBefore, NewestBefore
  <2>7. PICK f : f = client[t].file
    OBVIOUS
  <2>8. Contents(f)' = Text(t)
    <3>1. CASE t = m.t
      BY <2>1, <2>3, <2>4, <2>5, <2>6, <2>7, <3>1
    <3>2. CASE t # m.t
      <4>1. Acked(t, b)
        BY <1>1, <1>2, <2>3, <3>2, AnswersSender
      <4>2. Contents(f) = Text(t)
        BY <2>4, <2>5, <2>6, <2>7, <4>1 DEF UploadInv, StoredOK
      <4>3. f \in File /\ latest[t] \in Nat
        BY <1>1, <2>7, <4>1, AckedIsDelivered
      <4>4. m.t > t
        <5>1. latest[t] # -1
          BY <4>3
        <5>2. ~(t > m.t)
          BY <1>3, <5>1
        <5> QED BY <1>3, <3>2, <5>2, TransferIsInt
      <4>5. ~(Put(m.t) /\ f = client[m.t].file)
        BY <1>3, <2>6, <2>7, <4>4 DEF IsNewest, Put
      <4>6. ~(f \in FlashFile /\ Failed("size")')
        BY <2>1, <2>5, <2>7 DEF Acceptable
      <4> QED BY <4>2, <4>3, <4>5, <4>6
    <3> QED BY <3>1, <3>2
  <2>9. Contents(client[t].file)' = Contents(f)'
    BY <2>5, <2>7
  <2> QED BY <2>5, <2>8, <2>9
<1> QED BY <1>6, <1>7, <1>8

\* A step that changes no file, and acknowledges nothing, leaves uploads stored.
LEMMA NoAnswer ==
  ASSUME UploadInv, InOrder, NEW m \in net, HandlePacket(m),
         UNCHANGED <<flash, size, table>>,
         \A k : Acked(m.t, k)' => Acked(m.t, k)
  PROVE  /\ \A f \in File : Contents(f)' = Contents(f)
         /\ \A f, b : /\ f = client[m.t].file /\ b = LastBlockOf(m.t)
                      /\ Put(m.t) /\ Acceptable(m.t)' /\ IsNewest(m.t) /\ Acked(m.t, b)'
                      => Contents(f)' = Text(m.t)
<1>1. NetInv /\ TypeOK /\ Mode
  BY DEF UploadInv, NetInv, Mode
<1>2. Delivered(m) /\ client' = client /\ m.t \in Transfer /\ client[m.t] # Idle
  BY <1>1, Replies, Delivery, UpPacket
<1>3. \A f : Contents(f)' = Contents(f)
  BY DEF Contents, TextOf
<1>4. GoesOn(m.t)
  <2>1. client[m.t].k \in Nat
    BY <1>1, <1>2, ClientFields
  <2> QED BY <1>2, <2>1 DEF GoesOn
<1>5. Acceptable(m.t)' => Acceptable(m.t)
  BY <1>1, <1>2, <1>4, StepFaults, AcceptableBefore
<1>6. ASSUME NEW f, NEW b, f = client[m.t].file, b = LastBlockOf(m.t),
             Put(m.t), Acceptable(m.t)', IsNewest(m.t), Acked(m.t, b)'
      PROVE  Contents(f)' = Text(m.t)
  <2>1. Acked(m.t, b)
    BY <1>6
  <2>2. Contents(f) = Text(m.t)
    BY <1>2, <1>5, <1>6, <2>1 DEF UploadInv, StoredOK
  <2> QED BY <1>3, <2>2
<1> QED BY <1>3, <1>6

\* Downloads and refused requests keep uploads.
LEMMA ReadsKeepUploads ==
  ASSUME UploadInv, InOrder, NEW m \in net,
         RefuseBusy(m) \/ RefuseName(m) \/ BeginDownload(m) \/ AckNext(m) \/ AckOther(m)
  PROVE  FileOK' /\ ProgressOK' /\ StoredOK'
<1>1. NetInv /\ TypeOK /\ Mode
  BY DEF UploadInv, NetInv, Mode
<1>2. HandlePacket(m) /\ UNCHANGED <<flash, size, table>>
  BY DEF HandlePacket, RefuseBusy, RefuseName, BeginDownload, AckNext, AckOther, store
<1>3. Delivered(m) /\ Reply(m) /\ client' = client /\ m.t \in Transfer
  BY <1>1, <1>2, Replies, Delivery
<1>4. CASE BeginDownload(m) \/ AckNext(m) \/ AckOther(m)
  <2>1. Get(m.t) /\ ~Put(m.t)
    <3>1. m.type = "RRQ" \/ m.type = "ACK"
      BY <1>4 DEF BeginDownload, AckNext, AckOther
    <3> QED BY <1>1, <1>3, <3>1, RequestUp, AckUp, Delivery DEF Request, Get, Put
  <2>2. ~Begun(m.t)'
    <3>1. ~Begun(m.t)
      BY <1>1, <1>3, <2>1, AckedIsDelivered
    <3> QED BY <1>1, <1>3, <2>1, <3>1, AnswersSender
  <2>3. \A k : Acked(m.t, k)' => Acked(m.t, k)
    BY <1>1, <1>3, <2>1, AnswersSender
  <2>4. /\ \A f \in File : Contents(f)' = Contents(f)
        /\ \A f, b : /\ f = client[m.t].file /\ b = LastBlockOf(m.t)
                     /\ Put(m.t) /\ Acceptable(m.t)' /\ IsNewest(m.t) /\ Acked(m.t, b)'
                     => Contents(f)' = Text(m.t)
    BY <1>2, <2>3, NoAnswer
  <2> QED BY <1>2, <2>1, <2>2, <2>4, HandledUploads
<1>5. CASE RefuseBusy(m) \/ RefuseName(m)
  <2>1. m.type \in Request /\ ReplyERR(m) /\ m.k = 0
        /\ (fileIndex' = NoFile \/ UNCHANGED <<fileIndex, ioOffset, ioBuf>>)
        /\ lastBlock' = 0 /\ UNCHANGED faults
    <3>1. m.type \in Request
      BY <1>5 DEF RefuseBusy, RefuseName
    <3>2. m.k = 0
      BY <1>1, <1>3, <3>1, RequestUp, Delivery
    <3> QED BY <1>5, <3>1, <3>2 DEF RefuseBusy, RefuseName
  <2>2. \A k : Acked(m.t, k)' => Acked(m.t, k)
    BY <2>1 DEF ReplyERR, Sent, ToClient, Acked, Answers
  <2>3. Begun(m.t)' => Begun(m.t)
    BY <2>1 DEF ReplyERR, Sent, ToClient, Begun, Answers
  <2>4. /\ \A f \in File : Contents(f)' = Contents(f)
        /\ \A f, b : /\ f = client[m.t].file /\ b = LastBlockOf(m.t)
                     /\ Put(m.t) /\ Acceptable(m.t)' /\ IsNewest(m.t) /\ Acked(m.t, b)'
                     => Contents(f)' = Text(m.t)
    BY <1>2, <2>2, NoAnswer
  <2>5. ASSUME Begun(m.t)
        PROVE  latest[m.t] = 0 /\ Current(m.t)
    <3>1. latest[m.t] \in Nat
      BY <1>1, <1>3, <2>5, AckedIsDelivered
    <3>2. latest[m.t] <= m.k /\ \A u \in Transfer : u > m.t => latest[u] = -1
      BY <1>1, <1>3, Delivery
    <3> QED BY <2>1, <3>1, <3>2 DEF Current
  <2>6. Begun(m.t)' => fileIndex' \in {NoFile, client[m.t].file}
    BY <1>3, <2>1, <2>3, <2>5 DEF UploadInv, FileOK
  <2>7. ASSUME Begun(m.t)', fileIndex' # NoFile, Acceptable(m.t)'
        PROVE  /\ lastBlock' = m.k % Modulus
               /\ ioOffset' = At(m.k)
               /\ m.k < LastBlockOf(m.t)
               /\ PrefixOK(m.t)' /\ RestErased(m.t)'
    <3>1. UNCHANGED <<fileIndex, ioOffset, ioBuf>> /\ Begun(m.t)
      BY <2>1, <2>3, <2>7
    <3>2. latest[m.t] = 0 /\ Current(m.t)
      BY <2>5, <3>1
    <3>3. Acceptable(m.t)
      BY <1>3, <2>1, <2>7 DEF Acceptable, Failed
    <3>4. Under(m.t)
      BY <2>7, <3>1, <3>2, <3>3 DEF Under
    <3>5. /\ lastBlock = latest[m.t] % Modulus
          /\ ioOffset = At(latest[m.t])
          /\ latest[m.t] < LastBlockOf(m.t)
          /\ PrefixOK(m.t) /\ RestErased(m.t)
      BY <1>3, <3>4 DEF UploadInv, ProgressOK
    <3>6. PrefixOK(m.t)' /\ RestErased(m.t)'
      BY <1>2, <1>3, <3>1, <3>5 DEF PrefixOK, RestErased, Collected
    <3>7. 0 % Modulus = 0
      BY BlockNumber, Constants
    <3> QED BY <2>1, <3>1, <3>2, <3>5, <3>6, <3>7
  <2> QED BY <1>2, <2>4, <2>6, <2>7, HandledUploads
<1> QED BY <1>4, <1>5
\* An upload begins.
LEMMA BeginsUpload ==
  ASSUME UploadInv, InOrder, NEW m \in net, BeginUpload(m)
  PROVE  FileOK' /\ ProgressOK' /\ StoredOK'
<1>1. NetInv /\ TypeOK /\ Mode /\ HandlePacket(m)
  BY DEF UploadInv, NetInv, Mode, HandlePacket
<1>2. Delivered(m) /\ Reply(m) /\ client' = client /\ m.t \in Transfer
  BY <1>1, Replies, Delivery
<1>3. /\ m.type = "WRQ" /\ ReplyACK(m, 0)
      /\ lastBlock' = 0 /\ fileIndex' = client[m.t].file /\ ioOffset' = 0
      /\ UNCHANGED <<flash, size, table, faults>>
  BY DEF BeginUpload, store
<1>4. m.k = 0 /\ Put(m.t) /\ client[m.t].len \in Nat
  <2>1. m.k = 0 /\ Put(m.t)
    BY <1>1, <1>2, <1>3, RequestUp, Delivery DEF Request
  <2> QED BY <1>1, <1>2, <2>1, ClientFields DEF Put
<1>5. LastBlockOf(m.t) \in Nat /\ LastBlockOf(m.t) >= 1
  BY <1>2, <1>4, LastBlock
<1>6. 0 % Modulus = 0 /\ 0 % Page = 0 /\ At(0) = 0
  <2>1. 0 = Page * 0 + 0 /\ 0 \in 0 .. Page - 1
    BY Constants
  <2>2. 0 % Page = 0
    BY <2>1, Remainder, Constants
  <2> QED BY <2>2, BlockNumber, AtBlocks, Constants
<1>7. PrefixOK(m.t)' /\ RestErased(m.t)'
  BY <1>3, <1>6 DEF PrefixOK, RestErased
<1>8. \A f : Contents(f)' = Contents(f)
  BY <1>3 DEF Contents, TextOf
<1>9. ASSUME NEW f, NEW b, f = client[m.t].file, b = LastBlockOf(m.t),
             Put(m.t), Acceptable(m.t)', IsNewest(m.t), Acked(m.t, b)'
      PROVE  Contents(f)' = Text(m.t)
  <2>1. Acked(m.t, b)
    BY <1>1, <1>2, <1>4, <1>5, <1>9, AnswersSender
  <2>2. Acceptable(m.t)
    BY <1>2, <1>3, <1>9 DEF Acceptable, Failed
  <2>3. Contents(f) = Text(m.t)
    BY <1>2, <1>9, <2>1, <2>2 DEF UploadInv, StoredOK
  <2> QED BY <1>8, <2>3
<1>10. m.k < LastBlockOf(m.t)
  BY <1>4, <1>5
<1> QED BY <1>1, <1>3, <1>4, <1>6, <1>7, <1>8, <1>9, <1>10, HandledUploads

\* What a block that arrives finds if its file can be stored: it is the one
\* stored last or the next one, and it fits.
LEMMA FindsPlace ==
  ASSUME UploadInv, InOrder, NEW m \in net, DataArrives(m), Acceptable(m.t)
  PROVE  /\ Under(m.t)
         /\ lastBlock = latest[m.t] % Modulus /\ ioOffset = At(latest[m.t])
         /\ latest[m.t] \in Nat /\ latest[m.t] < LastBlockOf(m.t)
         /\ PrefixOK(m.t) /\ RestErased(m.t)
         /\ m.block \in {lastBlock, NextBlock}
         /\ m.block = lastBlock => m.k = latest[m.t]
         /\ m.block = NextBlock => m.k = latest[m.t] + 1 /\ Fits(BlockUnits(m.t, m.k))
         /\ ~Acked(m.t, LastBlockOf(m.t))
<1>1. NetInv /\ TypeOK /\ Mode
  BY DEF UploadInv, NetInv, Mode
<1>2. /\ m.t \in Transfer /\ Current(m.t) /\ Begun(m.t) /\ fileIndex # NoFile
      /\ m.k \in Nat /\ m.k >= 1 /\ m.k <= LastBlockOf(m.t) /\ m.block = m.k % Modulus
      /\ latest[m.t] \in Nat /\ latest[m.t] <= m.k /\ m.k <= latest[m.t] + 1
      /\ client[m.t].len \in Nat
  BY <1>1, Arriving
<1>3. Under(m.t)
  BY <1>2 DEF Under
<1>4. /\ lastBlock = latest[m.t] % Modulus /\ ioOffset = At(latest[m.t])
      /\ latest[m.t] < LastBlockOf(m.t) /\ PrefixOK(m.t) /\ RestErased(m.t)
  BY <1>2, <1>3 DEF UploadInv, ProgressOK
<1>5. NextBlock = (latest[m.t] + 1) % Modulus /\ NextBlock # lastBlock
  BY <1>2, <1>4, BlockNumber DEF NextBlock
<1>6. m.k = latest[m.t] \/ m.k = latest[m.t] + 1
  BY <1>2
<1>7. ASSUME m.k = latest[m.t] + 1 PROVE Fits(BlockUnits(m.t, m.k))
  <2>1. PICK n \in 0 .. Full : /\ Len(BlockUnits(m.t, m.k)) = n
                               /\ At(m.k - 1) + n <= client[m.t].len
    BY <1>2, Block
  <2>2. m.k - 1 = latest[m.t]
    BY <1>2, <1>7
  <2>3. ioOffset + n <= client[m.t].len /\ client[m.t].len <= MaxSize
    BY <1>4, <2>1, <2>2 DEF Acceptable
  <2>4. ioOffset \in Nat
    BY <1>2, <1>4, AtBlocks
  <2> QED BY <1>2, <2>1, <2>3, <2>4, Constants DEF Fits
<1>8. ~Acked(m.t, LastBlockOf(m.t))
  <2>1. LastBlockOf(m.t) \in Nat
    BY <1>2, LastBlock
  <2> QED BY <1>1, <1>2, <1>4, <2>1, AckedIsDelivered
<1> QED BY <1>2, <1>3, <1>4, <1>5, <1>6, <1>7, <1>8

\* Data goes to the file of its sender, and is of a transfer that goes on.
LEMMA DataFile ==
  ASSUME UploadInv, InOrder, NEW m \in net, DataArrives(m), HandlePacket(m)
  PROVE  /\ NetInv /\ TypeOK /\ Mode
         /\ Delivered(m) /\ Reply(m) /\ client' = client /\ m.t \in Transfer
         /\ fileIndex = client[m.t].file /\ fileIndex \in File /\ Put(m.t)
         /\ Acceptable(m.t)' => Acceptable(m.t)
<1>1. NetInv /\ TypeOK /\ Mode
  BY DEF UploadInv, NetInv, Mode
<1>2. Delivered(m) /\ Reply(m) /\ client' = client /\ m.t \in Transfer
  BY <1>1, Replies, Delivery
<1>3. Put(m.t) /\ Begun(m.t) /\ client[m.t].file \in File /\ fileIndex # NoFile /\ Current(m.t)
  BY <1>1, Arriving
<1>4. fileIndex = client[m.t].file
  BY <1>2, <1>3 DEF UploadInv, FileOK
<1>5. GoesOn(m.t) /\ client[m.t] # Idle
  <2>1. client[m.t].k \in Nat /\ client[m.t] # Idle
    BY <1>1, <1>2, <1>3, ClientFields DEF Put
  <2> QED BY <1>2, <2>1 DEF GoesOn
<1>6. Acceptable(m.t)' => Acceptable(m.t)
  BY <1>1, <1>5, StepFaults, AcceptableBefore
<1> QED BY <1>1, <1>2, <1>3, <1>4, <1>6

\* A block received again, or out of turn, and one that is too big.
LEMMA OtherDataKeeps ==
  ASSUME UploadInv, InOrder, NEW m \in net,
         AcknowledgeAgain(m) \/ IgnoreData(m) \/ RefuseTooBig(m)
  PROVE  FileOK' /\ ProgressOK' /\ StoredOK'
<1>1. /\ DataArrives(m) /\ HandlePacket(m)
      /\ UNCHANGED <<fileIndex, ioOffset, ioBuf, flash, size, table, faults>>
      /\ \/ m.block = lastBlock /\ lastBlock' = lastBlock
         \/ m.block \notin {lastBlock, NextBlock} /\ UNCHANGED net
         \/ /\ m.block = NextBlock /\ ~Fits(BlockUnits(m.t, m.k)) /\ ReplyERR(m)
  BY DEF HandlePacket, AcknowledgeAgain, IgnoreData, RefuseTooBig, BlockArrives, store
<1>2. /\ NetInv /\ TypeOK /\ Mode
      /\ Delivered(m) /\ Reply(m) /\ client' = client /\ m.t \in Transfer
      /\ fileIndex = client[m.t].file /\ Put(m.t)
      /\ Acceptable(m.t)' => Acceptable(m.t)
  BY <1>1, DataFile
<1>3. \A f : Contents(f)' = Contents(f)
  BY <1>1 DEF Contents, TextOf
<1>4. ASSUME Acceptable(m.t)'
      PROVE  /\ m.block = lastBlock /\ lastBlock' = lastBlock /\ m.k = latest[m.t]
             /\ lastBlock = latest[m.t] % Modulus /\ ioOffset = At(latest[m.t])
             /\ latest[m.t] \in Nat /\ latest[m.t] < LastBlockOf(m.t)
             /\ PrefixOK(m.t) /\ RestErased(m.t) /\ ~Acked(m.t, LastBlockOf(m.t))
  <2>1. Acceptable(m.t)
    BY <1>2, <1>4
  <2> QED BY <1>1, <2>1, FindsPlace
<1>5. ASSUME Acceptable(m.t)'
      PROVE  /\ lastBlock' = m.k % Modulus
             /\ ioOffset' = At(m.k)
             /\ m.k < LastBlockOf(m.t)
             /\ PrefixOK(m.t)' /\ RestErased(m.t)'
  <2>1. PrefixOK(m.t)' /\ RestErased(m.t)'
    BY <1>1, <1>2, <1>4, <1>5 DEF PrefixOK, RestErased, Collected
  <2> QED BY <1>1, <1>4, <1>5, <2>1
<1>6. ASSUME NEW f, NEW b, f = client[m.t].file, b = LastBlockOf(m.t),
             Put(m.t), Acceptable(m.t)', IsNewest(m.t), Acked(m.t, b)'
      PROVE  FALSE
  <2>1. Acked(m.t, b) \/ b = m.k
    BY <1>2, <1>6, AnswersSender
  <2>2. m.k = latest[m.t] /\ m.k \in Nat /\ m.k < b /\ ~Acked(m.t, b)
    BY <1>4, <1>6
  <2> QED BY <2>1, <2>2
<1>7. fileIndex' \in {NoFile, client[m.t].file}
  BY <1>1, <1>2
<1> QED BY <1>1, <1>3, <1>5, <1>6, <1>7, HandledUploads
\* The next block, if its file can be stored.
LEMMA NextArrives ==
  ASSUME UploadInv, InOrder, NEW m \in net, BlockArrives(m), Acceptable(m.t)
  PROVE  \E n \in 0 .. Full :
           /\ BlockUnits(m.t, m.k) = [i \in 1 .. n |-> <<m.t, ioOffset + i - 1>>]
           /\ BlockUnits(m.t, m.k) \in Seq(Unit) /\ Len(BlockUnits(m.t, m.k)) = n
           /\ ioOffset \in Nat /\ ioOffset + n <= client[m.t].len
           /\ client[m.t].len \in Nat /\ client[m.t].len <= MaxSize
           /\ n < Full => m.k = LastBlockOf(m.t) /\ ioOffset + n = client[m.t].len
           /\ n = Full => m.k < LastBlockOf(m.t) /\ ioOffset + n = At(m.k)
           /\ PrefixOK(m.t) /\ RestErased(m.t)
           /\ lastBlock' = m.k % Modulus
           /\ m.k \in Nat /\ LastBlockOf(m.t) \in Nat
           /\ ~Acked(m.t, LastBlockOf(m.t))
<1>1. NetInv /\ Mode /\ DataArrives(m) /\ m.block = NextBlock /\ lastBlock' = m.block
  BY DEF UploadInv, Mode, BlockArrives
<1>2. /\ m.t \in Transfer /\ m.k \in Nat /\ m.k >= 1 /\ m.k <= LastBlockOf(m.t)
      /\ m.block = m.k % Modulus /\ client[m.t].len \in Nat
  BY <1>1, Arriving
<1>3. /\ ioOffset = At(latest[m.t]) /\ latest[m.t] \in Nat /\ m.k = latest[m.t] + 1
      /\ PrefixOK(m.t) /\ RestErased(m.t) /\ ~Acked(m.t, LastBlockOf(m.t))
  BY <1>1, FindsPlace
<1>4. ioOffset = At(m.k - 1) /\ ioOffset \in Nat /\ At(m.k) = ioOffset + Full
  <2>1. m.k - 1 = latest[m.t]
    BY <1>3
  <2> QED BY <1>3, <2>1, AtBlocks
<1>5. PICK n \in 0 .. Full :
        /\ BlockUnits(m.t, m.k) = [i \in 1 .. n |-> <<m.t, At(m.k - 1) + i - 1>>]
        /\ BlockUnits(m.t, m.k) \in Seq(Unit) /\ Len(BlockUnits(m.t, m.k)) = n
        /\ At(m.k - 1) + n <= client[m.t].len
        /\ n < Full <=> m.k = LastBlockOf(m.t)
        /\ n < Full => At(m.k - 1) + n = client[m.t].len
  BY <1>2, Block
<1>6. LastBlockOf(m.t) \in Nat
  BY <1>2, LastBlock
<1>7. n = Full => m.k < LastBlockOf(m.t)
  BY <1>2, <1>5, <1>6
<1>8. client[m.t].len <= MaxSize
  BY DEF Acceptable
<1> QED BY <1>1, <1>2, <1>3, <1>4, <1>5, <1>6, <1>7, <1>8

\* The units of a block are those of the file at its place.
LEMMA BlockAt ==
  ASSUME NEW t, NEW offset \in Nat, NEW n \in Nat, NEW i \in Nat, i >= offset, i < offset + n
  PROVE  [j \in 1 .. n |-> <<t, offset + j - 1>>][i - offset + 1] = <<t, i>>
<1>1. i - offset + 1 \in 1 .. n /\ offset + (i - offset + 1) - 1 = i
  OBVIOUS
<1> QED BY <1>1

\* A file all of which is there is the text.
LEMMA WholeText ==
  ASSUME NEW t, NEW n \in Nat, n = client[t].len, n <= MaxSize, NEW cells,
         \A i \in 0 .. MaxSize - 1 : i < n => cells[i] = <<t, i>>
  PROVE  TextOf(cells, n) = Text(t)
<1>1. \A i \in 1 .. n : cells[i - 1] = <<t, i - 1>>
  BY Constants
<1> QED BY <1>1 DEF TextOf, Text

\* A file stored block by block.
LEMMA StoreKeeps ==
  ASSUME UploadInv, InOrder, NEW m \in net, StoreBlock(m)
  PROVE  FileOK' /\ ProgressOK' /\ StoredOK'
<1> DEFINE units == BlockUnits(m.t, m.k)
<1>1. /\ BlockArrives(m) /\ DataArrives(m) /\ HandlePacket(m) /\ fileIndex \in FlashFile
      /\ flash' = IF units = <<>> THEN flash
                  ELSE [flash EXCEPT ![fileIndex] = Written(flash[fileIndex], ioOffset, units)]
      /\ ioOffset' = ioOffset + Len(units)
      /\ \/ Len(units) >= Full /\ UNCHANGED <<fileIndex, size>>
         \/ /\ Len(units) < Full /\ fileIndex' = NoFile
            /\ \/ size' = [size EXCEPT ![fileIndex] = ioOffset']
               \/ Fault("size")
      /\ UNCHANGED table
  <2>1. ~(Len(units) < Full) => Len(units) >= Full
    <3>1. NetInv /\ Mode /\ DataArrives(m)
      BY DEF UploadInv, Mode, StoreBlock, BlockArrives
    <3>2. Len(units) \in 0 .. Full
      BY <3>1, ArrivingBlock
    <3> QED BY <3>2, Constants
  <2> QED BY <2>1 DEF HandlePacket, StoreBlock, BlockArrives
<1>2. /\ NetInv /\ TypeOK /\ Delivered(m) /\ Reply(m) /\ client' = client /\ m.t \in Transfer
      /\ fileIndex = client[m.t].file /\ fileIndex \in File /\ Put(m.t) /\ Mode
      /\ Acceptable(m.t)' => Acceptable(m.t)
  BY <1>1, DataFile
<1>3. /\ flash \in [FlashFile -> [Range0(MaxSize) -> Unit]] /\ size \in [FlashFile -> 0 .. MaxSize]
      /\ fileIndex \notin TableFile
  BY <1>1, <1>2, Constants DEF TypeOK
<1>4. Fault("size") => Failed("size")'
  <2>1. faults' = faults \/ \E kind : Fault(kind)
    BY <1>1, StepFaults
  <2> QED BY <1>2, <2>1, FailuresStay
<1> HIDE DEF units
<1>5. ASSUME NEW f \in File
      PROVE  \/ Contents(f)' = Contents(f)
             \/ Put(m.t) /\ f = client[m.t].file
             \/ f \in FlashFile /\ Failed("size")'
  <2>1. CASE f \in TableFile
    BY <1>1, <2>1 DEF Contents
  <2>2. CASE f \notin TableFile /\ f # fileIndex
    <3>1. f \in FlashFile /\ flash'[f] = flash[f]
      BY <1>1, <1>3, <2>2 DEF File
    <3>2. size'[f] = size[f] \/ Failed("size")'
      BY <1>1, <1>3, <1>4, <2>2, <3>1
    <3> QED BY <2>2, <3>1, <3>2 DEF Contents
  <2> QED BY <1>2, <2>1, <2>2
<1>6. fileIndex' \in {NoFile, client[m.t].file}
  BY <1>1, <1>2
<1>7. ASSUME Acceptable(m.t)'
      PROVE  /\ fileIndex' # NoFile =>
                  /\ lastBlock' = m.k % Modulus
                  /\ ioOffset' = At(m.k)
                  /\ m.k < LastBlockOf(m.t)
                  /\ PrefixOK(m.t)' /\ RestErased(m.t)'
             /\ \A f, b : f = client[m.t].file /\ b = LastBlockOf(m.t) /\ Acked(m.t, b)'
                          => Contents(f)' = Text(m.t)
  <2>1. Acceptable(m.t)
    BY <1>2, <1>7
  <2>2. PICK n \in 0 .. Full :
           /\ units = [i \in 1 .. n |-> <<m.t, ioOffset + i - 1>>]
           /\ units \in Seq(Unit) /\ Len(units) = n
           /\ ioOffset \in Nat /\ ioOffset + n <= client[m.t].len
           /\ client[m.t].len \in Nat /\ client[m.t].len <= MaxSize
           /\ n < Full => m.k = LastBlockOf(m.t) /\ ioOffset + n = client[m.t].len
           /\ n = Full => m.k < LastBlockOf(m.t) /\ ioOffset + n = At(m.k)
           /\ PrefixOK(m.t) /\ RestErased(m.t)
           /\ lastBlock' = m.k % Modulus
           /\ m.k \in Nat /\ LastBlockOf(m.t) \in Nat
           /\ ~Acked(m.t, LastBlockOf(m.t))
    BY <1>1, <2>1, NextArrives DEF units
  <2>3. PICK cells \in [Range0(MaxSize) -> Unit] : cells = flash[fileIndex]
    BY <1>1, <1>3
  <2>4. PICK w, place : w = flash'[fileIndex] /\ place = ioOffset
    OBVIOUS
  <2>5. place \in Nat /\ n \in Nat /\ place + n <= MaxSize
    BY <2>2, <2>4, Constants
  <2>6. \A i \in 0 .. MaxSize - 1 : i < place => cells[i] = <<m.t, i>>
    BY <1>2, <1>3, <2>2, <2>3, <2>4 DEF PrefixOK, Collected
  <2>7. CASE n = 0
    <3>1. units = <<>> /\ w = cells
      BY <1>1, <2>2, <2>3, <2>4, <2>7
    <3>2. \A i \in 0 .. MaxSize - 1 : i < place + n => w[i] = <<m.t, i>>
      BY <2>5, <2>6, <2>7, <3>1
    <3>3. fileIndex' = NoFile /\ n < Full
      BY <1>1, <2>2, <2>7, Constants
    <3>4. PICK length : length = client[m.t].len
      OBVIOUS
    <3>5. place + n = length /\ length \in Nat /\ length <= MaxSize
      BY <2>2, <2>4, <3>3, <3>4
    <3>6. TextOf(w, length) = Text(m.t)
      BY <3>2, <3>4, <3>5, WholeText
    <3>7. ioOffset' = length
      BY <1>1, <2>2, <2>4, <3>5
    <3>8. size'[fileIndex] = length
      <4>1. ~Failed("size")'
        BY <1>1, <1>2, <1>7 DEF Acceptable
      <4>2. ~(Len(units) >= Full)
        BY <2>2, <3>3, Constants
      <4>3. size' = [size EXCEPT ![fileIndex] = ioOffset']
        BY <1>1, <1>4, <4>1, <4>2, Zenon
      <4> QED BY <1>1, <1>3, <3>7, <4>3
    <3>9. ASSUME NEW f, f = client[m.t].file PROVE Contents(f)' = Text(m.t)
      BY <1>2, <1>3, <2>4, <3>6, <3>8, <3>9 DEF Contents
    <3> QED BY <3>3, <3>9
  <2>8. CASE n # 0
    <3>1. units # <<>>
      BY <2>2, <2>8
    <3>2. w = Written(cells, place, units)
      <4>1. flash' = [flash EXCEPT ![fileIndex] = Written(flash[fileIndex], ioOffset, units)]
        BY <1>1, <3>1
      <4> QED BY <1>1, <1>3, <2>3, <2>4, <4>1
    <3>3. place % Page # 0 =>
            \A i \in 0 .. MaxSize - 1 :
              i >= place /\ i \div Page = place \div Page => cells[i] = Erased
      BY <1>1, <1>2, <2>2, <2>3, <2>4 DEF RestErased
    <3>4. 1 <= n /\ n <= Page
      BY <2>8, Constants
    <3>5. /\ \A i \in 0 .. MaxSize - 1 : i < place => w[i] = cells[i]
          /\ \A i \in 0 .. MaxSize - 1 :
               i >= place /\ i < place + n => w[i] = units[i - place + 1]
          /\ (place + n) % Page # 0 =>
               \A i \in 0 .. MaxSize - 1 :
                 i >= place + n /\ i \div Page = (place + n) \div Page => w[i] = Erased
      <4>1. units \in Seq(Unit) /\ n = Len(units)
        BY <2>2
      <4>2. LET x == Written(cells, place, units) IN
            /\ \A i \in 0 .. MaxSize - 1 : i < place => x[i] = cells[i]
            /\ \A i \in 0 .. MaxSize - 1 :
                 i >= place /\ i < place + n => x[i] = units[i - place + 1]
            /\ (place + n) % Page # 0 =>
                 \A i \in 0 .. MaxSize - 1 :
                   i >= place + n /\ i \div Page = (place + n) \div Page => x[i] = Erased
        BY <2>5, <3>3, <3>4, <4>1, WritesBlock, Zenon
      <4> QED BY <3>2, <4>2, Zenon
    <3>6. \A i \in 0 .. MaxSize - 1 : i < place + n => w[i] = <<m.t, i>>
      <4>1. units = [i \in 1 .. n |-> <<m.t, place + i - 1>>]
        BY <2>2, <2>4
      <4>2. /\ \A i \in 0 .. MaxSize - 1 : i < place => w[i] = cells[i]
            /\ \A i \in 0 .. MaxSize - 1 :
                 i >= place /\ i < place + n => w[i] = units[i - place + 1]
        BY <3>5, Zenon
      <4>3. ASSUME NEW i \in 0 .. MaxSize - 1, i < place + n PROVE w[i] = <<m.t, i>>
        <5>1. CASE i < place
          BY <2>6, <4>2, <5>1
        <5>2. CASE i >= place
          <6>1. w[i] = units[i - place + 1]
            BY <4>2, <4>3, <5>2
          <6>2. i \in Nat
            OBVIOUS
          <6>3. [j \in 1 .. n |-> <<m.t, place + j - 1>>][i - place + 1] = <<m.t, i>>
            BY <2>5, <4>3, <5>2, <6>2, BlockAt
          <6> QED BY <4>1, <6>1, <6>3
        <5> QED BY <2>5, <5>1, <5>2
      <4> QED BY <4>3
    <3>7. ioOffset' = place + n
      BY <1>1, <2>2, <2>4
    <3>8. CASE n = Full
      <4>1. ~(n < Full) /\ fileIndex' = fileIndex
        BY <1>1, <2>2, <3>8, Constants
      <4>2. PrefixOK(m.t)'
        BY <1>2, <1>3, <2>4, <3>6, <3>7 DEF PrefixOK, Collected
      <4>3. RestErased(m.t)'
        BY <1>2, <2>4, <3>5, <3>7 DEF RestErased
      <4>4. lastBlock' = m.k % Modulus /\ ioOffset' = At(m.k) /\ m.k < LastBlockOf(m.t)
        BY <2>2, <2>4, <3>7, <3>8
      <4>5. ASSUME NEW b, b = LastBlockOf(m.t), Acked(m.t, b)' PROVE FALSE
        <5>1. Acked(m.t, b) \/ b = m.k
          BY <1>2, <4>5, AnswersSender
        <5> QED BY <2>2, <4>4, <4>5, <5>1
      <4> QED BY <4>2, <4>3, <4>4, <4>5
    <3>9. CASE n # Full
      <4>1. fileIndex' = NoFile /\ n < Full
        BY <1>1, <2>2, <3>9, Constants
      <4>2. PICK length : length = client[m.t].len
        OBVIOUS
      <4>3. place + n = length /\ length \in Nat /\ length <= MaxSize
        BY <2>2, <2>4, <4>1, <4>2
      <4>4. TextOf(w, length) = Text(m.t)
        BY <3>6, <4>2, <4>3, WholeText
      <4>5. size'[fileIndex] = length
        <5>1. ~Failed("size")'
          BY <1>1, <1>2, <1>7 DEF Acceptable
        <5>2. ~(Len(units) >= Full)
          BY <2>2, <4>1, Constants
        <5>3. size' = [size EXCEPT ![fileIndex] = ioOffset']
          BY <1>1, <1>4, <5>1, <5>2, Zenon
        <5> QED BY <1>1, <1>3, <3>7, <4>3, <5>3
      <4>6. ASSUME NEW f, f = client[m.t].file PROVE Contents(f)' = Text(m.t)
        BY <1>2, <1>3, <2>4, <4>4, <4>5, <4>6 DEF Contents
      <4> QED BY <4>1, <4>6
    <3> QED BY <3>8, <3>9
  <2> QED BY <2>7, <2>8
<1> QED BY <1>1, <1>5, <1>6, <1>7, HandledUploads
\* A table collected so far, with the block that arrives.
LEMMA TableJoins ==
  ASSUME UploadInv, InOrder, NEW m \in net, BlockArrives(m), Acceptable(m.t),
         fileIndex \in TableFile, client[m.t].file = fileIndex
  PROVE  \A i \in 0 .. MaxSize - 1 :
           i < ioOffset + Len(BlockUnits(m.t, m.k)) =>
             Copied(ioBuf, ioOffset, BlockUnits(m.t, m.k))[i] = <<m.t, i>>
<1> DEFINE units == BlockUnits(m.t, m.k)
<1>1. PICK n \in 0 .. Full :
         /\ units = [i \in 1 .. n |-> <<m.t, ioOffset + i - 1>>]
         /\ units \in Seq(Unit) /\ Len(units) = n
         /\ ioOffset \in Nat /\ PrefixOK(m.t)
  BY NextArrives
<1> HIDE DEF units
<1>2. PICK place \in Nat, cells \in [Range0(MaxSize) -> Unit] : place = ioOffset /\ cells = ioBuf
  BY <1>1 DEF UploadInv, NetInv, TypeOK
<1>3. n \in Nat
  BY Constants
<1>4. PICK w : w = Copied(cells, place, units)
  OBVIOUS
<1>5. /\ \A i \in 0 .. MaxSize - 1 : i < place => w[i] = cells[i]
      /\ \A i \in 0 .. MaxSize - 1 :
           i >= place /\ i < place + n => w[i] = units[i - place + 1]
  <2>1. units \in Seq(Unit) /\ n = Len(units)
    BY <1>1
  <2>2. LET x == Copied(cells, place, units) IN
        /\ \A i \in 0 .. MaxSize - 1 : i < place => x[i] = cells[i]
        /\ \A i \in 0 .. MaxSize - 1 :
             i >= place /\ i < place + n => x[i] = units[i - place + 1]
    BY <1>3, <2>1, CopiesBlock, Zenon
  <2> QED BY <1>4, <2>2, Zenon
<1>6. ASSUME NEW i \in 0 .. MaxSize - 1, i < place + n PROVE w[i] = <<m.t, i>>
  <2>1. CASE i < place
    <3>1. cells[i] = <<m.t, i>>
      BY <1>1, <1>2, <2>1 DEF PrefixOK, Collected
    <3> QED BY <1>5, <2>1, <3>1
  <2>2. CASE i >= place
    <3>1. w[i] = units[i - place + 1]
      BY <1>5, <1>6, <2>2
    <3>2. i \in Nat
      OBVIOUS
    <3>3. [j \in 1 .. n |-> <<m.t, place + j - 1>>][i - place + 1] = <<m.t, i>>
      BY <1>3, <1>6, <2>2, <3>2, BlockAt
    <3>4. units = [j \in 1 .. n |-> <<m.t, place + j - 1>>]
      BY <1>1, <1>2
    <3> QED BY <3>1, <3>3, <3>4
  <2> QED BY <1>2, <2>1, <2>2
<1> QED BY <1>1, <1>2, <1>4, <1>6 DEF units

\* A block that cannot be stored ends the transfer.
LEMMA StoreFailureKeeps ==
  ASSUME UploadInv, InOrder, NEW m \in net, StoreBlockFails(m)
  PROVE  FileOK' /\ ProgressOK' /\ StoredOK'
<1>1. /\ DataArrives(m) /\ HandlePacket(m) /\ fileIndex \in FlashFile /\ fileIndex' = NoFile
      /\ \E e : flash' \in {flash, [flash EXCEPT ![fileIndex] = e]}
      /\ UNCHANGED <<size, table>> /\ ReplyERR(m)
  BY DEF HandlePacket, StoreBlockFails, BlockArrives
<1>2. /\ NetInv /\ TypeOK /\ Delivered(m) /\ Reply(m) /\ client' = client /\ m.t \in Transfer
      /\ fileIndex = client[m.t].file /\ fileIndex \in File /\ Put(m.t)
      /\ Acceptable(m.t)' => Acceptable(m.t)
  BY <1>1, DataFile
<1>3. ASSUME NEW f \in File, f # client[m.t].file
      PROVE  Contents(f)' = Contents(f)
  <2>1. CASE f \in TableFile
    BY <1>1, <2>1 DEF Contents
  <2>2. CASE f \notin TableFile
    <3>1. f \in FlashFile /\ flash'[f] = flash[f]
      BY <1>1, <1>2, <1>3, <2>2 DEF File, TypeOK
    <3> QED BY <1>1, <2>2, <3>1 DEF Contents
  <2> QED BY <2>1, <2>2
<1>4. ASSUME NEW b, b = LastBlockOf(m.t), Acceptable(m.t)', Acked(m.t, b)'
      PROVE  FALSE
  <2>1. Acked(m.t, b)
    BY <1>1, <1>4 DEF ReplyERR, Sent, ToClient, Acked, Answers
  <2> QED BY <1>1, <1>2, <1>4, <2>1, FindsPlace
<1> QED BY <1>1, <1>2, <1>3, <1>4, HandledUploads

\* A block of a table is collected.
LEMMA CollectKeeps ==
  ASSUME UploadInv, InOrder, NEW m \in net, CollectBlock(m)
  PROVE  FileOK' /\ ProgressOK' /\ StoredOK'
<1> DEFINE units == BlockUnits(m.t, m.k)
<1>1. /\ BlockArrives(m) /\ DataArrives(m) /\ HandlePacket(m) /\ fileIndex \in TableFile
      /\ fileIndex' = fileIndex /\ Len(units) = Full
      /\ ioBuf' = Copied(ioBuf, ioOffset, units) /\ ioOffset' = ioOffset + Full
      /\ UNCHANGED <<flash, size, table>>
  BY DEF HandlePacket, CollectBlock, BlockArrives, store
<1>2. /\ NetInv /\ Mode /\ Delivered(m) /\ Reply(m) /\ client' = client /\ m.t \in Transfer
      /\ fileIndex = client[m.t].file /\ fileIndex \in File /\ Put(m.t)
      /\ Acceptable(m.t)' => Acceptable(m.t)
  BY <1>1, DataFile
<1>3. \A f : Contents(f)' = Contents(f)
  BY <1>1 DEF Contents, TextOf
<1>4. ASSUME Acceptable(m.t)'
      PROVE  /\ lastBlock' = m.k % Modulus /\ ioOffset' = At(m.k) /\ m.k < LastBlockOf(m.t)
             /\ m.k \in Nat /\ LastBlockOf(m.t) \in Nat /\ ~Acked(m.t, LastBlockOf(m.t))
             /\ PrefixOK(m.t)' /\ RestErased(m.t)'
  <2>1. Acceptable(m.t)
    BY <1>2, <1>4
  <2>2. PICK n \in 0 .. Full :
           /\ Len(units) = n /\ lastBlock' = m.k % Modulus
           /\ n = Full => m.k < LastBlockOf(m.t) /\ ioOffset + n = At(m.k)
           /\ m.k \in Nat /\ LastBlockOf(m.t) \in Nat /\ ~Acked(m.t, LastBlockOf(m.t))
    BY <1>1, <2>1, NextArrives
  <2>3. ioOffset' = At(m.k) /\ ioOffset' = ioOffset + Len(units) /\ m.k < LastBlockOf(m.t)
    BY <1>1, <2>2
  <2>4. \A i \in 0 .. MaxSize - 1 : i < ioOffset + Len(units) => ioBuf'[i] = <<m.t, i>>
    BY <1>1, <1>2, <2>1, TableJoins
  <2>5. PrefixOK(m.t)'
    BY <1>1, <1>2, <2>3, <2>4 DEF PrefixOK, Collected
  <2>6. RestErased(m.t)'
    BY <1>1, <1>2, Constants DEF RestErased
  <2> QED BY <2>2, <2>3, <2>5, <2>6
<1>5. ASSUME NEW b, b = LastBlockOf(m.t), Acceptable(m.t)', Acked(m.t, b)'
      PROVE  FALSE
  <2>1. Acked(m.t, b) \/ b = m.k
    BY <1>2, <1>5, AnswersSender
  <2> QED BY <1>4, <1>5, <2>1
<1> QED BY <1>1, <1>2, <1>3, <1>4, <1>5, HandledUploads

\* The table is complete.
LEMMA FinishKeeps ==
  ASSUME UploadInv, InOrder, NEW m \in net, FinishTable(m)
  PROVE  FileOK' /\ ProgressOK' /\ StoredOK'
<1> DEFINE units == BlockUnits(m.t, m.k)
           buf   == Copied(ioBuf, ioOffset, units)
           text  == TextOf(buf, ioOffset + Len(units))
<1>1. /\ BlockArrives(m) /\ DataArrives(m) /\ HandlePacket(m) /\ fileIndex \in TableFile
      /\ Len(units) < Full
      /\ \/ /\ WellFormed(text) /\ table' = [table EXCEPT ![fileIndex] = text] /\ fileIndex' = NoFile
         \/ /\ ~WellFormed(text) \/ Fault("write")
            /\ UNCHANGED <<fileIndex, table>> /\ ReplyERR(m)
      /\ UNCHANGED <<flash, size>>
  BY DEF HandlePacket, FinishTable, BlockArrives
<1>2. /\ NetInv /\ TypeOK /\ Mode /\ Delivered(m) /\ Reply(m) /\ client' = client
      /\ m.t \in Transfer
      /\ fileIndex = client[m.t].file /\ fileIndex \in File /\ Put(m.t)
      /\ Acceptable(m.t)' => Acceptable(m.t)
  BY <1>1, DataFile
<1>3. ASSUME NEW f \in File, f # client[m.t].file
      PROVE  Contents(f)' = Contents(f)
  <2>1. CASE f \in TableFile
    <3>1. table'[f] = table[f]
      BY <1>1, <1>2, <1>3, <2>1 DEF TypeOK
    <3> QED BY <2>1, <3>1 DEF Contents
  <2>2. CASE f \notin TableFile
    BY <1>1, <2>2 DEF Contents, TextOf
  <2> QED BY <2>1, <2>2
<1> HIDE DEF units
<1>4. ASSUME Acceptable(m.t)'
      PROVE  /\ text = Text(m.t) /\ fileIndex' = NoFile
             /\ table' = [table EXCEPT ![fileIndex] = text]
  <2>1. Acceptable(m.t)
    BY <1>2, <1>4
  <2>2. PICK n \in 0 .. Full :
           /\ Len(units) = n
           /\ n < Full => ioOffset + n = client[m.t].len
           /\ client[m.t].len \in Nat /\ client[m.t].len <= MaxSize
    BY <1>1, <2>1, NextArrives DEF units
  <2>3. PICK length \in Nat : /\ length = client[m.t].len /\ length <= MaxSize
                              /\ ioOffset + Len(units) = length
    BY <1>1, <2>2
  <2>4. \A i \in 0 .. MaxSize - 1 : i < length => buf[i] = <<m.t, i>>
    BY <1>1, <1>2, <2>1, <2>3, TableJoins DEF units
  <2> HIDE DEF buf
  <2>5. PICK cells : cells = buf
    OBVIOUS
  <2>6. TextOf(cells, length) = Text(m.t)
    BY <2>3, <2>4, <2>5, WholeText
  <2>7. text = Text(m.t)
    BY <2>3, <2>5, <2>6
  <2>8. client[m.t] # Idle /\ client[m.t].op = "put" /\ client[m.t].valid
    BY <1>1, <1>2, <2>1 DEF Put, Acceptable
  <2>9. WellFormed(text)
    BY <1>2, <2>7, <2>8 DEF WellFormed
  <2>10. ~Fault("write")
    <3>1. ~Failed("write")'
      BY <1>1, <1>2, <1>4 DEF Acceptable
    <3>2. faults' = faults \/ \E kind : Fault(kind)
      BY <1>1, StepFaults
    <3> QED BY <1>2, <3>1, <3>2, FailuresStay
  <2> HIDE DEF text
  <2> QED BY <1>1, <2>7, <2>9, <2>10
<1> HIDE DEF text, buf
<1>5. ASSUME NEW f, f = client[m.t].file, Acceptable(m.t)' PROVE Contents(f)' = Text(m.t)
  <2>1. table' = [table EXCEPT ![fileIndex] = text] /\ text = Text(m.t)
    BY <1>4, <1>5
  <2>2. table'[f] = Text(m.t) /\ f \in TableFile
    BY <1>1, <1>2, <1>5, <2>1 DEF TypeOK
  <2> QED BY <2>2 DEF Contents
<1>6. fileIndex' \in {NoFile, client[m.t].file}
  BY <1>1, <1>2
<1>7. HandlePacket(m)
  BY <1>1
<1>8. ~(fileIndex' # NoFile /\ Acceptable(m.t)')
  BY <1>4
<1>9. \A f \in File : Contents(f)' = Contents(f) \/ (Put(m.t) /\ f = client[m.t].file)
  BY <1>2, <1>3
<1> QED BY <1>5, <1>6, <1>7, <1>8, <1>9, HandledUploads

\* Every step keeps the invariant of uploads.
LEMMA UploadKeeps ==
  ASSUME UploadInv, InOrder, [Next]_vars PROVE UploadInv'
<1>1. NetInv /\ Mode
  BY DEF UploadInv, Mode
<1>2. NetInv'
  BY <1>1, NetKeeps
<1>3. ASSUME NEW m \in net, HandlePacket(m) PROVE FileOK' /\ ProgressOK' /\ StoredOK'
  BY <1>3, ReadsKeepUploads, BeginsUpload, OtherDataKeeps, StoreKeeps, StoreFailureKeeps,
     CollectKeeps, FinishKeeps DEF HandlePacket
<1>4. CASE Clients \/ TimePasses \/ PowerFails
  BY <1>1, <1>2, <1>4, OthersKeepUploads DEF UploadInv
<1>5. CASE UNCHANGED vars
  <2>1. UNCHANGED <<fileIndex, ioOffset, bytesLeft, lastBlock, lastSend, ioPtr, recent, ioBuf,
                    flash, size, table, client, net, latest, faults>>
    BY <1>5 DEF vars, server, store
  <2>2. \A u \in Transfer : GoesOn(u)
    <3>1. \A u \in Transfer : client[u] # Idle => client[u].k \in Nat
      BY <1>1, ClientFields DEF NetInv
    <3> QED BY <2>1, <3>1 DEF GoesOn
  <2>3. \A t \in Transfer : Begun(t)' => Begun(t)
    BY <2>1 DEF Begun, Answers
  <2>4. \A t \in Transfer : \A k : Acked(t, k)' => Acked(t, k)
    BY <2>1 DEF Acked, Answers
  <2>5. faults' = faults /\ UNCHANGED <<flash, size, table, latest>>
        /\ UNCHANGED <<fileIndex, ioOffset, lastBlock, ioBuf>>
    BY <2>1
  <2> QED BY <1>2, <2>2, <2>3, <2>4, <2>5, UploadsStay DEF UploadInv
<1> QED BY <1>2, <1>3, <1>4, <1>5 DEF Next, UploadInv

\* If packets keep their order, a client whose upload ended well has its file
\* stored, byte for byte and with its size, until another upload of the same
\* file is started: for files and sizes, blocks, pages and block numbers of any
\* kind, repeated requests and blocks, clients that give up, and failures
\* (tftp.c, linearFlash.c).
THEOREM TftpUploads ==
  ASSUME InOrder PROVE Spec => []UploadStored
<1>1. Init => UploadInv
  <2>1. SUFFICES ASSUME Init PROVE UploadInv
    OBVIOUS
  <2>2. NetInv
    BY <2>1, InitNet
  <2>3. net = {} /\ \A t \in Transfer : client[t] = Idle
    BY <2>1 DEF Init
  <2>4. FileOK /\ ProgressOK /\ StoredOK
    BY <2>3 DEF FileOK, ProgressOK, StoredOK, Under, Begun, Put
  <2> QED BY <2>2, <2>4 DEF UploadInv
<1>2. UploadInv /\ [Next]_vars => UploadInv'
  BY UploadKeeps
<1>3. UploadInv => UploadStored
  <2>1. SUFFICES ASSUME UploadInv, NEW t \in Transfer, UploadDone(t), IsNewest(t), Acceptable(t)
                 PROVE  Contents(client[t].file) = Text(t)
    BY DEF UploadStored
  <2>2. Put(t) /\ Acked(t, LastBlockOf(t))
    BY <2>1 DEF UploadDone, Put, UploadInv, NetInv, HeardOK
  <2> QED BY <2>1, <2>2 DEF UploadInv, StoredOK
<1> QED BY <1>1, <1>2, <1>3, PTL DEF Spec
(***************************************************************************)
(* Downloads                                                               *)
(***************************************************************************)
\* Who has been sent data, has asked for a file.
LEMMA ServedFile ==
  ASSUME NetInv, NEW t \in Transfer, Served(t)
  PROVE  Get(t) /\ ~Put(t) /\ client[t] # Idle /\ client[t].file \in File /\ latest[t] \in Nat
<1>1. PICK p \in net : Answers(p, "DATA", t)
  BY DEF Served
<1>2. DownOK(p) /\ p.t = t /\ p.type = "DATA"
  BY <1>1 DEF NetInv, NetOK, UpOK, Answers
<1>3. latest[t] \in Nat
  <2>1. latest[t] \in Nat \cup {-1} /\ latest[t] >= 0
    BY <1>2 DEF NetInv, TypeOK, DownOK
  <2> QED BY <2>1
<1> QED BY <1>2, <1>3 DEF DownOK, Get, Put

\* What a file holds.
LEMMA ContentsType ==
  ASSUME TypeOK, NEW f \in File
  PROVE  /\ Contents(f) \in Seq(Unit) /\ FileLen(f) \in 0 .. MaxSize
         /\ f \in TableFile => Contents(f) = table[f] /\ FileLen(f) = Len(table[f])
         /\ f \notin TableFile =>
              /\ f \in FlashFile /\ FileLen(f) = size[f]
              /\ \A i \in 1 .. size[f] : Contents(f)[i] = flash[f][i - 1]
<1>1. CASE f \in TableFile
  BY <1>1, TableType DEF Contents, FileLen
<1>2. CASE f \notin TableFile
  <2>1. f \in FlashFile /\ size[f] \in 0 .. MaxSize /\ flash[f] \in [Range0(MaxSize) -> Unit]
    BY <1>2 DEF File, TypeOK
  <2>2. PICK n \in Nat : n = size[f] /\ n <= MaxSize
    BY <2>1, Constants
  <2>3. Contents(f) = [i \in 1 .. n |-> flash[f][i - 1]]
    BY <1>2, <2>2 DEF Contents, TextOf
  <2>4. \A i \in 1 .. n : flash[f][i - 1] \in Unit
    <3>1. \A i \in 1 .. n : i - 1 \in Range0(MaxSize)
      BY <2>2, Constants DEF Range0
    <3> QED BY <2>1, <3>1
  <2>5. Contents(f) \in Seq(Unit) /\ Len(Contents(f)) = n
    BY <2>3, <2>4
  <2> QED BY <1>2, <2>1, <2>2, <2>3, <2>5 DEF FileLen
<1> QED BY <1>1, <1>2

\* The contents stay while nothing is stored.
LEMMA ContentsStay ==
  ASSUME UNCHANGED <<flash, size, table>>, NEW f
  PROVE  /\ Contents(f)' = Contents(f) /\ FileLen(f)' = FileLen(f)
         /\ \A k : FileBlock(f, k)' = FileBlock(f, k)
<1>1. Contents(f)' = Contents(f)
  BY DEF Contents, TextOf
<1> QED BY <1>1 DEF FileLen, FileBlock, At

\* While a client is being sent a file, no other packet is delivered, but
\* acknowledgements.
LEMMA OnlySender ==
  ASSUME NetInv, Mode, NEW m \in net, Delivered(m), InOrder \/ m.type \in Request,
         NEW t \in Transfer, Sending(t)
  PROVE  t = m.t
<1>1. /\ m.t \in Transfer /\ client[m.t] # Idle
      /\ \A u \in Transfer : u > m.t => latest[u] = -1
  BY Delivery, UpPacket
<1>2. latest[t] # -1
  BY ServedFile DEF Sending
<1>3. ~(t > m.t)
  BY <1>1, <1>2
<1>4. ~(t < m.t)
  BY <1>1 DEF Sending, NetInv, TurnsOK
<1> QED BY <1>1, <1>3, <1>4, TransferIsInt

\* The server reads from the file.
LEMMA ReadsFile ==
  ASSUME TypeOK, NEW f \in File, SourceOf(f)
  PROVE  \A i \in 1 .. FileLen(f) : Source[i - 1] = Contents(f)[i]
<1>1. CASE f \in TableFile
  BY <1>1, ContentsType DEF SourceOf, Source
<1>2. CASE f \notin TableFile
  <2>1. ioPtr = f /\ f # "ioBuf"
    BY <1>2, Names DEF SourceOf
  <2>2. Source = flash[f]
    BY <2>1 DEF Source
  <2> QED BY <1>2, <2>2, ContentsType
<1> QED BY <1>1, <1>2

\* The invariant of downloads, while clients do not go on and no file changes.
LEMMA DownloadsStay ==
  ASSUME DownloadInv, UNCHANGED <<client, flash, size, table>>, net \subseteq net',
         NetInv',
         \A p \in net' : p.dir = "down" /\ p.type = "DATA" /\ p \notin net /\ Active(p.t) /\ p.k > 0 =>
           At(p.k - 1) <= FileLen(client[p.t].file) /\ p.units = FileBlock(client[p.t].file, p.k)
  PROVE  GotFew' /\ DataOK' /\ GotOK' /\ NothingYet'
<1>1. \A t : (Active(t)' <=> Active(t)) /\ (Get(t)' <=> Get(t))
  BY DEF Active, Get
<1>2. GotFew'
  BY <1>1 DEF DownloadInv, GotFew
<1>3. DataOK'
  <2>1. SUFFICES ASSUME NEW p \in net', p.dir = "down", p.type = "DATA", Active(p.t)', p.k > 0
                 PROVE  /\ At(p.k - 1)' <= FileLen(client[p.t].file)'
                        /\ p.units = FileBlock(client[p.t].file, p.k)'
    BY DEF DataOK
  <2>2. PICK f, q : f = client[p.t].file /\ q = p.k
    OBVIOUS
  <2>3. At(p.k - 1) <= FileLen(f) /\ p.units = FileBlock(f, q)
    BY <1>1, <2>1, <2>2 DEF DownloadInv, DataOK
  <2>4. FileLen(f)' = FileLen(f) /\ FileBlock(f, q)' = FileBlock(f, q)
    BY ContentsStay
  <2>5. FileLen(client[p.t].file)' = FileLen(f)' /\ FileBlock(client[p.t].file, p.k)' = FileBlock(f, q)'
    BY <2>2
  <2> QED BY <2>3, <2>4, <2>5 DEF At
<1>4. ASSUME NEW t \in Transfer, Active(t), Get(t), ~Served(t)
      PROVE  client[t].k = 0 /\ client[t].got = <<>>
  BY <1>4 DEF DownloadInv, NothingYet
<1>5. NothingYet'
  <2>1. \A t \in Transfer : Served(t) => Served(t)'
    BY SentStays
  <2> QED BY <1>1, <1>4, <2>1 DEF NothingYet
<1>6. GotOK'
  <2>1. SUFFICES ASSUME NEW t \in Transfer, Sending(t)' PROVE GotOf(t, client[t].file)'
    BY DEF GotOK
  <2>2. PICK f : f = client[t].file
    OBVIOUS
  <2>3. Active(t) /\ Get(t)
    BY <1>1, <2>1 DEF Sending
  <2>4. GotOf(t, f)
    <3>1. CASE Served(t)
      BY <2>2, <2>3, <3>1 DEF DownloadInv, GotOK, Sending
    <3>2. CASE ~Served(t)
      <4>1. client[t].k = 0 /\ client[t].got = <<>>
        BY <1>4, <2>3, <3>2
      <4>2. PICK p \in net' : Answers(p, "DATA", t)
        BY <2>1 DEF Sending, Served
      <4>3. DownOK(p)'
        BY <4>2 DEF NetInv, NetOK, UpOK, Answers
      <4>4. f \in File
        BY <2>2, <4>2, <4>3 DEF DownOK, Answers
      <4>5. At(client[t].k) = 0 /\ FileLen(f) \in 0 .. MaxSize
        BY <4>1, <4>4, AtBlocks, ContentsType DEF DownloadInv, NetInv
      <4> QED BY <4>1, <4>5, Constants DEF GotOf
    <3> QED BY <3>1, <3>2
  <2>5. GotOf(t, f)' <=> GotOf(t, f)
    BY ContentsStay DEF GotOf, At
  <2>6. GotOf(t, f)' => GotOf(t, client[t].file)'
    BY <2>2
  <2> QED BY <2>4, <2>5, <2>6
<1> QED BY <1>2, <1>3, <1>5, <1>6
\* An upload is handled while no client is being sent a file.
LEMMA UploadsAlone ==
  ASSUME DownloadInv, Mode, NEW m \in net, HandlePacket(m), Put(m.t), NetInv'
  PROVE  GotFew' /\ DataOK' /\ GotOK' /\ NothingYet' /\ SourceOK'
<1>1. NetInv /\ Delivered(m) /\ Reply(m)
  BY Replies DEF DownloadInv
<1>2. client' = client /\ m.t \in Transfer /\ InOrder
  BY <1>1, Delivery DEF Put, Mode, NetInv, OpsOK
<1>3. \A q \in net' : q.type = "DATA" /\ q.dir = "down" => q \in net
  <2>1. ~Get(m.t)
    BY DEF Put, Get
  <2>2. \A q : q = ToClient(m.t, "ERR", 0, 0, <<>>) \/ q = ToClient(m.t, "ACK", m.k % Modulus, m.k, <<>>)
               => q.type # "DATA"
    BY DEF ToClient
  <2> QED BY <1>1, <2>1, <2>2 DEF Reply, Sent
<1>4. \A t \in Transfer : Served(t)' => Served(t)
  BY <1>3 DEF Served, Answers
<1>5. \A t \in Transfer : ~Sending(t)
  <2>1. \A t \in Transfer : Sending(t) => t = m.t
    BY <1>1, <1>2, OnlySender
  <2>2. ~Get(m.t)
    BY DEF Put, Get
  <2> QED BY <2>1, <2>2 DEF Sending
<1>6. \A t \in Transfer : ~Sending(t)'
  BY <1>2, <1>4, <1>5 DEF Sending, Active, Get
<1>7. GotOK' /\ SourceOK'
  BY <1>6 DEF GotOK, SourceOK
<1>8. GotFew'
  BY <1>2 DEF DownloadInv, GotFew, Get
<1>9. NothingYet'
  <2>1. net \subseteq net'
    BY <1>1 DEF Reply, Sent
  <2>2. \A t \in Transfer : Served(t) => Served(t)'
    BY <2>1, SentStays
  <2> QED BY <1>2, <2>2 DEF DownloadInv, NothingYet, Active, Get
<1>10. DataOK'
  <2>1. ASSUME NEW p \in net', p.dir = "down", p.type = "DATA", Active(p.t)'
        PROVE  FALSE
    <3>1. DownOK(p)'
      BY <2>1 DEF NetInv, NetOK, UpOK
    <3>2. p.t \in Transfer /\ Get(p.t)' /\ Served(p.t)'
      BY <2>1, <3>1 DEF DownOK, Get, Served, Answers
    <3> QED BY <1>6, <2>1, <3>2 DEF Sending
  <2> QED BY <2>1 DEF DataOK
<1> QED BY <1>7, <1>8, <1>9, <1>10

\* A block goes out, if one does, as it is in the file.
LEMMA GoesOut ==
  ASSUME TypeOK, NEW m, NEW f \in File, NEW cells \in [Range0(MaxSize) -> Unit],
         NEW offset \in Nat, NEW left \in Nat, NEW block \in Nat,
         SendBlock(m, block, offset, left, cells),
         block > 0 => offset = At(block - 1), offset + left = FileLen(f),
         \A i \in 1 .. FileLen(f) : cells[i - 1] = Contents(f)[i]
  PROVE  /\ lastSend' \in {0, Smaller(left, Full)}
         /\ net \subseteq net'
         /\ \A p \in net' : p \notin net /\ p.k > 0 =>
              At(p.k - 1) <= FileLen(f) /\ p.units = FileBlock(f, p.k)
<1> DEFINE units == [i \in 1 .. Smaller(left, Full) |->
                       IF offset + i - 1 \in DOMAIN cells THEN cells[offset + i - 1] ELSE Garbled]
<1>1. \/ lastSend' = Smaller(left, Full) /\ Sent(ToClient(m.t, "DATA", block, block, units))
      \/ lastSend' = 0 /\ net' = net
  BY DEF SendBlock
<1>2. block > 0 => At(block - 1) <= FileLen(f) /\ units = FileBlock(f, block)
  <2>1. SUFFICES ASSUME block > 0
                 PROVE  At(block - 1) <= FileLen(f) /\ units = FileBlock(f, block)
    OBVIOUS
  <2>2. offset = At(block - 1)
    BY <2>1
  <2> HIDE DEF units
  <2>3. PICK length \in 0 .. MaxSize : length = FileLen(f)
    BY ContentsType
  <2>4. At(block - 1) <= FileLen(f) /\ length - offset = left
    BY <2>2, <2>3
  <2>5. PICK n \in Nat : n = Smaller(left, Full) /\ n <= left
    BY Constants DEF Smaller
  <2>6. FileBlock(f, block) = [i \in 1 .. n |-> Contents(f)[offset + i]]
    BY <2>2, <2>3, <2>4, <2>5 DEF FileBlock
  <2>7. ASSUME NEW i \in 1 .. n
        PROVE  offset + i - 1 \in DOMAIN cells /\ cells[offset + i - 1] = Contents(f)[offset + i]
    <3>1. PICK j \in 1 .. length : j = offset + i
      <4>1. 1 <= i /\ i <= left /\ i \in Nat
        BY <2>5
      <4>2. offset + i \in 1 .. length
        <5>1. length \in Nat
          BY Constants
        <5> QED BY <2>4, <4>1, <5>1
      <4> QED BY <4>2
    <3>2. j - 1 \in Range0(MaxSize) /\ offset + i - 1 = j - 1
      BY <3>1, Constants DEF Range0
    <3>3. cells[j - 1] = Contents(f)[j]
      BY <2>3
    <3> QED BY <3>1, <3>2, <3>3
  <2>8. units = [i \in 1 .. n |->
                   IF offset + i - 1 \in DOMAIN cells THEN cells[offset + i - 1] ELSE Garbled]
    BY <2>5 DEF units
  <2>9. units = FileBlock(f, block)
    <3>1. \A i \in 1 .. n :
            (IF offset + i - 1 \in DOMAIN cells THEN cells[offset + i - 1] ELSE Garbled) =
            Contents(f)[offset + i]
      BY <2>7
    <3> QED BY <2>6, <2>8, <3>1, Zenon
  <2> QED BY <2>4, <2>9
<1> HIDE DEF units
<1>3. ASSUME NEW p \in net', p \notin net, p.k > 0
      PROVE  At(p.k - 1) <= FileLen(f) /\ p.units = FileBlock(f, p.k)
  <2>1. p = ToClient(m.t, "DATA", block, block, units)
    BY <1>1, <1>3 DEF Sent
  <2>2. p.k = block /\ p.units = units
    BY <2>1 DEF ToClient
  <2> QED BY <1>2, <1>3, <2>2
<1>4. lastSend' \in {0, Smaller(left, Full)} /\ net \subseteq net'
  BY <1>1 DEF Sent
<1> QED BY <1>3, <1>4

\* A download begins, or begins again.
LEMMA BeginningKeeps ==
  ASSUME DownloadInv, Mode, NEW m \in net, BeginDownload(m), NetInv'
  PROVE  GotFew' /\ DataOK' /\ GotOK' /\ NothingYet' /\ SourceOK'
<1> DEFINE file == client[m.t].file
<1>1. NetInv /\ TypeOK /\ HandlePacket(m)
  BY DEF DownloadInv, NetInv, HandlePacket
<1>2. /\ Delivered(m) /\ m.type = "RRQ" /\ Get(m.t) /\ file \in File
      /\ fileIndex' = file /\ ioOffset' = 0 /\ lastBlock' = 1
      /\ bytesLeft' = (IF file \in TableFile THEN Len(table[file]) ELSE size[file])
      /\ bytesLeft' \in 0 .. MaxSize
      /\ ioPtr' = IF file \in TableFile THEN "ioBuf" ELSE file
      /\ ioBuf' = IF file \in TableFile THEN Copied(ioBuf, 0, table[file]) ELSE ioBuf
      /\ ioBuf' \in [Range0(MaxSize) -> Unit]
      /\ (IF file \in TableFile THEN ioBuf' ELSE flash[file]) \in [Range0(MaxSize) -> Unit]
      /\ SendBlock(m, 1, 0, bytesLeft', IF file \in TableFile THEN ioBuf' ELSE flash[file])
      /\ UNCHANGED <<recent, flash, size, table>>
  BY <1>1, Beginning
<1>3. client' = client /\ m.t \in Transfer
  BY <1>1, <1>2, Delivery
<1>4. PICK f \in File, left \in Nat, cells \in [Range0(MaxSize) -> Unit] :
        /\ f = file /\ left = bytesLeft'
        /\ cells = IF file \in TableFile THEN ioBuf' ELSE flash[file]
  BY <1>2, Constants
<1>5. SendBlock(m, 1, 0, left, cells)
  BY <1>2, <1>4
<1>6. FileLen(f) = left /\ 0 + left = FileLen(f) /\ left <= MaxSize
  BY <1>1, <1>2, <1>4, ContentsType, Constants
<1>7. \A i \in 1 .. FileLen(f) : cells[i - 1] = Contents(f)[i]
  <2>1. CASE f \in TableFile
    <3>1. cells = Copied(ioBuf, 0, table[f]) /\ Contents(f) = table[f]
      BY <1>1, <1>2, <1>4, <2>1, ContentsType
    <3>2. ASSUME NEW i \in 1 .. FileLen(f) PROVE cells[i - 1] = table[f][i]
      <4>1. i - 1 \in Range0(MaxSize) /\ i - 1 \in 0 .. 0 + Len(table[f]) - 1 /\ i - 1 - 0 + 1 = i
        <5>1. Len(table[f]) = left
          BY <1>2, <1>4, <2>1
        <5> QED BY <1>6, <5>1, Constants DEF Range0
      <4>2. DOMAIN ioBuf = Range0(MaxSize)
        BY <1>1 DEF TypeOK
      <4> QED BY <3>1, <4>1, <4>2 DEF Copied
    <3> QED BY <3>1, <3>2
  <2>2. CASE f \notin TableFile
    <3>1. cells = flash[f] /\ FileLen(f) = size[f]
      BY <1>1, <1>4, <2>2, ContentsType
    <3> QED BY <1>1, <2>2, <3>1, ContentsType
  <2> QED BY <2>1, <2>2
<1>8. 1 \in Nat /\ 0 \in Nat /\ (1 > 0 => 0 = At(1 - 1))
  BY AtBlocks
<1>9. /\ lastSend' \in {0, Smaller(left, Full)}
      /\ net \subseteq net'
      /\ \A p \in net' : p \notin net /\ p.k > 0 =>
           At(p.k - 1) <= FileLen(f) /\ p.units = FileBlock(f, p.k)
  BY <1>1, <1>5, <1>6, <1>7, <1>8, GoesOut
<1>10. \A p \in net' : p.dir = "down" /\ p \notin net => p.t = m.t
  <2>1. Reply(m)
    BY <1>1, Replies
  <2> QED BY <2>1 DEF Reply, Sent, ToClient
<1>11. GotFew' /\ DataOK' /\ GotOK' /\ NothingYet'
  <2>1. \A p \in net' : p.dir = "down" /\ p.type = "DATA" /\ p \notin net /\ Active(p.t) /\ p.k > 0 =>
          At(p.k - 1) <= FileLen(client[p.t].file) /\ p.units = FileBlock(client[p.t].file, p.k)
    BY <1>4, <1>9, <1>10
  <2> QED BY <1>2, <1>3, <1>9, <2>1, DownloadsStay
<1>12. SourceOK'
  <2>1. SUFFICES ASSUME NEW t \in Transfer, Sending(t)' PROVE SourceOf(client[t].file)'
    BY DEF SourceOK
  <2>2. t = m.t
    <3>1. CASE Served(t)
      <4>1. Sending(t)
        BY <1>3, <2>1, <3>1 DEF Sending, Active, Get
      <4> QED BY <1>1, <1>2, <4>1, OnlySender DEF Request
    <3>2. CASE ~Served(t)
      BY <1>10, <2>1, <3>2 DEF Sending, Served, Answers
    <3> QED BY <3>1, <3>2
  <2>3. FileLen(f)' = left
    BY <1>2, <1>6, ContentsStay
  <2>4. SourceOf(f)'
    <3>1. fileIndex' = f /\ ioPtr' = (IF f \in TableFile THEN "ioBuf" ELSE f)
      BY <1>2, <1>4
    <3>2. ioOffset' + bytesLeft' = FileLen(f)'
      <4>1. \A z : z = 0 => z + left = left
        OBVIOUS
      <4>2. ioOffset' = 0
        BY <1>2
      <4>3. ioOffset' + left = left
        BY <4>1, <4>2, Zenon
      <4> QED BY <1>4, <2>3, <4>3
    <3>3. lastBlock' # 0 => ioOffset' = At(lastBlock - 1)'
      <4>1. \A z : z = 1 => At(z - 1) = 0
        BY AtBlocks
      <4>2. \A z : z = 1 => (z - 1) * Full = 0
        BY <4>1 DEF At
      <4>3. (lastBlock' - 1) * Full = 0
        BY <1>2, <4>2, Zenon
      <4> QED BY <1>2, <4>3 DEF At
    <3>4. lastSend' \in {0, Smaller(bytesLeft, Full)'}
      BY <1>4, <1>9 DEF Smaller
    <3>5. f \in TableFile => \A i \in 1 .. FileLen(f)' : ioBuf'[i - 1] = table'[f][i]
      BY <1>1, <1>2, <1>4, <1>6, <1>7, <2>3, ContentsType
    <3> QED BY <3>1, <3>2, <3>3, <3>4, <3>5 DEF SourceOf
  <2>5. SourceOf(f)' => SourceOf(client[t].file)'
    BY <1>3, <1>4, <2>2
  <2> QED BY <2>4, <2>5
<1> QED BY <1>11, <1>12
\* Block numbers do not wrap in a download: an acknowledgement that answers is of
\* a block, and the next one follows it or has number zero.
LEMMA AnsweredBlock ==
  ASSUME DownloadInv, FewBlocks, Mode, NEW m \in net, Delivered(m), m.type = "ACK",
         fileIndex # NoFile, IsAnswered(m)
  PROVE  /\ lastBlock \in Nat /\ lastBlock > 0
         /\ NextBlock > 0 => NextBlock = lastBlock + 1
<1>1. NetInv
  BY DEF DownloadInv
<1>2. /\ m.t \in Transfer /\ Get(m.t) /\ m.k >= 1 /\ m.k \in Nat /\ client[m.t].k \in Nat
      /\ m.k <= client[m.t].k /\ m.block = m.k % Modulus
  BY <1>1, AckUp, UpPacket, Delivery
<1>3. m.k < Modulus
  <2>1. client[m.t].k <= (MaxSize \div Full) + 1
    BY <1>2 DEF DownloadInv, GotFew
  <2>2. (MaxSize \div Full) + 1 \in Nat
    BY Constants
  <2>3. client[m.t].k < Modulus
    BY <1>2, <2>1, <2>2, Constants DEF FewBlocks
  <2> QED BY <1>2, <2>3, Constants
<1>4. lastBlock = m.k
  BY <1>2, <1>3, BlockNumber DEF IsAnswered
<1>5. NextBlock > 0 => NextBlock = lastBlock + 1
  <2>1. CASE m.k + 1 < Modulus
    <3>1. m.k + 1 \in Nat
      BY <1>2
    <3> QED BY <1>4, <2>1, <3>1, BlockNumber DEF NextBlock
  <2>2. CASE m.k + 1 = Modulus
    <3>1. Modulus % Modulus = 0
      <4>1. 1 \in Nat /\ 0 \in 0 .. Modulus - 1 /\ Modulus = Modulus * 1 + 0
        BY Constants
      <4> QED BY <4>1, Remainder, Constants
    <3> QED BY <1>4, <2>2, <3>1 DEF NextBlock
  <2> QED BY <1>2, <1>3, <2>1, <2>2, Constants
<1> QED BY <1>2, <1>4, <1>5

\* The place in the file after a block has been sent from it.
LEMMA SourceGoesOn ==
  ASSUME UNCHANGED <<ioPtr, ioBuf, flash, size, table>>, NEW f, SourceOf(f), fileIndex' = fileIndex,
         NEW offset, NEW left, NEW block,
         offset = ioOffset', left = bytesLeft', block = lastBlock',
         offset + left = FileLen(f), block # 0 => offset = At(block - 1),
         lastSend' \in {0, Smaller(left, Full)}
  PROVE  SourceOf(f)'
<1>1. FileLen(f)' = FileLen(f)
  BY ContentsStay
<1>2. fileIndex' = f /\ ioPtr' = (IF f \in TableFile THEN "ioBuf" ELSE f)
  BY DEF SourceOf
<1>3. f \in TableFile => \A i \in 1 .. FileLen(f)' : ioBuf'[i - 1] = table'[f][i]
  BY <1>1 DEF SourceOf
<1>4. lastBlock' # 0 => ioOffset' = At(lastBlock - 1)'
  BY DEF At
<1>5. ioOffset' + bytesLeft' = FileLen(f)'
  BY <1>1
<1>6. lastSend' \in {0, Smaller(bytesLeft, Full)'}
  BY DEF Smaller
<1> QED BY <1>2, <1>3, <1>4, <1>5, <1>6 DEF SourceOf

\* An acknowledgement brings the next block of the file that is read, or the
\* last one again.
LEMMA AckReads ==
  ASSUME DownloadInv, FewBlocks, Mode, NEW m \in net, AckNext(m) \/ AckOther(m),
         NEW f \in File, SourceOf(f)
  PROVE  /\ fileIndex' # NoFile => SourceOf(f)'
         /\ \A p \in net' : p \notin net /\ p.k > 0 =>
              At(p.k - 1) <= FileLen(f) /\ p.units = FileBlock(f, p.k)
<1>1. NetInv /\ TypeOK
  BY DEF DownloadInv, NetInv
<1>2. Delivered(m) /\ m.type = "ACK" /\ fileIndex # NoFile
  BY DEF AckNext, AckOther
<1>3. /\ lastSend <= bytesLeft /\ ioOffset + bytesLeft <= MaxSize
      /\ lastSend \in 0 .. Full /\ bytesLeft \in 0 .. MaxSize /\ ioOffset \in 0 .. MaxSize
      /\ lastBlock \in 0 .. Modulus - 1 /\ NextBlock \in 0 .. Modulus - 1
  BY <1>1, <1>2, Continuing
<1>4. PICK cells \in [Range0(MaxSize) -> Unit] : cells = Source
  BY <1>1, SourceType
<1>5. \A i \in 1 .. FileLen(f) : cells[i - 1] = Contents(f)[i]
  BY <1>1, <1>4, ReadsFile
<1>6. ioOffset + bytesLeft = FileLen(f) /\ (lastBlock # 0 => ioOffset = At(lastBlock - 1))
  BY DEF SourceOf
<1>7. CASE AckNext(m)
  <2>1. /\ IsAnswered(m) /\ lastBlock' = NextBlock
        /\ ioOffset' = ioOffset + lastSend /\ bytesLeft' = bytesLeft - lastSend
        /\ ioOffset' \in 0 .. MaxSize /\ bytesLeft' \in 0 .. MaxSize
        /\ \/ /\ lastSend = Full /\ fileIndex' = fileIndex
              /\ SendBlock(m, NextBlock, ioOffset', bytesLeft', Source)
           \/ /\ lastSend # Full /\ fileIndex' = NoFile
              /\ UNCHANGED <<lastSend, net, faults>>
        /\ UNCHANGED <<ioPtr, ioBuf, flash, size, table>>
    BY <1>1, <1>7, Advancing
  <2>2. CASE lastSend # Full
    BY <2>1, <2>2
  <2>3. CASE lastSend = Full
    <3>1. PICK offset \in Nat, left \in Nat, block \in Nat :
            offset = ioOffset' /\ left = bytesLeft' /\ block = lastBlock'
      BY <1>3, <2>1, Constants
    <3>2. SendBlock(m, block, offset, left, cells) /\ fileIndex' = fileIndex
      BY <1>4, <2>1, <2>3, <3>1
    <3>3. offset = ioOffset + Full /\ left = bytesLeft - Full /\ block = NextBlock
      BY <2>1, <2>3, <3>1
    <3>4. offset + left = FileLen(f)
      <4>1. ioOffset \in Int /\ bytesLeft \in Int
        BY <1>3
      <4> QED BY <1>6, <3>3, <4>1, Constants
    <3>5. block > 0 => offset = At(block - 1)
      <4>1. lastBlock \in Nat /\ lastBlock > 0 /\ (NextBlock > 0 => NextBlock = lastBlock + 1)
        BY <1>2, <2>1, AnsweredBlock
      <4>2. PICK n \in Nat : n = lastBlock - 1 /\ lastBlock = n + 1
        BY <4>1
      <4>3. ioOffset = At(n) /\ At(n + 1) = At(n) + Full
        BY <1>6, <4>1, <4>2, AtBlocks
      <4>4. block > 0 => block - 1 = n + 1
        BY <3>3, <4>1, <4>2
      <4> QED BY <3>3, <4>3, <4>4
    <3>6. /\ lastSend' \in {0, Smaller(left, Full)}
          /\ \A p \in net' : p \notin net /\ p.k > 0 =>
               At(p.k - 1) <= FileLen(f) /\ p.units = FileBlock(f, p.k)
      BY <1>1, <1>5, <3>2, <3>4, <3>5, GoesOut
    <3>7. block # 0 => offset = At(block - 1)
      BY <3>5
    <3>8. SourceOf(f)'
      BY <2>1, <3>1, <3>2, <3>4, <3>6, <3>7, SourceGoesOn
    <3> QED BY <3>6, <3>8
  <2> QED BY <2>2, <2>3
<1>8. CASE AckOther(m)
  <2>1. /\ SendBlock(m, lastBlock, ioOffset, bytesLeft, Source)
        /\ UNCHANGED <<fileIndex, ioOffset, bytesLeft, lastBlock, ioPtr, ioBuf, flash, size, table>>
    BY <1>8 DEF AckOther, store
  <2>2. PICK offset \in Nat, left \in Nat, block \in Nat :
          offset = ioOffset /\ left = bytesLeft /\ block = lastBlock
    BY <1>3, Constants
  <2>3. SendBlock(m, block, offset, left, cells)
    BY <1>4, <2>1, <2>2
  <2>4. offset + left = FileLen(f) /\ (block # 0 => offset = At(block - 1))
    BY <1>6, <2>2
  <2>5. block > 0 => offset = At(block - 1)
    BY <2>4
  <2>6. /\ lastSend' \in {0, Smaller(left, Full)}
        /\ \A p \in net' : p \notin net /\ p.k > 0 =>
             At(p.k - 1) <= FileLen(f) /\ p.units = FileBlock(f, p.k)
    BY <1>1, <1>5, <2>3, <2>4, <2>5, GoesOut
  <2>7. offset = ioOffset' /\ left = bytesLeft' /\ block = lastBlock'
    BY <2>1, <2>2
  <2>8. SourceOf(f)'
    BY <2>1, <2>4, <2>6, <2>7, SourceGoesOn
  <2> QED BY <2>6, <2>8
<1> QED BY <1>7, <1>8

\* So acknowledgements keep the invariant, also those of transfers that are over.
LEMMA AcksKeepDownloads ==
  ASSUME DownloadInv, FewBlocks, Mode, NEW m \in net, AckNext(m) \/ AckOther(m), NetInv'
  PROVE  GotFew' /\ DataOK' /\ GotOK' /\ NothingYet' /\ SourceOK'
<1>1. NetInv /\ HandlePacket(m)
  BY DEF DownloadInv, HandlePacket
<1>2. Reply(m) /\ Delivered(m) /\ m.type = "ACK" /\ fileIndex # NoFile
  BY <1>1, Replies DEF AckNext, AckOther
<1>3. UNCHANGED <<client, flash, size, table>> /\ m.t \in Transfer
  BY <1>1, <1>2, Delivery DEF AckNext, AckOther, store
<1>4. net \subseteq net' /\ \A p \in net' : p \notin net => p.t = m.t
  BY <1>2 DEF Reply, Sent, ToClient
<1>5. Get(m.t) /\ Served(m.t)
  BY <1>1, <1>2, Continuing
<1>6. \A t \in Transfer : Sending(t)' => Sending(t)
  <2>1. ASSUME NEW t \in Transfer, Sending(t)' PROVE Served(t)
    <3>1. PICK p \in net' : Answers(p, "DATA", t)
      BY <2>1 DEF Sending, Served
    <3>2. CASE p \in net
      BY <3>1, <3>2 DEF Served
    <3>3. CASE p \notin net
      BY <1>4, <1>5, <3>1, <3>3 DEF Answers
    <3> QED BY <3>2, <3>3
  <2> QED BY <1>3, <2>1 DEF Sending, Active, Get
<1>7. SourceOK'
  <2>1. SUFFICES ASSUME NEW t \in Transfer, Sending(t)', fileIndex' # NoFile
                 PROVE  SourceOf(client[t].file)'
    BY DEF SourceOK
  <2>2. Sending(t)
    BY <1>6, <2>1
  <2>3. PICK f \in File : f = client[t].file
    BY <1>1, <2>2, ServedFile DEF Sending
  <2>4. SourceOf(f)
    BY <1>2, <2>2, <2>3 DEF DownloadInv, SourceOK
  <2>5. SourceOf(f)'
    BY <2>1, <2>4, AckReads
  <2>6. SourceOf(f)' => SourceOf(client[t].file)'
    BY <1>3, <2>3
  <2> QED BY <2>5, <2>6
<1>8. \A p \in net' : p.dir = "down" /\ p.type = "DATA" /\ p \notin net /\ Active(p.t) /\ p.k > 0 =>
        At(p.k - 1) <= FileLen(client[p.t].file) /\ p.units = FileBlock(client[p.t].file, p.k)
  <2>1. SUFFICES ASSUME NEW p \in net', p \notin net, Active(m.t), p.k > 0
                 PROVE  At(p.k - 1) <= FileLen(client[m.t].file) /\ p.units = FileBlock(client[m.t].file, p.k)
    BY <1>4
  <2>2. Sending(m.t)
    BY <1>5, <2>1 DEF Sending
  <2>3. PICK f \in File : f = client[m.t].file
    BY <1>1, <1>3, <2>2, ServedFile DEF Sending
  <2>4. SourceOf(f)
    BY <1>2, <1>3, <2>2, <2>3 DEF DownloadInv, SourceOK
  <2> QED BY <2>1, <2>3, <2>4, AckReads
<1>9. GotFew' /\ DataOK' /\ GotOK' /\ NothingYet'
  BY <1>3, <1>4, <1>8, DownloadsStay
<1> QED BY <1>7, <1>9

\* A request that is refused changes no download, but the block number.
LEMMA RefusalsKeepDownloads ==
  ASSUME DownloadInv, Mode, NEW m \in net, RefuseBusy(m) \/ RefuseName(m), NetInv'
  PROVE  GotFew' /\ DataOK' /\ GotOK' /\ NothingYet' /\ SourceOK'
<1>1. NetInv
  BY DEF DownloadInv
<1>2. /\ Delivered(m) /\ lastBlock' = 0 /\ (fileIndex' = fileIndex \/ fileIndex' = NoFile)
      /\ net' = net \cup {ToClient(m.t, "ERR", 0, 0, <<>>)}
      /\ UNCHANGED <<ioOffset, bytesLeft, lastSend, ioPtr, ioBuf, flash, size, table>>
  BY DEF RefuseBusy, RefuseName, ReplyERR, Sent, store
<1>3. client' = client
  BY <1>1, <1>2, Delivery
<1>4. net \subseteq net' /\ \A p \in net' : p \notin net => p.type = "ERR"
  BY <1>2 DEF ToClient
<1>5. GotFew' /\ DataOK' /\ GotOK' /\ NothingYet'
  BY <1>2, <1>3, <1>4, DownloadsStay
<1>6. SourceOK'
  <2>1. SUFFICES ASSUME NEW t \in Transfer, Sending(t)', fileIndex' # NoFile
                 PROVE  SourceOf(client[t].file)'
    BY DEF SourceOK
  <2>2. Sending(t)
    <3>1. Served(t)
      BY <1>4, <2>1 DEF Sending, Served, Answers
    <3> QED BY <1>3, <2>1, <3>1 DEF Sending, Active, Get
  <2>3. PICK f : f = client[t].file
    OBVIOUS
  <2>4. SourceOf(f) /\ fileIndex' = fileIndex
    BY <1>2, <2>1, <2>2, <2>3 DEF DownloadInv, SourceOK
  <2>5. FileLen(f)' = FileLen(f)
    BY <1>2, ContentsStay
  <2>6. SourceOf(f)'
    BY <1>2, <2>4, <2>5 DEF SourceOf, Smaller
  <2>7. SourceOf(f)' => SourceOf(client[t].file)'
    BY <1>3, <2>3
  <2> QED BY <2>6, <2>7
<1> QED BY <1>5, <1>6

\* Whatever packet the server handles.
LEMMA HandlersKeepDownloads ==
  ASSUME DownloadInv, FewBlocks, Mode, NEW m \in net, HandlePacket(m), NetInv'
  PROVE  GotFew' /\ DataOK' /\ GotOK' /\ NothingYet' /\ SourceOK'
<1>1. NetInv /\ Delivered(m)
  BY Replies DEF DownloadInv
<1>2. CASE RefuseBusy(m) \/ RefuseName(m)
  BY <1>2, RefusalsKeepDownloads
<1>3. CASE BeginDownload(m)
  BY <1>3, BeginningKeeps
<1>4. CASE AckNext(m) \/ AckOther(m)
  BY <1>4, AcksKeepDownloads
<1>5. CASE BeginUpload(m)
  <2>1. Put(m.t)
    BY <1>1, <1>5, RequestUp DEF BeginUpload, Delivered, Request
  <2> QED BY <2>1, UploadsAlone
<1>6. CASE \/ AcknowledgeAgain(m) \/ IgnoreData(m) \/ RefuseTooBig(m) \/ StoreBlock(m)
           \/ StoreBlockFails(m) \/ CollectBlock(m) \/ FinishTable(m)
  <2>1. DataArrives(m)
    BY <1>6 DEF AcknowledgeAgain, IgnoreData, RefuseTooBig, StoreBlock, StoreBlockFails,
                CollectBlock, FinishTable, BlockArrives
  <2>2. Put(m.t)
    BY <1>1, <2>1, Arriving
  <2> QED BY <2>2, UploadsAlone
<1> QED BY <1>2, <1>3, <1>4, <1>5, <1>6 DEF HandlePacket
(***************************************************************************)
(* The clients of downloads                                                *)
(***************************************************************************)
\* The part of a sequence of length n that comes after the first a elements.
Part(s, a, n) == [i \in 1 .. n |-> s[a + i]]
\* Its first n elements.
First(s, n) == [i \in 1 .. n |-> s[i]]

\* A beginning of a sequence and what follows it.
LEMMA Prefixes ==
  ASSUME NEW s \in Seq(Unit), NEW a \in Nat, NEW n \in Nat, a + n <= Len(s)
  PROVE  /\ First(s, a) \o Part(s, a, n) = First(s, a + n)
         /\ First(s, Len(s)) = s
         /\ Len(Part(s, a, n)) = n
<1>1. \A i \in 1 .. a : s[i] \in Unit
  OBVIOUS
<1>2. \A i \in 1 .. n : s[a + i] \in Unit
  OBVIOUS
<1>3. [i \in 1 .. a |-> s[i]] \in Seq(Unit) /\ Len([i \in 1 .. a |-> s[i]]) = a
  BY <1>1
<1>4. [i \in 1 .. n |-> s[a + i]] \in Seq(Unit) /\ Len([i \in 1 .. n |-> s[a + i]]) = n
  BY <1>2
<1>5. PICK x \in Seq(Unit), y \in Seq(Unit) :
        /\ x = [i \in 1 .. a |-> s[i]] /\ Len(x) = a
        /\ y = [i \in 1 .. n |-> s[a + i]] /\ Len(y) = n
  BY <1>3, <1>4
<1>6. x \o y = [i \in 1 .. a + n |-> s[i]]
  <2>1. x \o y = [i \in 1 .. a + n |-> IF i <= a THEN x[i] ELSE y[i - a]]
    BY <1>5
  <2>2. ASSUME NEW i \in 1 .. a + n PROVE (IF i <= a THEN x[i] ELSE y[i - a]) = s[i]
    <3>1. CASE i <= a
      BY <1>5, <3>1
    <3>2. CASE ~(i <= a)
      <4>1. i - a \in 1 .. n /\ a + (i - a) = i
        BY <3>2
      <4> QED BY <1>5, <3>2, <4>1
    <3> QED BY <3>1, <3>2
  <2> QED BY <2>1, <2>2
<1>7. [i \in 1 .. Len(s) |-> s[i]] = s
  OBVIOUS
<1> QED BY <1>4, <1>5, <1>6, <1>7 DEF Part, First

\* A file has not more full blocks than fit into the biggest file.
LEMMA FewUnits ==
  ASSUME NEW k \in Nat, At(k) <= MaxSize
  PROVE  k <= MaxSize \div Full /\ MaxSize \div Full \in Nat
<1>1. PICK q \in Nat : q = MaxSize \div Full /\ MaxSize < q * Full + Full
  BY Constants
<1>2. ASSUME q + 1 <= k PROVE FALSE
  <2>1. At(q + 1) <= At(k) /\ At(q + 1) = At(q) + Full /\ At(q) \in Nat /\ At(k) \in Nat
    BY <1>2, AtBlocks
  <2>2. At(q) = q * Full
    BY DEF At
  <2> QED BY <1>1, <2>1, <2>2, Constants
<1> QED BY <1>1, <1>2

\* The block a client takes is the next one of its file, and the last one if it
\* is not full.
LEMMA ClientTakes ==
  ASSUME DownloadInv, FewBlocks, NEW m \in net, ClientData(m)
  PROVE  \A f \in File : \A k \in Nat : \A g :
           f = client[m.t].file /\ k = client[m.t].k + 1 /\ g = client[m.t].got \o m.units =>
             /\ k <= (MaxSize \div Full) + 1
             /\ Len(m.units) < Full => g = Contents(f)
             /\ ~(Len(m.units) < Full) =>
                  At(k) <= FileLen(f) /\ g = [i \in 1 .. At(k) |-> Contents(f)[i]]
<1> SUFFICES ASSUME NEW f \in File, NEW k \in Nat, NEW g,
                    f = client[m.t].file, k = client[m.t].k + 1, g = client[m.t].got \o m.units
             PROVE  /\ k <= (MaxSize \div Full) + 1
                    /\ Len(m.units) < Full => g = Contents(f)
                    /\ ~(Len(m.units) < Full) =>
                         At(k) <= FileLen(f) /\ g = [i \in 1 .. At(k) |-> Contents(f)[i]]
  OBVIOUS
<1>1. NetInv /\ TypeOK
  BY DEF DownloadInv, NetInv
<1>2. /\ m.t \in Transfer /\ Active(m.t) /\ Get(m.t) /\ Served(m.t)
      /\ m.dir = "down" /\ m.type = "DATA" /\ m.k = k % Modulus
      /\ client[m.t].k \in Nat
  BY <1>1, DataTaken
<1>3. PICK j \in Nat : j = client[m.t].k /\ k = j + 1 /\ j = k - 1
  BY <1>2
<1>4. PICK s \in Seq(Unit), length \in Nat :
        s = Contents(f) /\ length = FileLen(f) /\ length = Len(s) /\ length <= MaxSize
  BY <1>1, ContentsType, Constants DEF FileLen
<1>5. PICK a \in Nat : a = At(j) /\ a = At(k - 1) /\ At(k) = a + Full
  BY <1>3, AtBlocks
<1>6. a <= length /\ client[m.t].got = [i \in 1 .. a |-> s[i]]
  <2>1. GotOf(m.t, f)
    BY <1>2 DEF DownloadInv, GotOK, Sending
  <2> QED BY <1>3, <1>4, <1>5, <2>1 DEF GotOf
<1>7. k <= (MaxSize \div Full) + 1 /\ k < Modulus
  <2>1. At(j) <= MaxSize
    BY <1>4, <1>5, <1>6, Constants
  <2>2. j <= MaxSize \div Full /\ MaxSize \div Full \in Nat
    BY <2>1, FewUnits
  <2> QED BY <1>3, <2>2, Constants DEF FewBlocks
<1>8. m.k = k /\ k > 0
  <2>1. k % Modulus = k
    BY <1>7, BlockNumber
  <2> QED BY <1>2, <1>3, <2>1
<1>9. m.units = FileBlock(f, k)
  BY <1>2, <1>8 DEF DownloadInv, DataOK
<1>10. PICK n \in Nat : n = Smaller(length - a, Full) /\ a + n <= length /\ n <= Full
                        /\ (n < Full => a + n = length)
  <2>1. PICK n \in Nat : n = Smaller(length - a, Full)
    <3>1. Smaller(length - a, Full) \in Nat
      BY <1>6, Constants DEF Smaller
    <3> QED BY <3>1
  <2>2. a + n <= length /\ n <= Full /\ (n < Full => a + n = length)
    BY <1>6, <2>1, Constants DEF Smaller
  <2> QED BY <2>1, <2>2
<1>11. m.units = [i \in 1 .. n |-> s[a + i]]
  BY <1>4, <1>5, <1>9, <1>10 DEF FileBlock
<1>12. /\ g = [i \in 1 .. a + n |-> s[i]] /\ Len(m.units) = n
       /\ [i \in 1 .. length |-> s[i]] = s
  <2>1. s \in Seq(Unit) /\ a \in Nat /\ n \in Nat /\ a + n <= Len(s)
    BY <1>4, <1>10
  <2>2. /\ First(s, a) \o Part(s, a, n) = First(s, a + n)
        /\ First(s, Len(s)) = s
        /\ Len(Part(s, a, n)) = n
    BY <2>1, Prefixes
  <2> QED BY <1>4, <1>6, <1>11, <2>2 DEF Part, First
<1>13. CASE n < Full
  BY <1>4, <1>7, <1>10, <1>12, <1>13
<1>14. CASE ~(n < Full)
  <2>1. n = Full
    BY <1>10, <1>14, Constants
  <2> QED BY <1>4, <1>5, <1>7, <1>10, <1>12, <2>1
<1> QED BY <1>13, <1>14

\* One client goes on, and what it has is the beginning of its file if it has
\* not ended.
LEMMA MoveKeepsDownloads ==
  ASSUME DownloadInv, NetInv', NEW t \in Transfer, client[t] # Idle, NEW state, NEW k \in Nat, NEW g,
         Moves(t, state, k, g), UNCHANGED <<server, store>>,
         net \subseteq net', \A p \in net' : p \notin net => p.dir = "up",
         Get(t) => k <= (MaxSize \div Full) + 1,
         state = "active" => Active(t),
         Get(t) /\ state = "active" =>
           /\ Served(t)
           /\ At(k) <= FileLen(client[t].file)
           /\ g = [i \in 1 .. At(k) |-> Contents(client[t].file)[i]]
  PROVE  GotFew' /\ DataOK' /\ GotOK' /\ NothingYet' /\ SourceOK'
<1>1. /\ \A u \in Transfer : u # t => client'[u] = client[u]
      /\ client'[t].op = client[t].op /\ client'[t].file = client[t].file
      /\ client'[t].k = k /\ client'[t].got = g /\ client'[t].state = state
      /\ client'[t] # Idle
  BY RecordNotIdle DEF Moves
<1>2. \A u \in Transfer : /\ Active(u)' => Active(u)
                          /\ Get(u)' <=> Get(u)
                          /\ client'[u].file = client[u].file \/ client[u] = Idle
  BY <1>1 DEF Active, Get
<1>3. \A u \in Transfer : Served(u)' <=> Served(u)
  BY DEF Served, Answers
<1>4. \A u \in Transfer : Sending(u)' => Sending(u)
  BY <1>2, <1>3 DEF Sending
<1>5. UNCHANGED <<fileIndex, ioOffset, bytesLeft, lastBlock, lastSend, ioPtr, ioBuf, flash, size, table>>
  BY DEF server, store
<1>6. GotFew'
  BY <1>1, <1>2 DEF DownloadInv, GotFew
<1>7. NothingYet'
  <2>1. ASSUME NEW u \in Transfer, Active(u)', Get(u)', ~Served(u)'
        PROVE  client'[u].k = 0 /\ client'[u].got = <<>>
    <3>1. Active(u) /\ Get(u) /\ ~Served(u)
      BY <1>2, <1>3, <2>1
    <3>2. u # t
      BY <1>1, <2>1, <3>1 DEF Active
    <3> QED BY <1>1, <3>1, <3>2 DEF DownloadInv, NothingYet
  <2> QED BY <2>1 DEF NothingYet
<1>8. DataOK'
  <2>1. SUFFICES ASSUME NEW p \in net', p.dir = "down", p.type = "DATA", Active(p.t)', p.k > 0
                 PROVE  /\ At(p.k - 1)' <= FileLen(client[p.t].file)'
                        /\ p.units = FileBlock(client[p.t].file, p.k)'
    BY DEF DataOK
  <2>2. p \in net
    BY <2>1
  <2>3. p.t \in Transfer
    BY <2>1, <2>2 DEF DownloadInv, NetInv, NetOK, UpOK, DownOK
  <2>4. PICK f, q : f = client[p.t].file /\ q = p.k
    OBVIOUS
  <2>5. client'[p.t].file = f
    BY <1>2, <2>1, <2>3, <2>4 DEF Active
  <2>6. At(p.k - 1) <= FileLen(f) /\ p.units = FileBlock(f, q)
    BY <1>2, <2>1, <2>2, <2>3, <2>4 DEF DownloadInv, DataOK
  <2>7. FileLen(f)' = FileLen(f) /\ FileBlock(f, q)' = FileBlock(f, q)
    BY <1>5, ContentsStay
  <2>8. FileLen(client[p.t].file)' = FileLen(f)' /\ FileBlock(client[p.t].file, p.k)' = FileBlock(f, q)'
    BY <2>4, <2>5
  <2> QED BY <2>6, <2>7, <2>8 DEF At
<1>9. GotOK'
  <2>1. SUFFICES ASSUME NEW u \in Transfer, Sending(u)' PROVE GotOf(u, client[u].file)'
    BY DEF GotOK
  <2>2. Sending(u)
    BY <1>4, <2>1
  <2>3. PICK f : f = client[u].file /\ client'[u].file = f
    BY <1>2, <2>2 DEF Sending, Active
  <2>4. Contents(f)' = Contents(f) /\ FileLen(f)' = FileLen(f)
    BY <1>5, ContentsStay
  <2>5. PICK n, h : n = client'[u].k /\ h = client'[u].got
    OBVIOUS
  <2>6. At(n) <= FileLen(f) /\ h = [i \in 1 .. At(n) |-> Contents(f)[i]]
    <3>1. CASE u = t
      <4>1. state = "active" /\ Get(t)
        BY <1>1, <2>1, <2>2, <3>1 DEF Sending, Active
      <4> QED BY <1>1, <2>3, <2>5, <3>1, <4>1
    <3>2. CASE u # t
      <4>1. GotOf(u, f)
        BY <2>2, <2>3 DEF DownloadInv, GotOK
      <4> QED BY <1>1, <2>5, <3>2, <4>1 DEF GotOf
    <3> QED BY <3>1, <3>2
  <2>7. GotOf(u, f)'
    BY <2>4, <2>5, <2>6 DEF GotOf, At
  <2>8. GotOf(u, f)' => GotOf(u, client[u].file)'
    BY <2>3
  <2> QED BY <2>7, <2>8
<1>10. SourceOK'
  <2>1. SUFFICES ASSUME NEW u \in Transfer, Sending(u)', fileIndex' # NoFile
                 PROVE  SourceOf(client[u].file)'
    BY DEF SourceOK
  <2>2. Sending(u)
    BY <1>4, <2>1
  <2>3. PICK f : f = client[u].file /\ client'[u].file = f
    BY <1>2, <2>2 DEF Sending, Active
  <2>4. SourceOf(f)
    BY <1>5, <2>1, <2>2, <2>3 DEF DownloadInv, SourceOK
  <2>5. FileLen(f)' = FileLen(f)
    BY <1>5, ContentsStay
  <2>6. SourceOf(f)'
    BY <1>5, <2>4, <2>5 DEF SourceOf, Smaller, At
  <2>7. SourceOf(f)' => SourceOf(client[u].file)'
    BY <2>3
  <2> QED BY <2>6, <2>7
<1> QED BY <1>6, <1>7, <1>8, <1>9, <1>10
\* A client that starts has nothing yet.
LEMMA StartKeepsDownloads ==
  ASSUME DownloadInv, NetInv', NEW t \in Transfer, NEW op, NEW f \in File \cup {NoFile}, NEW len \in Nat,
         NEW valid \in BOOLEAN, Start(t, op, f, len, valid)
  PROVE  GotFew' /\ DataOK' /\ GotOK' /\ NothingYet' /\ SourceOK'
<1> DEFINE type == IF op = "get" THEN "RRQ" ELSE "WRQ"
<1>1. PICK d : d = [state |-> "active", op |-> op, file |-> f, len |-> len, valid |-> valid,
                    k |-> 0, got |-> <<>>]
  OBVIOUS
<1>2. /\ client[t] = Idle /\ client' = [client EXCEPT ![t] = d]
      /\ net' = net \cup {FromClient(t, type, 0)}
      /\ UNCHANGED <<server, store, latest, faults>>
  BY <1>1 DEF Start, Sent
<1>3. UNCHANGED <<fileIndex, ioOffset, bytesLeft, lastBlock, lastSend, ioPtr, ioBuf, flash, size, table>>
  BY <1>2 DEF server, store
<1>4. d.k = 0 /\ d.got = <<>>
  BY <1>1
<1>5. client' = [u \in Transfer |-> IF u = t THEN d ELSE client[u]]
  BY <1>2 DEF DownloadInv, NetInv, TypeOK
<1>6. net \subseteq net' /\ \A p \in net' : p \notin net => p.dir = "up"
  BY <1>2 DEF FromClient
<1>7. \A u \in Transfer : Served(u)' <=> Served(u)
  BY <1>6 DEF Served, Answers
<1>8. ~Served(t)
  BY <1>2, ServedFile DEF DownloadInv
<1>9. \A u \in Transfer : Sending(u)' => Sending(u) /\ u # t /\ client'[u] = client[u]
  BY <1>5, <1>7, <1>8 DEF Sending, Active, Get
<1>10. GotFew'
  <2>1. 0 <= (MaxSize \div Full) + 1
    BY Constants
  <2>2. ASSUME NEW u \in Transfer, Get(u)' PROVE client'[u].k <= (MaxSize \div Full) + 1
    <3>1. CASE u = t
      BY <1>4, <1>5, <2>1, <3>1
    <3>2. CASE u # t
      BY <1>5, <2>2, <3>2 DEF DownloadInv, GotFew, Get
    <3> QED BY <3>1, <3>2
  <2> QED BY <2>2 DEF GotFew
<1>11. NothingYet'
  <2>1. ASSUME NEW u \in Transfer, Active(u)', Get(u)', ~Served(u)'
        PROVE  client'[u].k = 0 /\ client'[u].got = <<>>
    <3>1. CASE u = t
      BY <1>4, <1>5, <3>1
    <3>2. CASE u # t
      <4>1. Active(u) /\ Get(u) /\ ~Served(u) /\ client'[u] = client[u]
        BY <1>5, <1>7, <2>1, <3>2 DEF Active, Get
      <4> QED BY <4>1 DEF DownloadInv, NothingYet
    <3> QED BY <3>1, <3>2
  <2> QED BY <2>1 DEF NothingYet
<1>12. DataOK'
  <2>1. SUFFICES ASSUME NEW p \in net', p.dir = "down", p.type = "DATA", Active(p.t)', p.k > 0
                 PROVE  /\ At(p.k - 1)' <= FileLen(client[p.t].file)'
                        /\ p.units = FileBlock(client[p.t].file, p.k)'
    BY DEF DataOK
  <2>2. p \in net
    BY <1>6, <2>1
  <2>3. p.t \in Transfer /\ client[p.t] # Idle
    BY <2>1, <2>2 DEF DownloadInv, NetInv, NetOK, UpOK, DownOK
  <2>4. client'[p.t] = client[p.t]
    BY <1>2, <1>5, <2>3
  <2>5. PICK e, q : e = client[p.t].file /\ q = p.k
    OBVIOUS
  <2>6. At(p.k - 1) <= FileLen(e) /\ p.units = FileBlock(e, q)
    BY <2>1, <2>2, <2>4, <2>5 DEF DownloadInv, DataOK, Active
  <2>7. FileLen(e)' = FileLen(e) /\ FileBlock(e, q)' = FileBlock(e, q)
    BY <1>3, ContentsStay
  <2>8. FileLen(client[p.t].file)' = FileLen(e)' /\ FileBlock(client[p.t].file, p.k)' = FileBlock(e, q)'
    BY <2>4, <2>5
  <2> QED BY <2>6, <2>7, <2>8 DEF At
<1>13. GotOK'
  <2>1. SUFFICES ASSUME NEW u \in Transfer, Sending(u)' PROVE GotOf(u, client[u].file)'
    BY DEF GotOK
  <2>2. PICK e : e = client[u].file
    OBVIOUS
  <2>3. Sending(u) /\ client'[u] = client[u] /\ GotOf(u, e)
    BY <1>9, <2>1, <2>2 DEF DownloadInv, GotOK
  <2>4. Contents(e)' = Contents(e) /\ FileLen(e)' = FileLen(e)
    BY <1>3, ContentsStay
  <2>5. GotOf(u, e)'
    BY <2>3, <2>4 DEF GotOf, At
  <2>6. GotOf(u, e)' => GotOf(u, client[u].file)'
    BY <2>2, <2>3
  <2> QED BY <2>5, <2>6
<1>14. SourceOK'
  <2>1. SUFFICES ASSUME NEW u \in Transfer, Sending(u)', fileIndex' # NoFile
                 PROVE  SourceOf(client[u].file)'
    BY DEF SourceOK
  <2>2. PICK e : e = client[u].file
    OBVIOUS
  <2>3. Sending(u) /\ client'[u] = client[u] /\ SourceOf(e)
    BY <1>3, <1>9, <2>1, <2>2 DEF DownloadInv, SourceOK
  <2>4. FileLen(e)' = FileLen(e)
    BY <1>3, ContentsStay
  <2>5. SourceOf(e)'
    BY <1>3, <2>3, <2>4 DEF SourceOf, Smaller, At
  <2>6. SourceOf(e)' => SourceOf(client[u].file)'
    BY <2>2, <2>3
  <2> QED BY <2>5, <2>6
<1> QED BY <1>10, <1>11, <1>12, <1>13, <1>14

\* A client that gives up, is refused or is acknowledged.
LEMMA EndingKeepsDownloads ==
  ASSUME DownloadInv, NetInv', NEW t \in Transfer, client[t] # Idle, NEW state \in {"done", "failed"},
         Ending(t, state)
  PROVE  GotFew' /\ DataOK' /\ GotOK' /\ NothingYet' /\ SourceOK'
<1>1. /\ Moves(t, state, client[t].k, client[t].got)
      /\ UNCHANGED <<server, store, net, latest, faults>>
  BY EndingMoves DEF DownloadInv
<1>2. PICK k, g : k \in Nat /\ k = client[t].k /\ g = client[t].got
  BY ClientFields DEF DownloadInv, NetInv
<1>3. Moves(t, state, k, g) /\ UNCHANGED <<server, store>> /\ net \subseteq net'
  BY <1>1, <1>2
<1>4. Get(t) => k <= (MaxSize \div Full) + 1
  BY <1>2 DEF DownloadInv, GotFew
<1>5. state # "active" /\ \A p \in net' : p \notin net => p.dir = "up"
  BY <1>1
<1> QED BY <1>2, <1>3, <1>4, <1>5, MoveKeepsDownloads

\* An acknowledged upload goes on.
LEMMA AckedKeepsDownloads ==
  ASSUME DownloadInv, Mode, NetInv', NEW m \in net, ClientAcked(m)
  PROVE  GotFew' /\ DataOK' /\ GotOK' /\ NothingYet' /\ SourceOK'
<1>1. /\ m.t \in Transfer /\ client[m.t] # Idle /\ Active(m.t) /\ ~Get(m.t) /\ client[m.t].k \in Nat
      /\ NetInv
  BY AckTaken DEF DownloadInv
<1>2. CASE client[m.t].k = LastBlockOf(m.t)
  <2>1. Ending(m.t, "done")
    BY <1>2 DEF ClientAcked
  <2> QED BY <1>1, <2>1, EndingKeepsDownloads
<1>3. CASE client[m.t].k # LastBlockOf(m.t)
  <2>1. PICK n \in Nat : n = client[m.t].k + 1
    BY <1>1
  <2>2. /\ client' = [client EXCEPT ![m.t].k = n]
        /\ net' = net \cup {FromClient(m.t, "DATA", n)}
        /\ UNCHANGED <<server, store>>
    BY <1>3, <2>1 DEF ClientAcked, Sent
  <2>3. Moves(m.t, "active", n, client[m.t].got)
    <3>1. PICK c \in ClientRecord : c = client[m.t] /\ c.state = "active"
      BY <1>1, ClientFields DEF NetInv, Active
    <3>2. PICK d : d = [c EXCEPT !.k = n]
      OBVIOUS
    <3>3. d \in ClientRecord /\ d.state = "active" /\ d.op = c.op /\ d.file = c.file /\ d.len = c.len
          /\ d.valid = c.valid /\ d.k = n /\ d.got = c.got
      BY <3>1, <3>2 DEF ClientRecord
    <3>4. client' = [client EXCEPT ![m.t] = d] /\ client \in [Transfer -> {Idle} \cup ClientRecord]
      BY <1>1, <2>2, <3>1, <3>2 DEF NetInv, TypeOK
    <3> QED BY <1>1, <3>1, <3>3, <3>4 DEF Moves
  <2>4. PICK g : Moves(m.t, "active", n, g)
    BY <2>3
  <2>5. net \subseteq net' /\ \A p \in net' : p \notin net => p.dir = "up"
    BY <2>2 DEF FromClient
  <2> QED BY <1>1, <2>2, <2>4, <2>5, MoveKeepsDownloads
<1> QED BY <1>2, <1>3

\* A client that takes a block has the beginning of its file, or all of it.
LEMMA DataKeepsDownloads ==
  ASSUME DownloadInv, FewBlocks, NetInv', NEW m \in net, ClientData(m)
  PROVE  GotFew' /\ DataOK' /\ GotOK' /\ NothingYet' /\ SourceOK' /\ DownloadsEndWell
<1>1. NetInv
  BY DEF DownloadInv
<1>2. /\ m.t \in Transfer /\ client[m.t] # Idle /\ Active(m.t) /\ Get(m.t)
      /\ Served(m.t) /\ client[m.t].k \in Nat
      /\ Moves(m.t, IF Len(m.units) < Full THEN "done" ELSE "active",
               client[m.t].k + 1, client[m.t].got \o m.units)
      /\ net' = net \cup {FromClient(m.t, "ACK", client[m.t].k + 1)}
      /\ UNCHANGED <<server, store, latest, faults>>
  BY <1>1, DataTaken
<1>3. PICK t, f, k, g, state :
        /\ t \in Transfer /\ f \in File /\ k \in Nat
        /\ t = m.t /\ f = client[m.t].file /\ k = client[m.t].k + 1
        /\ g = client[m.t].got \o m.units
        /\ state = IF Len(m.units) < Full THEN "done" ELSE "active"
  <2>1. client[m.t].file \in File
    BY <1>1, <1>2, ServedFile
  <2>2. client[m.t].k + 1 \in Nat
    BY <1>2
  <2> QED BY <1>2, <2>1, <2>2
<1>4. Moves(t, state, k, g)
  BY <1>2, <1>3
<1>5. /\ k <= (MaxSize \div Full) + 1
      /\ Len(m.units) < Full => g = Contents(f)
      /\ ~(Len(m.units) < Full) => At(k) <= FileLen(f) /\ g = [i \in 1 .. At(k) |-> Contents(f)[i]]
  <2>1. f \in File /\ f = client[m.t].file /\ k \in Nat /\ k = client[m.t].k + 1
        /\ g = client[m.t].got \o m.units
    BY <1>3
  <2>2. \A e \in File : \A n \in Nat : \A h :
          e = client[m.t].file /\ n = client[m.t].k + 1 /\ h = client[m.t].got \o m.units =>
            /\ n <= (MaxSize \div Full) + 1
            /\ Len(m.units) < Full => h = Contents(e)
            /\ ~(Len(m.units) < Full) =>
                 At(n) <= FileLen(e) /\ h = [i \in 1 .. At(n) |-> Contents(e)[i]]
    BY ClientTakes, Zenon
  <2> QED BY <2>1, <2>2, Zenon
<1>6. net \subseteq net' /\ \A p \in net' : p \notin net => p.dir = "up"
  BY <1>2 DEF FromClient
<1>7. state = "active" => /\ Served(t)
                          /\ At(k) <= FileLen(client[t].file)
                          /\ g = [i \in 1 .. At(k) |-> Contents(client[t].file)[i]]
  BY <1>2, <1>3, <1>5
<1>8. GotFew' /\ DataOK' /\ GotOK' /\ NothingYet' /\ SourceOK'
  <2>1. UNCHANGED <<server, store>> /\ client[t] # Idle /\ Active(t) /\ t \in Transfer /\ k \in Nat
    BY <1>2, <1>3
  <2> QED BY <1>4, <1>5, <1>6, <1>7, <2>1, MoveKeepsDownloads
<1>9. DownloadsEndWell
  <2>1. SUFFICES ASSUME NEW u \in Transfer, client[u].state = "active", client'[u].state = "done"
                 PROVE  client'[u].got = Contents(client[u].file)
    BY DEF DownloadsEndWell
  <2>2. u = t /\ client'[t].got = g /\ client'[t].state = state
    BY <1>4, <2>1 DEF Moves
  <2>3. g = Contents(f)
    BY <1>3, <1>5, <2>1, <2>2
  <2> QED BY <1>3, <2>2, <2>3
<1> QED BY <1>8, <1>9

\* A client that ends otherwise has not been downloading, or has failed.
LEMMA OthersEndWell ==
  ASSUME NetInv, NEW t \in Transfer, client[t] # Idle, NEW state \in {"done", "failed"},
         Ending(t, state), Get(t) => state = "failed"
  PROVE  DownloadsEndWell
<1>1. Moves(t, state, client[t].k, client[t].got)
  BY EndingMoves
<1>2. \A u \in Transfer : Get(u) /\ client[u].state = "active" => client'[u].state # "done"
  BY <1>1 DEF Moves
<1> QED BY <1>2 DEF DownloadsEndWell, Get
\* Every step of the clients keeps the invariant, and ends downloads well.
LEMMA ClientsKeepDownloads ==
  ASSUME DownloadInv, FewBlocks, Mode, Clients, NetInv'
  PROVE  GotFew' /\ DataOK' /\ GotOK' /\ NothingYet' /\ SourceOK' /\ DownloadsEndWell
<1>1. NetInv
  BY DEF DownloadInv
<1>2. ASSUME NEW t \in Transfer, NEW op, NEW f \in File \cup {NoFile}, NEW len \in Nat,
             NEW valid \in BOOLEAN, Start(t, op, f, len, valid)
      PROVE  GotFew' /\ DataOK' /\ GotOK' /\ NothingYet' /\ SourceOK' /\ DownloadsEndWell
  <2>1. GotFew' /\ DataOK' /\ GotOK' /\ NothingYet' /\ SourceOK'
    BY <1>2, StartKeepsDownloads
  <2>2. client[t] = Idle /\ \A u \in Transfer : u # t => client'[u] = client[u]
    <3>1. client[t] = Idle /\ \E d : client' = [client EXCEPT ![t] = d]
      BY <1>2 DEF Start
    <3> QED BY <1>1, <3>1 DEF NetInv, TypeOK
  <2>3. DownloadsEndWell
    BY <2>2 DEF DownloadsEndWell
  <2> QED BY <2>1, <2>3
<1>3. ASSUME NEW t \in Transfer, NEW f \in File \cup {NoFile}, Start(t, "get", f, 0, FALSE)
      PROVE  GotFew' /\ DataOK' /\ GotOK' /\ NothingYet' /\ SourceOK' /\ DownloadsEndWell
  <2>1. 0 \in Nat /\ FALSE \in BOOLEAN
    OBVIOUS
  <2> QED BY <1>2, <1>3, <2>1
<1>4. ASSUME NEW t \in Transfer, NEW f \in File \cup {NoFile}, NEW len \in Lengths,
             NEW valid \in BOOLEAN, Start(t, "put", f, len, valid)
      PROVE  GotFew' /\ DataOK' /\ GotOK' /\ NothingYet' /\ SourceOK' /\ DownloadsEndWell
  <2>1. len \in Nat
    BY Constants
  <2> QED BY <1>2, <1>4, <2>1
<1>5. ASSUME NEW t \in Transfer, client[t] # Idle, Ending(t, "failed")
      PROVE  GotFew' /\ DataOK' /\ GotOK' /\ NothingYet' /\ SourceOK' /\ DownloadsEndWell
  BY <1>1, <1>5, EndingKeepsDownloads, OthersEndWell
<1>6. ASSUME NEW m \in net, ClientRefused(m)
      PROVE  GotFew' /\ DataOK' /\ GotOK' /\ NothingYet' /\ SourceOK' /\ DownloadsEndWell
  <2>1. Ending(m.t, "failed") /\ m.dir = "down"
    BY <1>6 DEF ClientRefused, Reaches
  <2>2. m.t \in Transfer /\ client[m.t] # Idle
    BY <1>1, <2>1 DEF NetInv, NetOK, UpOK, DownOK
  <2> QED BY <1>5, <2>1, <2>2
<1>7. ASSUME NEW m \in net, ClientAcked(m)
      PROVE  GotFew' /\ DataOK' /\ GotOK' /\ NothingYet' /\ SourceOK' /\ DownloadsEndWell
  <2>1. GotFew' /\ DataOK' /\ GotOK' /\ NothingYet' /\ SourceOK'
    BY <1>7, AckedKeepsDownloads
  <2>2. m.t \in Transfer /\ ~Get(m.t) /\ client[m.t] # Idle
    BY <1>1, <1>7, AckTaken
  <2>3. \A u \in Transfer : u # m.t => client'[u] = client[u]
    <3>1. CASE client[m.t].k = LastBlockOf(m.t)
      <4>1. Ending(m.t, "done")
        BY <1>7, <3>1 DEF ClientAcked
      <4>2. \E d : client' = [client EXCEPT ![m.t] = d]
        BY <4>1 DEF Ending
      <4> QED BY <1>1, <4>2 DEF NetInv, TypeOK
    <3>2. CASE client[m.t].k # LastBlockOf(m.t)
      <4>1. \E d : client' = [client EXCEPT ![m.t] = d]
        BY <1>7, <3>2 DEF ClientAcked
      <4> QED BY <1>1, <4>1 DEF NetInv, TypeOK
    <3> QED BY <3>1, <3>2
  <2>4. DownloadsEndWell
    <3>1. ASSUME NEW u \in Transfer, client[u] # Idle, client[u].op = "get",
                 client[u].state = "active", client'[u].state = "done"
          PROVE  FALSE
      BY <2>2, <2>3, <3>1 DEF Get
    <3> QED BY <3>1 DEF DownloadsEndWell
  <2> QED BY <2>1, <2>4
<1> QED BY <1>3, <1>4, <1>5, <1>6, <1>7, DataKeepsDownloads DEF Clients, GiveUp

\* Time and power change nothing that a download relies on while it goes on.
LEMMA PausesKeepDownloads ==
  ASSUME DownloadInv, NetInv', TimePasses \/ PowerFails \/ UNCHANGED vars
  PROVE  GotFew' /\ DataOK' /\ GotOK' /\ NothingYet' /\ SourceOK'
<1>1. /\ UNCHANGED <<client, net, flash, size, table>>
      /\ \/ fileIndex' = NoFile
         \/ UNCHANGED <<fileIndex, ioOffset, bytesLeft, lastBlock, lastSend, ioPtr, ioBuf>>
  BY DEF TimePasses, PowerFails, vars, server, store
<1>2. GotFew' /\ DataOK' /\ GotOK' /\ NothingYet'
  BY <1>1, DownloadsStay
<1>3. SourceOK'
  <2>1. SUFFICES ASSUME NEW t \in Transfer, Sending(t)', fileIndex' # NoFile
                 PROVE  SourceOf(client[t].file)'
    BY DEF SourceOK
  <2>2. PICK f : f = client[t].file
    OBVIOUS
  <2>3. UNCHANGED <<fileIndex, ioOffset, bytesLeft, lastBlock, lastSend, ioPtr, ioBuf>>
    BY <1>1, <2>1
  <2>4. SourceOf(f)
    BY <1>1, <2>1, <2>2, <2>3 DEF DownloadInv, SourceOK, Sending, Active, Get, Served, Answers
  <2>5. FileLen(f)' = FileLen(f)
    BY <1>1, ContentsStay
  <2>6. SourceOf(f)'
    BY <1>1, <2>3, <2>4, <2>5 DEF SourceOf, Smaller, At
  <2>7. SourceOf(f)' => SourceOf(client[t].file)'
    BY <1>1, <2>2
  <2> QED BY <2>6, <2>7
<1> QED BY <1>2, <1>3

\* No download goes on at first.
LEMMA InitDownloads == Init => DownloadInv
<1>1. ASSUME Init PROVE GotFew /\ DataOK /\ GotOK /\ NothingYet /\ SourceOK
  <2>1. net = {} /\ \A t \in Transfer : client[t] = Idle
    BY <1>1 DEF Init
  <2> QED BY <2>1 DEF GotFew, DataOK, GotOK, NothingYet, SourceOK, Sending, Active, Get
<1> QED BY <1>1, InitNet DEF DownloadInv

\* Every step keeps the invariant of downloads and ends them well.
LEMMA DownloadsKeep ==
  ASSUME DownloadInv, FewBlocks, Mode, [Next]_vars
  PROVE  DownloadInv' /\ DownloadsEndWell
<1>1. NetInv
  BY DEF DownloadInv
<1>2. NetInv'
  BY <1>1, NetKeeps
<1>3. CASE Clients
  BY <1>2, <1>3, ClientsKeepDownloads DEF DownloadInv
<1>4. ASSUME client' = client PROVE DownloadsEndWell
  <2>1. \A t : ~(client[t].state = "active" /\ client'[t].state = "done")
    BY <1>4
  <2> QED BY <2>1 DEF DownloadsEndWell
<1>5. ASSUME NEW m \in net, HandlePacket(m) PROVE DownloadInv' /\ DownloadsEndWell
  <2>1. client' = client
    BY <1>1, <1>5, Replies, Delivery
  <2> QED BY <1>2, <1>4, <1>5, <2>1, HandlersKeepDownloads DEF DownloadInv
<1>6. CASE TimePasses \/ PowerFails \/ UNCHANGED vars
  <2>1. client' = client
    BY <1>6 DEF TimePasses, PowerFails, vars
  <2> QED BY <1>2, <1>4, <1>6, <2>1, PausesKeepDownloads DEF DownloadInv
<1> QED BY <1>3, <1>5, <1>6 DEF Next

\* A download that ended well is the whole file as it is in the memory when it
\* ends, if packets keep their order when clients also write, and in any order of
\* all packets but the requests when they only read; and if a file does not have
\* as many blocks as there are block numbers (tftp.c).
THEOREM TftpDownloads ==
  ASSUME Mode, FewBlocks PROVE Spec => DownloadIntact
<1>1. Init => DownloadInv
  BY InitDownloads
<1>2. DownloadInv /\ [Next]_vars => DownloadInv' /\ DownloadsEndWell
  BY DownloadsKeep
<1>3. DownloadInv /\ [Next]_vars => DownloadInv' /\ [DownloadsEndWell]_vars
  BY <1>2
<1> QED BY <1>1, <1>3, PTL DEF Spec, DownloadIntact
=============================================================================
