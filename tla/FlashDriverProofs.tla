-------------------------- MODULE FlashDriverProofs --------------------------
(***************************************************************************)
(* Proofs about the flash driver, for every size of the device, its pages,  *)
(* blocks and buffer, any data, and writes inside one another to any depth: *)
(* a poll that no other write has run inside reads the status register, the *)
(* device is left answering with its contents, and nothing changes but what *)
(* a write under way may change.                                           *)
(***************************************************************************)
EXTENDS FlashDriver, TLAPS

(***************************************************************************)
(* Pages, blocks and buffers                                               *)
(***************************************************************************)
Size == Pages * Page

\* A word lies in its page.
LEMMA PageBounds ==
  ASSUME NEW a \in Nat
  PROVE  /\ PageOf(a) \in Nat /\ PageStart(a) \in Nat
         /\ PageStart(a) <= a /\ a < PageStart(a) + Page
BY FlashAssumption DEF PageOf, PageStart

\* The addresses are the numbers below the size of the device.
LEMMA AddressRange == \A a : a \in Address <=> a \in Nat /\ a < Size
BY FlashAssumption DEF Address, Size

\* There is room for one write at least.
LEMMA Depths == MaxDepth \in Nat /\ MaxDepth > 0
BY FlashAssumption

\* What is below the last but one of the writes is below the last one, and not it.
LEMMA OneLess ==
  \A d \in 1 .. MaxDepth :
    /\ d - 1 \in 0 .. MaxDepth /\ d - 1 # d
    /\ d - 1 > 0 => d - 1 \in 1 .. MaxDepth
    /\ d - 1 < d
    /\ \A i \in 1 .. MaxDepth : i < d - 1 => i < d /\ i # d
BY Depths

\* The page of a word is in the device as a whole.
LEMMA PageInDevice ==
  ASSUME NEW a \in Address
  PROVE  PageOf(a) \in 0 .. Pages - 1 /\ PageStart(a) + Page <= Size
<1>1. a \in Nat /\ a < Pages * Page
  BY FlashAssumption DEF Address
<1>2. PageOf(a) \in Nat /\ PageOf(a) * Page <= a
  BY <1>1, PageBounds DEF PageStart
<1>3. PageOf(a) < Pages
  BY <1>1, <1>2, FlashAssumption
<1>4. (PageOf(a) + 1) * Page <= Pages * Page
  BY <1>2, <1>3, FlashAssumption
<1>5. QED
  BY <1>2, <1>3, <1>4, FlashAssumption DEF PageStart, Size

\* A word is not after the end of its write buffer.
LEMMA BufferBounds ==
  ASSUME NEW a \in Nat
  PROVE  BufferEnd(a) \in Nat /\ a <= BufferEnd(a)
BY FlashAssumption DEF BufferEnd

\* A block of an upload fits into a page, and a page into the device.
LEMMA ChunkFits == Chunk <= Page /\ Page <= Size
BY FlashAssumption DEF Size

\* What a number divides is so many times that number.
LEMMA WholeBlocks ==
  ASSUME NEW d \in Nat \ {0}, NEW a \in Nat
  PROVE  a % d = 0 <=> \E j \in Nat : a = j * d
<1>1. a = (a \div d) * d + (a % d) /\ a \div d \in Nat
  OBVIOUS
<1>2. ASSUME NEW j \in Nat, a = j * d
      PROVE  a % d = 0
  <2>1. a \div d = j
    BY <1>2
  <2>2. QED
    BY <1>1, <1>2, <2>1
<1>3. a % d = 0 => a = (a \div d) * d
  BY <1>1
<1>4. QED
  BY <1>1, <1>2, <1>3

\* A page begins with an erase block, and its first word is in it.
LEMMA PageStartsWithBlock ==
  ASSUME NEW a \in Nat
  PROVE  PageStart(a) % Block = 0 /\ PageOf(PageStart(a)) = PageOf(a)
<1>1. PICK k \in Nat : Page = k * Block
  BY WholeBlocks, FlashAssumption
<1>2. PageOf(a) \in Nat
  BY PageBounds
<1>3. PageStart(a) = (PageOf(a) * k) * Block
  BY <1>1, <1>2, FlashAssumption DEF PageStart
<1>4. PageStart(a) % Block = 0
  BY <1>2, <1>3, FlashAssumption
<1>5. PageOf(PageStart(a)) = PageOf(a)
  BY <1>2, FlashAssumption DEF PageStart, PageOf
<1>6. QED
  BY <1>4, <1>5

\* What starts at a multiple of a size that divides the page is in one page.
LEMMA PartOfPage ==
  ASSUME NEW d \in Nat \ {0}, Page % d = 0, NEW a \in Address, a % d = 0
  PROVE  \A b \in a .. a + d - 1 : b \in Address /\ PageOf(b) = PageOf(a)
<1>1. PICK k \in Nat : Page = k * d
  BY WholeBlocks, FlashAssumption
<1>2. a \in Nat
  BY AddressRange
<1>3. PICK j \in Nat : a = j * d
  BY WholeBlocks, <1>2
<1> DEFINE p == PageOf(a)
<1>4. p \in Nat /\ p * Page <= a /\ a < p * Page + Page
  BY <1>2, PageBounds DEF PageStart
<1> HIDE DEF p
<1>5. j * d < (p * k + k) * d
  BY <1>1, <1>3, <1>4, FlashAssumption
<1>6. j < p * k + k
  BY <1>4, <1>5, FlashAssumption
<1>7. j + 1 <= p * k + k
  BY <1>4, <1>6
<1>8. (j + 1) * d <= (p * k + k) * d
  BY <1>4, <1>7, FlashAssumption
<1>9. a + d <= p * Page + Page
  BY <1>1, <1>3, <1>4, <1>8, FlashAssumption
<1>10. SUFFICES ASSUME NEW b \in a .. a + d - 1 PROVE b \in Address /\ PageOf(b) = p
  BY DEF p
<1>11. b \in Nat /\ p * Page <= b /\ b < p * Page + Page
  <2>1. p * Page \in Nat /\ Page \in Nat /\ d \in Nat
    BY <1>4, FlashAssumption
  <2>2. QED
    BY <1>2, <1>4, <1>9, <1>10, <2>1
<1>12. PageOf(b) = p
  BY <1>4, <1>11, FlashAssumption DEF PageOf
<1>13. p * Page + Page <= Size
  BY PageInDevice DEF p, PageStart
<1>14. b < Size
  BY <1>4, <1>11, <1>13, FlashAssumption DEF Size
<1>15. QED
  BY <1>11, <1>12, <1>14, AddressRange

\* An erase block lies in one page, and so in the device.
LEMMA BlockInPage ==
  ASSUME NEW a \in Address, a % Block = 0
  PROVE  \A b \in a .. a + Block - 1 : b \in Address /\ PageOf(b) = PageOf(a)
BY PartOfPage, FlashAssumption

\* The next erase block of a page begins in the device.
LEMMA NextBlock ==
  ASSUME NEW a \in Address, a % Block = 0, PageOf(a + Block) = PageOf(a)
  PROVE  a + Block \in Address /\ (a + Block) % Block = 0
<1>1. a \in Nat /\ a + Block \in Nat
  BY AddressRange, FlashAssumption
<1>2. a + Block < PageStart(a) + Page
  BY <1>1, PageBounds, FlashAssumption DEF PageStart
<1>3. PageStart(a) + Page <= Size /\ PageStart(a) \in Nat
  BY <1>1, PageInDevice, PageBounds
<1>4. a + Block \in Address
  BY <1>1, <1>2, <1>3, AddressRange, FlashAssumption DEF Size
<1>5. PICK j \in Nat : a = j * Block
  BY <1>1, WholeBlocks, FlashAssumption
<1>6. a + Block = (j + 1) * Block
  BY <1>5, FlashAssumption
<1>7. QED
  BY <1>1, <1>4, <1>5, <1>6, WholeBlocks, FlashAssumption

(***************************************************************************)
(* The invariant                                                           *)
(***************************************************************************)

\* What a write may change.
Touched(f) ==
  {a \in Address : \/ a \in f.at .. LastWord(f)
                   \/ Erases(f.at, f.n) /\ PageOf(a) = PageOf(LastWord(f))}

FrameOK(f) ==
  /\ f \in Frame
  /\ LastWord(f) \in Address
  /\ f.pc \in {"unlock", "erase", "erasePoll"} =>
       /\ Erases(f.at, f.n)
       /\ f.next % Block = 0 /\ PageOf(f.next) = PageOf(LastWord(f))
  /\ f.pc \in {"program", "programPoll"} => f.next \in f.at .. LastWord(f)

FramesOK == \A i \in 1 .. MaxDepth : FrameOK(frame[i])

\* There is room for the next block of the file below the parameters.
NextOK == next = -1 \/ (next \in Nat /\ next + Chunk <= Params)

PendingOK == /\ DOMAIN pending \subseteq Address
             /\ \A a \in DOMAIN pending : pending[a] \in Word

\* The device is busy with what a write waits for that nothing has run inside,
\* or a write inside that one still waits for the device to be ready.
BusyOK ==
  /\ ~dev.busy => DOMAIN pending = {}
  /\ dev.busy => \/ /\ Polling /\ ~Top.interrupted
                    /\ DOMAIN pending \subseteq Touched(Top)
                 \/ /\ Running /\ Top.pc \in {"unlock", "program"}
                    /\ \E i \in 1 .. depth : DOMAIN pending \subseteq Touched(frame[i])

InterruptedBelow == \A i \in 1 .. MaxDepth : i < depth => frame[i].interrupted

FlashInv ==
  /\ FlashTypeOK
  /\ FramesOK /\ NextOK /\ PendingOK /\ BusyOK /\ InterruptedBelow
  /\ UndisturbedPoll /\ RestsInArrayMode

(***************************************************************************)
(* The device                                                              *)
(***************************************************************************)
Device == [mode : Mode, busy : BOOLEAN, error : BOOLEAN]

\* A device that does nothing changes no word.
LEMMA NoWord == DOMAIN <<>> = {}
OBVIOUS

\* After a reset command the device answers with its contents.
LEMMA ResetGivesArray ==
  ASSUME NEW d \in Device
  PROVE  /\ ResetBank(d) \in Device
         /\ ResetBank(d).mode = "array" /\ ResetBank(d).busy = d.busy
BY DEF Device, Mode, ResetBank, SendReadArray, SendReadStatus, SendClearStatus

\* So it does after the initialisation.
LEMMA StartGivesArray ==
  ASSUME NEW d, d = Initialize([mode |-> "array", busy |-> FALSE, error |-> FALSE])
  PROVE  d \in Device /\ d.mode = "array" /\ d.busy = FALSE
<1> DEFINE start == [mode |-> "array", busy |-> FALSE, error |-> FALSE]
<1>1. SendReadId(start) \in Device /\ SendReadId(start).busy = FALSE
  BY DEF Device, Mode, SendReadId
<1>2. QED
  BY <1>1, ResetGivesArray DEF Initialize, GetPartID

\* Words that change to words leave words.
LEMMA ChangedIsMemory ==
  ASSUME cells \in [Address -> Word],
         NEW change, \A a \in DOMAIN change : change[a] \in Word
  PROVE  Changed(change) \in [Address -> Word]
BY DEF Changed

\* A poll that finds the ready bit is one that finds the device ready.
LEMMA ReadyIsReady ==
  ASSUME FlashInv, Polling, "ready" \in Polled
  PROVE  dev.busy = FALSE
<1>1. dev.busy \in BOOLEAN
  BY DEF FlashInv, FlashTypeOK
<1>2. SUFFICES ASSUME dev.busy PROVE FALSE
  BY <1>1
<1>3. ~Top.interrupted
  BY <1>2 DEF FlashInv, BusyOK, Polling
<1>4. dev.mode = "status"
  BY <1>3 DEF FlashInv, UndisturbedPoll
<1>5. Polled = {}
  BY <1>2, <1>4 DEF Polled, ReadWord, StatusRegister
<1>6. QED
  BY <1>5

\* A status of nothing but ready is ready.
LEMMA OnlyReady == Polled = Ready => "ready" \in Polled
BY DEF Ready

(***************************************************************************)
(* The device ends                                                         *)
(***************************************************************************)
LEMMA DeviceEnds ==
  ASSUME FlashInv,
         NEW done \in SUBSET DOMAIN pending,
         cells' = Changed([a \in done |-> pending[a]]),
         dev' \in Device, dev'.busy = FALSE, dev'.mode = dev.mode,
         pending' = <<>>,
         UNCHANGED <<locked, frame, depth, last, next>>
  PROVE  FlashInv'
<1>1. cells' \in [Address -> Word]
  <2>1. \A a \in done : pending[a] \in Word
    BY DEF FlashInv, PendingOK
  <2>2. QED
    BY <2>1, ChangedIsMemory DEF FlashInv, FlashTypeOK
<1>2. FlashTypeOK'
  BY <1>1 DEF FlashInv, FlashTypeOK, Device
<1>3. PendingOK' /\ BusyOK'
  BY NoWord DEF PendingOK, BusyOK
<1>4. FramesOK' /\ NextOK' /\ InterruptedBelow'
  BY DEF FlashInv, FramesOK, NextOK, InterruptedBelow
<1>5. UndisturbedPoll' /\ RestsInArrayMode'
  BY DEF FlashInv, UndisturbedPoll, RestsInArrayMode, Polling, Running, Top
<1>6. QED
  BY <1>2, <1>3, <1>4, <1>5 DEF FlashInv

\* The device ends what it does, or fails to.
LEMMA WsmKeeps ==
  ASSUME FlashInv, WsmEnds \/ WsmFails
  PROVE  FlashInv'
<1>1. dev \in Device
  BY DEF FlashInv, FlashTypeOK, Device
<1>2. CASE WsmEnds
  <2>1. Changed(pending) = Changed([a \in DOMAIN pending |-> pending[a]])
    BY DEF Changed
  <2>2. dev' \in Device /\ dev'.busy = FALSE /\ dev'.mode = dev.mode
    BY <1>1, <1>2 DEF WsmEnds, Device
  <2>3. QED
    BY <1>2, <2>1, <2>2, DeviceEnds DEF WsmEnds, program
<1>3. CASE WsmFails
  <2>1. PICK done \in SUBSET DOMAIN pending : cells' = Changed([a \in done |-> pending[a]])
    BY <1>3 DEF WsmFails
  <2>2. dev' \in Device /\ dev'.busy = FALSE /\ dev'.mode = dev.mode
    BY <1>1, <1>3 DEF WsmFails, Device
  <2>3. QED
    BY <1>3, <2>1, <2>2, DeviceEnds DEF WsmFails, program
<1>4. QED
  BY <1>2, <1>3

(***************************************************************************)
(* A write is left                                                         *)
(***************************************************************************)
LEMMA NoFrameOK == FrameOK(NoFrame)
<1>1. 0 \in Address /\ 1 \in 1 .. Chunk /\ {} \in Word
  BY ChunkFits, AddressRange, FlashAssumption DEF Word, Size
<1>2. NoFrame \in Frame
  BY <1>1 DEF NoFrame, Frame
<1>3. NoFrame.at = 0 /\ NoFrame.n = 1 /\ NoFrame.pc = "none"
  BY DEF NoFrame
<1>4. LastWord(NoFrame) = 0
  BY <1>3 DEF LastWord
<1>5. QED
  BY <1>1, <1>2, <1>3, <1>4 DEF FrameOK

\* The write at the top has a frame that is in order.
LEMMA Present ==
  ASSUME FlashInv
  PROVE  /\ frame \in [1 .. MaxDepth -> Frame] /\ depth \in 0 .. MaxDepth
         /\ Running => depth \in 1 .. MaxDepth /\ FrameOK(Top)
<1>1. frame \in [1 .. MaxDepth -> Frame] /\ depth \in 0 .. MaxDepth
  BY DEF FlashInv, FlashTypeOK
<1>2. Running => depth \in 1 .. MaxDepth
  BY <1>1, Depths DEF Running
<1>3. \A i \in 1 .. MaxDepth : FrameOK(frame[i])
  BY DEF FlashInv, FramesOK
<1>4. QED
  BY <1>1, <1>2, <1>3 DEF Top

\* Only the present write changes.
LEMMA TopBecomes ==
  ASSUME FlashInv, Running, NEW f, FrameOK(f), frame' = [frame EXCEPT ![depth] = f]
  PROVE  /\ depth \in 1 .. MaxDepth
         /\ frame' \in [1 .. MaxDepth -> Frame]
         /\ FramesOK'
         /\ frame'[depth] = f
         /\ \A i \in 1 .. MaxDepth : i # depth => frame'[i] = frame[i]
<1>1. depth \in 1 .. MaxDepth /\ frame \in [1 .. MaxDepth -> Frame]
  BY Present
<1>2. f \in Frame
  BY DEF FrameOK
<1>3. frame' \in [1 .. MaxDepth -> Frame] /\ frame'[depth] = f
  BY <1>1, <1>2
<1>4. \A i \in 1 .. MaxDepth : i # depth => frame'[i] = frame[i]
  BY <1>1
<1>5. FramesOK'
  BY <1>3, <1>4 DEF FlashInv, FramesOK
<1>6. QED
  BY <1>1, <1>3, <1>4, <1>5

\* A write that ends, with the device idle and answering with its contents or
\* having failed to unlock, leaves the writes below it as they were.
LEMMA LeavingKeeps ==
  ASSUME FlashInv, Running, dev.busy = FALSE,
         depth' = depth - 1, frame' = [frame EXCEPT ![depth] = NoFrame],
         cells' = cells, pending' = pending, locked' \in SUBSET (0 .. Pages - 1),
         dev' \in Device, dev'.busy = FALSE,
         last' \in {"stored", "error", "unlock error"},
         dev'.mode = "array" \/ last' = "unlock error",
         NextOK'
  PROVE  FlashInv'
<1>1. /\ depth \in 1 .. MaxDepth
      /\ frame' \in [1 .. MaxDepth -> Frame]
      /\ FramesOK'
      /\ \A i \in 1 .. MaxDepth : i # depth => frame'[i] = frame[i]
  BY NoFrameOK, TopBecomes
<1>2. /\ depth' \in 0 .. MaxDepth /\ depth' # depth /\ depth' < depth
      /\ depth' > 0 => depth' \in 1 .. MaxDepth
      /\ \A i \in 1 .. MaxDepth : i < depth' => i < depth /\ i # depth
  BY <1>1, OneLess, Zenon
<1>3. FlashTypeOK'
  BY <1>1, <1>2 DEF FlashInv, FlashTypeOK, Device
<1>4. PendingOK' /\ BusyOK'
  BY DEF FlashInv, PendingOK, BusyOK
<1>5. InterruptedBelow'
  <2>1. SUFFICES ASSUME NEW i \in 1 .. MaxDepth, i < depth' PROVE frame'[i].interrupted
    BY DEF InterruptedBelow
  <2>2. i < depth /\ i # depth
    BY <1>2, <2>1
  <2>3. QED
    BY <1>1, <2>2 DEF FlashInv, InterruptedBelow
<1>6. UndisturbedPoll'
  <2>1. SUFFICES ASSUME Polling' PROVE Top'.interrupted
    BY DEF UndisturbedPoll
  <2>2. depth' \in 1 .. MaxDepth /\ depth' # depth
    BY <1>2, <2>1 DEF Polling, Running
  <2>3. frame'[depth'] = frame[depth'] /\ frame[depth'].interrupted
    BY <1>1, <1>2, <2>2 DEF FlashInv, InterruptedBelow
  <2>4. QED
    BY <2>3 DEF Top
<1>7. RestsInArrayMode'
  BY DEF RestsInArrayMode
<1>8. QED
  BY <1>1, <1>3, <1>4, <1>5, <1>6, <1>7 DEF FlashInv

\* The next block of the file has room, however the write ended.
LEMMA LeaveKeepsNext ==
  ASSUME FlashInv, Running, NEW result, Leave(result)
  PROVE  NextOK'
<1>1. FrameOK(Top)
  BY Present
<1>2. Top.at \in Nat
  BY <1>1, AddressRange DEF FrameOK, Frame
<1>3. next' \in {next, -1, Top.at + Chunk}
  BY DEF Leave
<1>4. next' = Top.at + Chunk => Top.at + 2 * Chunk <= Params \/ next' = next \/ next' = -1
  BY DEF Leave
<1>5. Params \in Nat
  BY AddressRange, FlashAssumption
<1>6. CASE next' = Top.at + Chunk /\ Top.at + 2 * Chunk <= Params
  BY <1>2, <1>5, <1>6, FlashAssumption DEF NextOK
<1>7. QED
  BY <1>3, <1>4, <1>6 DEF NextOK, FlashInv

\* A write ends well, or with an error that a poll has found.
LEMMA EndKeeps ==
  ASSUME FlashInv, Written \/ PollError
  PROVE  FlashInv'
<1>1. PICK result \in {"stored", "error"} : EndWrite(result)
  BY DEF Written, PollError
<1>2. Polling /\ "ready" \in Polled
  BY OnlyReady DEF Written, PollError, At, Polling
<1>3. dev.busy = FALSE /\ Running
  BY <1>2, ReadyIsReady DEF Polling
<1>4. dev \in Device /\ locked \in SUBSET (0 .. Pages - 1)
  BY DEF FlashInv, FlashTypeOK, Device
<1>5. dev' \in Device /\ dev'.busy = FALSE /\ dev'.mode = "array"
  BY <1>1, <1>3, <1>4, ResetGivesArray DEF EndWrite
<1>6. NextOK'
  BY <1>1, <1>3, LeaveKeepsNext DEF EndWrite
<1>7. QED
  BY <1>1, <1>3, <1>4, <1>5, <1>6, LeavingKeeps DEF EndWrite, Leave

\* A write ends before anything was erased.
LEMMA UnlockFailsKeeps ==
  ASSUME FlashInv, UnlockFails
  PROVE  FlashInv'
<1>1. Running /\ dev \in Device /\ dev.busy = FALSE /\ locked \in SUBSET (0 .. Pages - 1)
  BY DEF FlashInv, FlashTypeOK, Device, UnlockFails, At
<1>2. dev' \in Device /\ dev'.busy = FALSE
  BY <1>1 DEF UnlockFails, SendReadStatus, Device, Mode
<1>3. NextOK'
  BY DEF UnlockFails, FlashInv, NextOK
<1>4. QED
  BY <1>1, <1>2, <1>3, LeavingKeeps DEF UnlockFails

\* The power fails and the device is initialised anew.
LEMMA PowerFailsKeeps ==
  ASSUME FlashInv, PowerFails
  PROVE  FlashInv'
<1>1. PICK done \in SUBSET DOMAIN pending : cells' = Changed([a \in done |-> pending[a]])
  BY DEF PowerFails
<1>2. cells' \in [Address -> Word]
  <2>1. \A a \in done : pending[a] \in Word
    BY DEF FlashInv, PendingOK
  <2>2. QED
    BY <1>1, <2>1, ChangedIsMemory DEF FlashInv, FlashTypeOK
<1>3. dev' \in Device /\ dev'.mode = "array" /\ dev'.busy = FALSE
  BY StartGivesArray DEF PowerFails
<1>4. frame' \in [1 .. MaxDepth -> Frame] /\ FramesOK'
  BY NoFrameOK DEF PowerFails, FramesOK, FrameOK
<1>5. FlashTypeOK'
  BY <1>2, <1>3, <1>4, Depths DEF PowerFails, FlashTypeOK, Device
<1>6. PendingOK' /\ BusyOK' /\ NextOK'
  BY <1>3, NoWord DEF PowerFails, PendingOK, BusyOK, NextOK
<1>7. InterruptedBelow' /\ UndisturbedPoll' /\ RestsInArrayMode'
  BY <1>3 DEF PowerFails, InterruptedBelow, UndisturbedPoll, RestsInArrayMode, Polling, Running
<1>8. QED
  BY <1>4, <1>5, <1>6, <1>7 DEF FlashInv

(***************************************************************************)
(* A write begins                                                          *)
(***************************************************************************)
LEMMA FrameRange ==
  ASSUME NEW f, FrameOK(f)
  PROVE  /\ f.at \in Nat /\ f.n \in 1 .. Chunk /\ f.next \in Address
         /\ LastWord(f) \in Nat /\ f.at <= LastWord(f) /\ LastWord(f) < Size
         /\ LastWord(f) = f.at + f.n - 1
<1>1. f.at \in Nat /\ f.n \in 1 .. Chunk /\ f.next \in Address
  BY AddressRange DEF FrameOK, Frame
<1>2. LastWord(f) \in Nat /\ LastWord(f) < Size
  BY AddressRange DEF FrameOK
<1>3. LastWord(f) = f.at + f.n - 1
  BY DEF LastWord
<1>4. Chunk \in Nat
  BY FlashAssumption
<1>5. f.at <= LastWord(f)
  BY <1>1, <1>3, <1>4
<1>6. QED
  BY <1>1, <1>2, <1>3, <1>5

\* A write inside which another one begins keeps its place.
LEMMA InterruptedOK ==
  ASSUME NEW f, FrameOK(f), NEW g, g = [f EXCEPT !.interrupted = TRUE]
  PROVE  FrameOK(g) /\ g.interrupted /\ Touched(g) = Touched(f)
<1>1. /\ g \in Frame /\ g.interrupted
      /\ g.at = f.at /\ g.n = f.n /\ g.pc = f.pc /\ g.next = f.next
  BY DEF FrameOK, Frame
<1>2. LastWord(g) = LastWord(f)
  BY <1>1 DEF LastWord
<1>3. QED
  BY <1>1, <1>2 DEF FrameOK, Touched

\* A write begins in order.
LEMMA EnteredOK ==
  ASSUME NEW kind \in {"file", "params"}, NEW at \in Address, NEW n \in 1 .. Chunk,
         NEW word \in Word, at + n - 1 \in Address,
         NEW f, f = [kind |-> kind, at |-> at, n |-> n, word |-> word, interrupted |-> FALSE,
                     pc |-> IF Erases(at, n) THEN "unlock" ELSE "program",
                     next |-> IF Erases(at, n) THEN PageStart(at + n - 1) ELSE at]
  PROVE  FrameOK(f) /\ f.pc \in {"unlock", "program"}
<1> DEFINE end == at + n - 1
<1>1. at \in Nat /\ end \in Nat /\ end < Size
  BY AddressRange
<1>2. PageStart(end) \in Address
  BY <1>1, PageBounds, AddressRange, FlashAssumption DEF Size
<1>3. f.at = at /\ f.n = n /\ LastWord(f) = end
  BY DEF LastWord
<1>4. at \in at .. end
  <2>1. Chunk \in Nat
    BY FlashAssumption
  <2>2. QED
    BY <1>1, <2>1
<1>5. PageStart(end) % Block = 0 /\ PageOf(PageStart(end)) = PageOf(end)
  BY <1>1, PageStartsWithBlock
<1> HIDE DEF end
<1>6. CASE Erases(at, n)
  <2>1. f.pc = "unlock" /\ f.next = PageStart(end)
    BY <1>6 DEF end
  <2>2. f \in Frame
    BY <1>2, <1>6 DEF Frame, end
  <2>3. QED
    BY <1>3, <1>5, <1>6, <2>1, <2>2 DEF FrameOK, end
<1>7. CASE ~ Erases(at, n)
  <2>1. f.pc = "program" /\ f.next = at
    BY <1>7
  <2>2. f \in Frame
    BY <1>7 DEF Frame
  <2>3. QED
    BY <1>3, <1>4, <2>1, <2>2 DEF FrameOK, end
<1>8. QED
  BY <1>6, <1>7

\* What is below one write more is the last one now or below it.
LEMMA OneMore ==
  \A d \in 0 .. MaxDepth : d < MaxDepth =>
    /\ d + 1 \in 1 .. MaxDepth /\ d + 1 > 0 /\ d # d + 1
    /\ d > 0 => d \in 1 .. MaxDepth /\ d \in 1 .. d + 1
    /\ \A i \in 1 .. MaxDepth : i < d + 1 => i = d \/ i < d
    /\ \A i \in 1 .. MaxDepth : i < d + 1 => i # d + 1
    /\ \A i \in 1 .. d : i \in 1 .. d + 1 /\ i \in 1 .. MaxDepth /\ i # d + 1
BY Depths

\* A write begins, perhaps inside one that polls.
LEMMA EnterKeeps ==
  ASSUME FlashInv, Polling \/ ~Running,
         NEW kind \in {"file", "params"}, NEW at \in Address, NEW n \in 1 .. Chunk,
         NEW word \in Word, at + n - 1 \in Address,
         Enter(kind, at, n, word),
         NextOK'
  PROVE  FlashInv'
<1> DEFINE f == [kind |-> kind, at |-> at, n |-> n, word |-> word, interrupted |-> FALSE,
                 pc |-> IF Erases(at, n) THEN "unlock" ELSE "program",
                 next |-> IF Erases(at, n) THEN PageStart(at + n - 1) ELSE at]
<1>1. FrameOK(f) /\ f.pc \in {"unlock", "program"}
  BY EnteredOK
<1>2. /\ depth' = depth + 1 /\ UNCHANGED <<cells, locked, dev, pending, last>>
      /\ depth < MaxDepth
  BY DEF Enter, device
<1>3. frame' = [i \in 1 .. MaxDepth |-> IF i = depth + 1 THEN f
                                        ELSE IF i = depth THEN [frame[i] EXCEPT !.interrupted = TRUE]
                                        ELSE frame[i]]
  BY DEF Enter
<1> HIDE DEF f
<1>4. depth \in 0 .. MaxDepth /\ frame \in [1 .. MaxDepth -> Frame]
  BY Present
<1>5. /\ depth' \in 1 .. MaxDepth /\ depth' > 0
      /\ depth > 0 => depth \in 1 .. MaxDepth
      /\ \A i \in 1 .. MaxDepth : i < depth' => i # depth' /\ (i = depth \/ i < depth)
      /\ \A i \in 1 .. depth : i \in 1 .. depth' /\ i \in 1 .. MaxDepth /\ i # depth'
  BY <1>2, <1>4, OneMore, Zenon
<1>6. frame'[depth'] = f
  BY <1>2, <1>3, <1>5
<1>7. \A i \in 1 .. MaxDepth : FrameOK(frame[i])
  BY DEF FlashInv, FramesOK
<1>8. \A i \in 1 .. MaxDepth : i # depth' =>
        /\ FrameOK(frame'[i]) /\ Touched(frame'[i]) = Touched(frame[i])
        /\ i = depth \/ frame[i].interrupted => frame'[i].interrupted
  <2>1. SUFFICES ASSUME NEW i \in 1 .. MaxDepth, i # depth'
                 PROVE  /\ FrameOK(frame'[i]) /\ Touched(frame'[i]) = Touched(frame[i])
                        /\ i = depth \/ frame[i].interrupted => frame'[i].interrupted
    OBVIOUS
  <2>2. CASE i = depth
    <3>1. frame'[i] = [frame[i] EXCEPT !.interrupted = TRUE]
      BY <1>2, <1>3, <2>1, <2>2
    <3>2. QED
      BY <1>7, <3>1, InterruptedOK
  <2>3. CASE i # depth
    <3>1. frame'[i] = frame[i]
      BY <1>2, <1>3, <2>1, <2>3
    <3>2. QED
      BY <1>7, <2>3, <3>1
  <2>4. QED
    BY <2>2, <2>3
<1>9. FramesOK'
  <2>1. \A i \in 1 .. MaxDepth : FrameOK(frame'[i])
    BY <1>1, <1>6, <1>8
  <2>2. QED
    BY <2>1 DEF FramesOK
<1>10. FlashTypeOK'
  <2>1. \A i \in 1 .. MaxDepth : frame'[i] \in Frame
    BY <1>9 DEF FramesOK, FrameOK
  <2>2. frame' \in [1 .. MaxDepth -> Frame]
    BY <1>3, <2>1
  <2>3. depth' \in 0 .. MaxDepth
    BY <1>5, Depths
  <2>4. QED
    BY <1>2, <2>2, <2>3 DEF FlashInv, FlashTypeOK
<1>11. Top' = f /\ Running' /\ ~Polling'
  BY <1>1, <1>5, <1>6 DEF Top, Running, Polling
<1>12. InterruptedBelow'
  BY <1>5, <1>8 DEF FlashInv, InterruptedBelow
<1>13. BusyOK'
  <2>1. ASSUME dev.busy
        PROVE  \E i \in 1 .. depth : DOMAIN pending \subseteq Touched(frame[i])
    <3>1. CASE Running /\ DOMAIN pending \subseteq Touched(Top)
      <4>1. depth \in 1 .. depth
        BY <1>4, <3>1, Depths DEF Running
      <4>2. QED
        BY <3>1, <4>1 DEF Top
    <3>2. QED
      BY <2>1, <3>1 DEF FlashInv, BusyOK, Polling
  <2>2. ASSUME dev.busy
        PROVE  \E i \in 1 .. depth' : DOMAIN pending' \subseteq Touched(frame'[i])
    BY <1>2, <1>5, <1>8, <2>1, <2>2
  <2>3. ~dev.busy => DOMAIN pending = {}
    BY DEF FlashInv, BusyOK
  <2>4. Top'.pc \in {"unlock", "program"}
    BY <1>1, <1>11
  <2>5. QED
    BY <1>2, <1>11, <2>2, <2>3, <2>4 DEF BusyOK
<1>14. PendingOK'
  BY <1>2 DEF FlashInv, PendingOK
<1>15. UndisturbedPoll' /\ RestsInArrayMode'
  BY <1>11 DEF UndisturbedPoll, RestsInArrayMode
<1>16. QED
  BY <1>9, <1>10, <1>12, <1>13, <1>14, <1>15 DEF FlashInv

\* The main program or the console begins a write.
LEMMA BeginKeeps ==
  ASSUME FlashInv, NEW n \in Lengths, NEW word \in Data,
         WriteBlock(n, word) \/ WriteParameters(n, word) \/ ConsoleWrites(n, word)
  PROVE  FlashInv'
<1>1. n \in 1 .. Chunk /\ word \in Word /\ n \in Nat /\ n >= 1 /\ n <= Chunk /\ Chunk \in Nat
  BY FlashAssumption
<1>2. \A at \in Nat : at + Chunk <= Size => at \in Address /\ at + n - 1 \in Address
  BY <1>1, AddressRange, FlashAssumption DEF Size
<1>3. 0 + Chunk <= Size /\ Params + Chunk <= Size /\ Params \in Nat
  BY AddressRange, ChunkFits, FlashAssumption DEF Size
<1>4. CASE WriteBlock(n, word) /\ Enter("file", 0, n, word)
  BY <1>1, <1>2, <1>3, <1>4, EnterKeeps DEF WriteBlock, FlashInv, NextOK
<1>5. CASE WriteBlock(n, word) /\ next # -1 /\ Enter("file", next, n, word)
  <2>1. next \in Nat /\ next + Chunk <= Params
    BY <1>5 DEF FlashInv, NextOK
  <2>2. next + Chunk <= Size
    BY <1>1, <1>3, <2>1, FlashAssumption DEF Size
  <2>3. next \in Address /\ next + n - 1 \in Address
    BY <1>2, <2>1, <2>2
  <2>4. NextOK'
    BY <1>5 DEF WriteBlock, FlashInv, NextOK
  <2>5. ~Running
    BY <1>5 DEF WriteBlock
  <2>6. QED
    BY <1>1, <1>5, <2>3, <2>4, <2>5, EnterKeeps
<1>6. CASE WriteParameters(n, word) \/ ConsoleWrites(n, word)
  <2>1. Enter("params", Params, n, word) /\ next' = next /\ (Polling \/ ~Running)
    BY <1>6 DEF WriteParameters, ConsoleWrites, StashParameters
  <2>2. Params \in Address /\ Params + n - 1 \in Address
    BY <1>2, <1>3
  <2>3. NextOK'
    BY <2>1 DEF FlashInv, NextOK
  <2>4. QED
    BY <1>1, <2>1, <2>2, <2>3, EnterKeeps
<1>7. QED
  BY <1>4, <1>5, <1>6 DEF WriteBlock

(***************************************************************************)
(* A write goes on                                                         *)
(***************************************************************************)
LEMMA GoesOnKeeps ==
  ASSUME FlashInv, Running, NEW f, FrameOK(f),
         frame' = [frame EXCEPT ![depth] = f],
         OnlyDriver, cells' = cells, locked' \in SUBSET (0 .. Pages - 1), dev' \in Device,
         PendingOK', BusyOK',
         f.pc \in {"erasePoll", "programPoll"} => dev'.mode = "status"
  PROVE  FlashInv'
<1>1. UNCHANGED <<depth, last, next>>
  BY DEF OnlyDriver, program
<1>2. /\ depth \in 1 .. MaxDepth
      /\ frame' \in [1 .. MaxDepth -> Frame]
      /\ FramesOK'
      /\ frame'[depth] = f
      /\ \A i \in 1 .. MaxDepth : i # depth => frame'[i] = frame[i]
  BY TopBecomes
<1>3. FlashTypeOK'
  BY <1>1, <1>2 DEF FlashInv, FlashTypeOK, Device
<1>4. NextOK'
  BY <1>1 DEF FlashInv, NextOK
<1>5. InterruptedBelow'
  <2>1. \A i \in 1 .. MaxDepth : i < depth => i # depth
    BY <1>2, Depths
  <2>2. QED
    BY <1>1, <1>2, <2>1 DEF FlashInv, InterruptedBelow
<1>6. UndisturbedPoll' /\ RestsInArrayMode'
  BY <1>1, <1>2 DEF UndisturbedPoll, RestsInArrayMode, Polling, Running, Top
<1>7. QED
  BY <1>2, <1>3, <1>4, <1>5, <1>6 DEF FlashInv

\* What a step of the driver and the beginning of a wait make of the frame at the top.
LEMMA StepIs ==
  ASSUME FlashInv, Running, NEW pc, NEW a
  PROVE  /\ Step(pc, a) => frame' = [frame EXCEPT ![depth] = [Top EXCEPT !.pc = pc, !.next = a]]
         /\ Wait(pc) => frame' = [frame EXCEPT ![depth] = [Top EXCEPT !.pc = pc, !.interrupted = FALSE]]
<1>1. depth \in 1 .. MaxDepth /\ frame \in [1 .. MaxDepth -> Frame] /\ Top = frame[depth]
  BY Present DEF Top
<1>2. QED
  BY <1>1 DEF Step, Wait, Frame

\* A write that goes on to an address in its page stays in order.
LEMMA SteppedOK ==
  ASSUME NEW f, FrameOK(f), NEW a \in Address,
         NEW pc \in {"erase", "program"},
         pc = "erase" => /\ Erases(f.at, f.n)
                         /\ a % Block = 0 /\ PageOf(a) = PageOf(LastWord(f)),
         pc = "program" => a \in f.at .. LastWord(f),
         NEW g, g = [f EXCEPT !.pc = pc, !.next = a]
  PROVE  FrameOK(g) /\ g.pc = pc
<1>1. g \in Frame /\ g.at = f.at /\ g.n = f.n /\ g.pc = pc /\ g.next = a
  BY DEF FrameOK, Frame
<1>2. LastWord(g) = LastWord(f)
  BY <1>1 DEF LastWord
<1>3. QED
  BY <1>1, <1>2 DEF FrameOK

\* A write that begins to wait stays in order.
LEMMA WaitingOK ==
  ASSUME NEW f, FrameOK(f), NEW pc \in {"erasePoll", "programPoll"},
         pc = "erasePoll" => f.pc = "erase",
         pc = "programPoll" => f.pc = "program",
         NEW g, g = [f EXCEPT !.pc = pc, !.interrupted = FALSE]
  PROVE  /\ FrameOK(g) /\ g.pc = pc /\ g.interrupted = FALSE
         /\ Touched(g) = Touched(f)
<1>1. /\ g \in Frame /\ g.at = f.at /\ g.n = f.n /\ g.next = f.next
      /\ g.pc = pc /\ g.interrupted = FALSE
  BY DEF FrameOK, Frame
<1>2. LastWord(g) = LastWord(f)
  BY <1>1 DEF LastWord
<1>3. QED
  BY <1>1, <1>2 DEF FrameOK, Touched

\* The device is asked for something that the present write may change.
LEMMA JobKeeps ==
  ASSUME FlashInv, Running, NEW pc \in {"erasePoll", "programPoll"},
         pc = "erasePoll" => Top.pc = "erase",
         pc = "programPoll" => Top.pc = "program",
         NEW a \in Address, NEW change,
         DOMAIN change \subseteq Touched(Top),
         \A w \in DOMAIN change : change[w] \in Word,
         SendJob(a, change), Wait(pc), OnlyDriver
  PROVE  FlashInv'
<1> DEFINE f == [Top EXCEPT !.pc = pc, !.interrupted = FALSE]
<1>1. frame' = [frame EXCEPT ![depth] = f]
  BY StepIs
<1>2. FrameOK(Top)
  BY Present
<1>3. FrameOK(f) /\ f.pc = pc /\ f.interrupted = FALSE /\ Touched(f) = Touched(Top)
  BY <1>2, WaitingOK
<1> HIDE DEF f
<1>4. dev \in Device /\ locked \in SUBSET (0 .. Pages - 1)
  BY DEF FlashInv, FlashTypeOK, Device
<1>5. dev' \in Device /\ dev'.mode = "status"
  BY <1>4 DEF SendJob, Device, Mode
<1>6. cells' = cells /\ locked' = locked
  BY DEF SendJob
<1>7. /\ dev'.busy => pending' = change
      /\ ~dev'.busy => pending' = <<>>
  BY DEF SendJob
<1>8. PendingOK'
  BY <1>5, <1>7, NoWord DEF PendingOK, Touched, Device
<1>9. BusyOK'
  <2>1. depth' = depth /\ depth \in 1 .. MaxDepth /\ depth > 0
    BY Present DEF OnlyDriver, Running
  <2>2. frame'[depth'] = f
    BY <1>1, <1>3, <2>1, TopBecomes
  <2>3. Top' = f /\ Polling'
    BY <1>3, <2>1, <2>2 DEF Top, Polling, Running
  <2>4. QED
    BY <1>3, <1>7, <2>3, NoWord DEF BusyOK
<1>10. QED
  BY <1>1, <1>3, <1>4, <1>5, <1>6, <1>8, <1>9, GoesOnKeeps

\* Nothing is asked of a device that is ready.
LEMMA ReadyKeeps ==
  ASSUME FlashInv, Running, dev.busy = FALSE,
         NEW pc \in {"erase", "program"}, NEW a \in Address,
         pc = "erase" => /\ Erases(Top.at, Top.n)
                         /\ a % Block = 0 /\ PageOf(a) = PageOf(LastWord(Top)),
         pc = "program" => a \in Top.at .. LastWord(Top),
         Step(pc, a), OnlyDriver, UNCHANGED <<cells, pending>>,
         locked' \in SUBSET (0 .. Pages - 1), dev' \in {dev, ResetBank(dev)}
  PROVE  FlashInv'
<1> DEFINE f == [Top EXCEPT !.pc = pc, !.next = a]
<1>1. frame' = [frame EXCEPT ![depth] = f]
  BY StepIs
<1>2. FrameOK(Top)
  BY Present
<1>3. FrameOK(f) /\ f.pc = pc
  BY <1>2, SteppedOK
<1> HIDE DEF f
<1>4. dev \in Device
  BY DEF FlashInv, FlashTypeOK, Device
<1>5. dev' \in Device /\ dev'.busy = FALSE
  BY <1>4, ResetGivesArray
<1>6. PendingOK' /\ BusyOK'
  BY <1>5 DEF FlashInv, PendingOK, BusyOK
<1>7. QED
  BY <1>1, <1>3, <1>5, <1>6, GoesOnKeeps

\* The blocks of a page are unlocked.
LEMMA UnlockKeeps ==
  ASSUME FlashInv, Unlock
  PROVE  FlashInv'
<1>1. Running /\ Top.pc = "unlock" /\ dev.busy = FALSE
  BY DEF Unlock, At, FlashInv, FlashTypeOK
<1>2. FrameOK(Top)
  BY <1>1, Present
<1>3. /\ Top.next \in Address /\ Erases(Top.at, Top.n)
      /\ Top.next % Block = 0 /\ PageOf(Top.next) = PageOf(LastWord(Top))
  BY <1>1, <1>2, FrameRange DEF FrameOK
<1>4. locked' \in SUBSET (0 .. Pages - 1)
  BY DEF Unlock, FlashInv, FlashTypeOK
<1>5. QED
  BY <1>1, <1>3, <1>4, ReadyKeeps DEF Unlock

\* A block is being erased from now on, and its status polled.
LEMMA EraseBlockKeeps ==
  ASSUME FlashInv, EraseBlock
  PROVE  FlashInv'
<1>1. Running /\ Top.pc = "erase"
  BY DEF EraseBlock, At
<1>2. FrameOK(Top)
  BY <1>1, Present
<1>3. /\ Top.next \in Address /\ Erases(Top.at, Top.n)
      /\ Top.next % Block = 0 /\ PageOf(Top.next) = PageOf(LastWord(Top))
  BY <1>1, <1>2, FrameRange DEF FrameOK
<1> DEFINE change == [a \in Top.next .. Top.next + Block - 1 |-> Ones]
<1>4. DOMAIN change \subseteq Touched(Top)
  BY <1>3, BlockInPage DEF Touched
<1>5. \A w \in DOMAIN change : change[w] \in Word
  BY DEF Ones, Word
<1>6. SendJob(Top.next, change) /\ Wait("erasePoll") /\ OnlyDriver
  BY DEF EraseBlock
<1> HIDE DEF change
<1>7. QED
  BY <1>1, <1>3, <1>4, <1>5, <1>6, JobKeeps

\* A block has been erased: the next one of its page follows, or the words.
LEMMA BlockErasedKeeps ==
  ASSUME FlashInv, BlockErased
  PROVE  FlashInv'
<1>1. Running /\ Polling /\ Top.pc = "erasePoll"
  BY DEF BlockErased, At, Polling
<1>2. dev.busy = FALSE
  BY <1>1, ReadyIsReady, OnlyReady DEF BlockErased
<1>3. FrameOK(Top)
  BY <1>1, Present
<1>4. /\ Top.next \in Address /\ Erases(Top.at, Top.n)
      /\ Top.next % Block = 0 /\ PageOf(Top.next) = PageOf(LastWord(Top))
  BY <1>1, <1>3, FrameRange DEF FrameOK
<1>5. UNCHANGED <<cells, pending, locked>> /\ locked \in SUBSET (0 .. Pages - 1) /\ OnlyDriver
  BY DEF BlockErased, FlashInv, FlashTypeOK
<1>6. CASE PageOf(Top.next + Block) = PageOf(Top.next)
  <2>1. Step("erase", Top.next + Block) /\ dev' = dev
    BY <1>6 DEF BlockErased
  <2>2. Top.next + Block \in Address /\ (Top.next + Block) % Block = 0
    BY <1>4, <1>6, NextBlock
  <2>3. QED
    BY <1>1, <1>2, <1>4, <1>5, <1>6, <2>1, <2>2, ReadyKeeps
<1>7. CASE PageOf(Top.next + Block) # PageOf(Top.next)
  <2>1. Step("program", Top.at) /\ dev' = ResetBank(dev)
    BY <1>7 DEF BlockErased
  <2>2. Top.at \in Address /\ Top.at \in Top.at .. LastWord(Top)
    <3>1. Top.at \in Nat /\ LastWord(Top) \in Nat /\ Top.at <= LastWord(Top)
      BY <1>3, FrameRange
    <3>2. QED
      BY <1>3, <3>1 DEF FrameOK, Frame
  <2>3. QED
    BY <1>1, <1>2, <1>5, <2>1, <2>2, ReadyKeeps
<1>8. QED
  BY <1>6, <1>7

\* A buffer is being programmed from now on, and its status polled.
LEMMA ProgramBufferKeeps ==
  ASSUME FlashInv, ProgramBuffer
  PROVE  FlashInv'
<1>1. Running /\ Top.pc = "program"
  BY DEF ProgramBuffer, At
<1>2. FrameOK(Top)
  BY <1>1, Present
<1>3. Top.next \in Address /\ Top.next \in Top.at .. LastWord(Top)
  BY <1>1, <1>2, FrameRange DEF FrameOK
<1>4. Top.at \in Nat /\ LastWord(Top) \in Nat /\ LastWord(Top) < Size
  BY <1>2, FrameRange
<1> DEFINE words == Top.next .. Least(BufferEnd(Top.next), LastWord(Top))
           change == [a \in words |-> cells[a] \cap Top.word]
<1>5. \A a \in words : a \in Address /\ a \in Top.at .. LastWord(Top)
  <2>1. Top.next \in Nat /\ Top.at <= Top.next
    BY <1>3, <1>4
  <2>2. BufferEnd(Top.next) \in Nat
    BY <2>1, BufferBounds
  <2>3. \A a \in words : a \in Nat /\ a >= Top.at /\ a <= LastWord(Top) /\ a < Size
    BY <1>4, <2>1, <2>2, FlashAssumption DEF Least, Size
  <2>4. QED
    BY <1>4, <2>3, AddressRange
<1>6. DOMAIN change \subseteq Touched(Top)
  BY <1>5 DEF Touched
<1>7. \A w \in DOMAIN change : change[w] \in Word
  <2>1. cells \in [Address -> Word]
    BY DEF FlashInv, FlashTypeOK
  <2>2. \A w \in words : cells[w] \cap Top.word \in Word
    BY <1>5, <2>1 DEF Word
  <2>3. QED
    BY <2>2
<1>8. SendJob(Top.next, change) /\ Wait("programPoll") /\ OnlyDriver
  BY DEF ProgramBuffer
<1> HIDE DEF change
<1>9. QED
  BY <1>1, <1>3, <1>6, <1>7, <1>8, JobKeeps

\* A buffer has been programmed: the next one follows.
LEMMA BufferProgrammedKeeps ==
  ASSUME FlashInv, BufferProgrammed
  PROVE  FlashInv'
<1>1. Running /\ Polling /\ Top.pc = "programPoll"
  BY DEF BufferProgrammed, At, Polling
<1>2. dev.busy = FALSE
  BY <1>1, ReadyIsReady, OnlyReady DEF BufferProgrammed
<1>3. FrameOK(Top)
  BY <1>1, Present
<1>4. /\ Top.next \in Top.at .. LastWord(Top)
      /\ Top.at \in Nat /\ LastWord(Top) \in Nat /\ LastWord(Top) < Size
  BY <1>1, <1>3, FrameRange DEF FrameOK
<1>5. Top.next \in Nat /\ Top.at <= Top.next /\ BufferEnd(Top.next) < LastWord(Top)
  BY <1>4 DEF BufferProgrammed
<1>6. BufferEnd(Top.next) \in Nat /\ Top.next <= BufferEnd(Top.next)
  BY <1>5, BufferBounds
<1> DEFINE a == BufferEnd(Top.next) + 1
<1>7. a \in Nat /\ a <= LastWord(Top) /\ Top.at <= a
  BY <1>4, <1>5, <1>6
<1>8. a \in Top.at .. LastWord(Top)
  BY <1>4, <1>7
<1>9. a \in Address
  <2>1. a < Size
    BY <1>4, <1>7, FlashAssumption DEF Size
  <2>2. QED
    BY <1>7, <2>1, AddressRange
<1>10. /\ UNCHANGED <<cells, pending, locked>> /\ locked \in SUBSET (0 .. Pages - 1)
       /\ OnlyDriver /\ dev' = dev /\ Step("program", a)
  BY DEF BufferProgrammed, device, FlashInv, FlashTypeOK
<1> HIDE DEF a
<1>11. QED
  BY <1>1, <1>2, <1>8, <1>9, <1>10, ReadyKeeps

(***************************************************************************)
(* All of them                                                             *)
(***************************************************************************)
LEMMA FlashStarts ==
  ASSUME FlashInit
  PROVE  FlashInv
<1>1. dev \in Device /\ dev.mode = "array" /\ dev.busy = FALSE
  BY StartGivesArray DEF FlashInit
<1>2. frame \in [1 .. MaxDepth -> Frame] /\ FramesOK
  BY NoFrameOK DEF FlashInit, FramesOK, FrameOK
<1>3. cells \in [Address -> Word]
  <2>1. Ones \in Word
    BY DEF Ones, Word
  <2>2. QED
    BY <2>1 DEF FlashInit
<1>4. FlashTypeOK
  <2>1. 0 \in 0 .. MaxDepth
    BY Depths
  <2>2. QED
    BY <1>1, <1>2, <1>3, <2>1 DEF FlashInit, FlashTypeOK, Device
<1>5. PendingOK /\ BusyOK /\ NextOK
  BY <1>1, NoWord DEF FlashInit, PendingOK, BusyOK, NextOK
<1>6. InterruptedBelow /\ UndisturbedPoll /\ RestsInArrayMode
  <2>1. \A i \in 1 .. MaxDepth : ~ (i < 0)
    BY Depths
  <2>2. QED
    BY <1>1, <2>1
       DEF FlashInit, InterruptedBelow, UndisturbedPoll, RestsInArrayMode, Polling, Running
<1>7. QED
  BY <1>2, <1>4, <1>5, <1>6 DEF FlashInv

\* Nothing happens.
LEMMA StutterKeeps ==
  ASSUME FlashInv, UNCHANGED FlashVars
  PROVE  FlashInv'
<1>1. UNCHANGED <<cells, locked, dev, pending, frame, depth, last, next>>
  BY DEF FlashVars, device, program
<1>2. FlashTypeOK' /\ FramesOK' /\ NextOK' /\ PendingOK'
  BY <1>1 DEF FlashInv, FlashTypeOK, FramesOK, NextOK, PendingOK
<1>3. Top' = Top /\ (Running' <=> Running) /\ (Polling' <=> Polling)
  BY <1>1 DEF Top, Running, Polling
<1>4. BusyOK' /\ InterruptedBelow' /\ UndisturbedPoll' /\ RestsInArrayMode'
  BY <1>1, <1>3 DEF FlashInv, BusyOK, InterruptedBelow, UndisturbedPoll, RestsInArrayMode
<1>5. QED
  BY <1>2, <1>4 DEF FlashInv

\* Each step keeps the invariant.
LEMMA FlashStep ==
  ASSUME FlashInv, [FlashNext]_FlashVars
  PROVE  FlashInv'
<1>1. CASE Driver
  BY <1>1, UnlockKeeps, EraseBlockKeeps, BlockErasedKeeps, ProgramBufferKeeps,
     BufferProgrammedKeeps, EndKeeps DEF Driver
<1>2. CASE UnlockFails
  BY <1>2, UnlockFailsKeeps
<1>3. CASE WsmEnds \/ WsmFails
  BY <1>3, WsmKeeps
<1>4. CASE PowerFails
  BY <1>4, PowerFailsKeeps
<1>5. CASE \E n \in Lengths, word \in Data :
             WriteBlock(n, word) \/ WriteParameters(n, word) \/ ConsoleWrites(n, word)
  BY <1>5, BeginKeeps
<1>6. CASE UNCHANGED FlashVars
  BY <1>6, StutterKeeps
<1>7. QED
  BY <1>1, <1>2, <1>3, <1>4, <1>5, <1>6 DEF FlashNext

\* The contents only change when the device ends, or the power fails, with what
\* the device is busy with.
ContentsStep ==
  \A a \in Address : cells'[a] # cells[a] =>
    \E i \in 1 .. depth : \/ a \in frame[i].at .. LastWord(frame[i])
                          \/ /\ Erases(frame[i].at, frame[i].n)
                             /\ PageOf(a) = PageOf(LastWord(frame[i]))

\* The words that change are among those a write under way erases or programs.
LEMMA ChangedContents ==
  ASSUME FlashInv, NEW done \in SUBSET DOMAIN pending,
         cells' = Changed([a \in done |-> pending[a]])
  PROVE  ContentsStep
<1>1. SUFFICES ASSUME NEW a \in Address, cells'[a] # cells[a]
               PROVE  \E i \in 1 .. depth : a \in Touched(frame[i])
  BY DEF ContentsStep, Touched
<1>2. a \in DOMAIN pending
  BY <1>1 DEF Changed
<1>3. dev.busy
  BY <1>2 DEF FlashInv, BusyOK
<1>4. CASE Polling /\ DOMAIN pending \subseteq Touched(Top)
  <2>1. depth \in 1 .. depth
    <3>1. depth \in 1 .. MaxDepth
      BY <1>4, Present DEF Polling
    <3>2. QED
      BY <3>1, Depths
  <2>2. QED
    BY <1>2, <1>4, <2>1 DEF Top
<1>5. CASE \E i \in 1 .. depth : DOMAIN pending \subseteq Touched(frame[i])
  BY <1>2, <1>5
<1>6. QED
  BY <1>3, <1>4, <1>5 DEF FlashInv, BusyOK

\* So it is in each step.
LEMMA OnlyTheDeviceChanges ==
  ASSUME FlashInv, [FlashNext]_FlashVars
  PROVE  ContentsStep
<1>1. CASE WsmEnds
  <2>1. Changed(pending) = Changed([a \in DOMAIN pending |-> pending[a]])
    BY DEF Changed
  <2>2. QED
    BY <1>1, <2>1, ChangedContents DEF WsmEnds
<1>2. CASE WsmFails \/ PowerFails
  BY <1>2, ChangedContents DEF WsmFails, PowerFails
<1>3. CASE Driver \/ UnlockFails
  <2>1. cells' = cells
    BY <1>3 DEF Driver, UnlockFails, Unlock, EraseBlock, BlockErased, ProgramBuffer,
                BufferProgrammed, Written, PollError, EndWrite, SendJob, device
  <2>2. QED
    BY <2>1 DEF ContentsStep
<1>4. CASE \E n \in Lengths, word \in Data :
             WriteBlock(n, word) \/ WriteParameters(n, word) \/ ConsoleWrites(n, word)
  <2>1. cells' = cells
    BY <1>4 DEF WriteBlock, WriteParameters, ConsoleWrites, StashParameters, Enter, device
  <2>2. QED
    BY <2>1 DEF ContentsStep
<1>5. CASE UNCHANGED FlashVars
  BY <1>5 DEF FlashVars, device, ContentsStep
<1>6. QED
  BY <1>1, <1>2, <1>3, <1>4, <1>5 DEF FlashNext

\* The state machines of all writes under way, the mode of the device and the status
\* of the last command agree with one another (FlashInv).
THEOREM FlashInvariant == FlashSpec => []FlashInv
BY FlashStarts, FlashStep, PTL DEF FlashSpec

\* The variables have their types: every word that the driver erases, programs
\* or polls is in the device, whatever the sizes and however writes are nested.
THEOREM FlashTypesHold == FlashSpec => []FlashTypeOK
<1>1. FlashInv => FlashTypeOK
  BY DEF FlashInv
<1>2. QED
  BY <1>1, FlashInvariant, PTL

\* PollSR16 reads the status register unless another write has run inside its
\* wait (xilflash_intel.c:1377-1407).
THEOREM PollsReadStatus == FlashSpec => []UndisturbedPoll
<1>1. FlashInv => UndisturbedPoll
  BY DEF FlashInv
<1>2. QED
  BY <1>1, FlashInvariant, PTL

\* When no write is under way, the device answers with its contents, unless the
\* last one could not unlock a block (xilflash_intel.c:866).
THEOREM DeviceIsReadable == FlashSpec => []RestsInArrayMode
<1>1. FlashInv => RestsInArrayMode
  BY DEF FlashInv
<1>2. QED
  BY <1>1, FlashInvariant, PTL

\* Whatever fails, and whenever the power goes, only words of a write under way
\* change, and words of the page it erases.
THEOREM OthersAreKept == FlashSpec => OnlyWhatIsWritten
<1>1. FlashInv /\ [FlashNext]_FlashVars => [ContentsStep]_FlashVars
  BY OnlyTheDeviceChanges
<1>2. OnlyWhatIsWritten <=> [][ContentsStep]_FlashVars
  BY DEF OnlyWhatIsWritten, ContentsStep
<1>3. QED
  BY <1>1, <1>2, FlashInvariant, PTL DEF FlashSpec
==============================================================================
