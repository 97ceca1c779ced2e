-------------------------- MODULE FlashStorageProofs --------------------------
(***************************************************************************)
(* Proof that what has been written without an error is in the flash        *)
(* memory, for every size of the device, its pages, blocks and buffer, all  *)
(* data, any number of files, and failures and restarts at any time, as     *)
(* long as the console has not written inside another write.               *)
(***************************************************************************)
EXTENDS FlashDriverProofs, SequenceTheorems

(***************************************************************************)
(* Pages                                                                   *)
(***************************************************************************)
LEMMA PageMonotone ==
  ASSUME NEW a \in Nat, NEW b \in Nat, a <= b
  PROVE  PageOf(a) <= PageOf(b)
<1> DEFINE p == PageOf(a)
           q == PageOf(b)
<1>1. p \in Nat /\ q \in Nat /\ p * Page <= a /\ b < q * Page + Page
  BY PageBounds DEF PageStart
<1> HIDE DEF p, q
<1>2. SUFFICES ASSUME q + 1 <= p PROVE FALSE
  BY <1>1 DEF p, q
<1>3. (q + 1) * Page <= p * Page
  BY <1>1, <1>2, FlashAssumption
<1>4. QED
  BY <1>1, <1>3, FlashAssumption

\* Where a page starts, no other page has words behind that or this one before.
LEMMA AtPageStart ==
  ASSUME NEW c \in Nat, c % Page = 0
  PROVE  /\ PageStart(c) = c
         /\ \A a \in Nat : PageOf(a) = PageOf(c) => a >= c
<1>1. PICK j \in Nat : c = j * Page
  BY WholeBlocks, FlashAssumption
<1>2. PageOf(c) = j
  BY <1>1, FlashAssumption DEF PageOf
<1>3. \A a \in Nat : PageOf(a) = PageOf(c) => PageStart(a) = c
  BY <1>1, <1>2 DEF PageStart
<1>4. \A a \in Nat : PageStart(a) \in Nat /\ PageStart(a) <= a
  BY PageBounds
<1>5. QED
  BY <1>3, <1>4

\* The word after one that is not the last of its page is in the same page.
LEMMA SamePageAfter ==
  ASSUME NEW b \in Nat, (b + 1) % Page # 0
  PROVE  PageOf(b + 1) = PageOf(b)
<1> DEFINE p == PageOf(b)
<1>1. p \in Nat /\ p * Page <= b /\ b < p * Page + Page
  BY PageBounds DEF PageStart
<1> HIDE DEF p
<1>2. b + 1 # (p + 1) * Page
  <2>1. \A c \in Nat : c % Page = 0 <=> \E j \in Nat : c = j * Page
    BY WholeBlocks, FlashAssumption
  <2>2. p + 1 \in Nat /\ b + 1 \in Nat
    BY <1>1
  <2>3. QED
    BY <2>1, <2>2
<1>3. b + 1 < p * Page + Page /\ p * Page <= b + 1
  BY <1>1, <1>2, FlashAssumption
<1>4. PageOf(b + 1) = p
  BY <1>1, <1>3, FlashAssumption DEF PageOf
<1>5. QED
  BY <1>4 DEF p

\* After a full block comes a full block.
LEMMA NextChunk ==
  ASSUME NEW a \in Nat, a % Chunk = 0
  PROVE  (a + Chunk) % Chunk = 0
<1>1. PICK j \in Nat : a = j * Chunk
  BY WholeBlocks, FlashAssumption
<1>2. a + Chunk = (j + 1) * Chunk /\ a + Chunk \in Nat
  BY <1>1, FlashAssumption
<1>3. QED
  BY <1>1, <1>2, WholeBlocks, FlashAssumption

\* The parameters have a page of the device for themselves.
LEMMA ParamsInDevice ==
  /\ Params \in Nat /\ Params % Page = 0 /\ Params \in Address
  /\ Chunk <= Params
  /\ Params + Page <= Size
  /\ Chunk \in Nat /\ Page \in Nat /\ Chunk > 0
<1>1. Params \in Nat \ {0} /\ Params % Page = 0
  BY AddressRange, FlashAssumption
<1>2. PICK j \in Nat : Params = j * Page
  BY <1>1, WholeBlocks, FlashAssumption
<1>3. j >= 1
  BY <1>1, <1>2, FlashAssumption
<1>4. Page <= Params
  BY <1>2, <1>3, FlashAssumption
<1>5. QED
  BY <1>1, <1>4, ChunkFits, FlashAssumption DEF Size

\* A block of a file is in one page, and so are the parameters.
LEMMA WriteInPage ==
  ASSUME NEW at \in Address, at % Chunk = 0 \/ at = Params, NEW n \in 1 .. Chunk
  PROVE  at + n - 1 \in Address /\ PageOf(at + n - 1) = PageOf(at)
<1>1. at \in Nat /\ n \in Nat /\ 1 <= n /\ n <= Chunk /\ n <= Page
  BY AddressRange, ChunkFits, ParamsInDevice
<1>2. CASE at % Chunk = 0
  <2>1. at + n - 1 \in at .. at + Chunk - 1
    BY <1>1, ParamsInDevice
  <2>2. QED
    BY <1>2, <2>1, PartOfPage, FlashAssumption
<1>3. CASE at = Params
  <2>1. at + n - 1 \in at .. at + Page - 1
    BY <1>1, ParamsInDevice
  <2>2. Page \in Nat \ {0} /\ Page % Page = 0 /\ at % Page = 0
    BY <1>3, ParamsInDevice, FlashAssumption
  <2>3. \A b \in at .. at + Page - 1 : b \in Address /\ PageOf(b) = PageOf(at)
    BY <2>2, PartOfPage
  <2>4. QED
    BY <2>1, <2>3
<1>4. QED
  BY <1>2, <1>3

(***************************************************************************)
(* The invariant                                                           *)
(***************************************************************************)
InPage(b) == {a \in Address : PageOf(a) = PageOf(b)}
EndOfBuffer(f) == Least(BufferEnd(f.next), LastWord(f))

EraseJob(f) == [a \in f.next .. f.next + Block - 1 |-> Ones]
ProgramJob(f) == [a \in f.next .. EndOfBuffer(f) |-> f.word]

Done(d) == ~d.busy /\ ~d.error

\* How far a write has got, for the contents c of the device, the state d it is
\* in and what it is busy with, p.
Erasing(f, c, d, p) ==
  /\ f.pc = "unlock" => f.next = PageStart(f.at)
  /\ f.pc \in {"erase", "erasePoll"} => \A a \in InPage(f.at) : a < f.next => c[a] = Ones
  /\ f.pc = "erasePoll" =>
       /\ d.busy => p = EraseJob(f)
       /\ Done(d) => \A a \in f.next .. f.next + Block - 1 : c[a] = Ones

Programming(f, c, d, p) ==
  /\ f.pc \in {"program", "programPoll"} => \A a \in Address : f.at <= a /\ a < f.next => c[a] = f.word
  /\ f.pc = "program" => \A a \in InPage(f.at) : a >= f.next => c[a] = Ones
  /\ f.pc = "programPoll" =>
       /\ \A a \in InPage(f.at) : a > EndOfBuffer(f) => c[a] = Ones
       /\ d.busy => p = ProgramJob(f)
       /\ Done(d) => \A a \in f.next .. EndOfBuffer(f) : c[a] = f.word

\* Where it goes, with s and t what has been written of the file and the parameters.
WhereTo(f, s, t) ==
  /\ f.kind \in {"file", "params"} /\ f.pc # "none" /\ f.interrupted = FALSE
  /\ PageOf(LastWord(f)) = PageOf(f.at)
  /\ f.kind = "file" => Len(s) = f.at /\ f.at + Chunk <= Params /\ f.at % Chunk = 0
  /\ f.kind = "params" => f.at = Params /\ t = <<>>

\* Where the next block goes, the flash memory is erased.
ReadyForNext(to, s, c) ==
  /\ Len(s) = to /\ to % Chunk = 0
  /\ to % Page # 0 => \A a \in InPage(to) : a >= to => c[a] = Ones

Contains(s, t, c) ==
  /\ s \in Seq(Word) /\ Len(s) <= Params
  /\ t \in Seq(Word) /\ Len(t) <= Chunk
  /\ \A i \in 1 .. Len(s) : c[i - 1] = s[i]
  /\ \A i \in 1 .. Len(t) : c[Params + i - 1] = t[i]

FileRuns == Running /\ Top.kind = "file"

StoreInv ==
  nested = 0 =>
    /\ depth <= 1
    /\ Contains(sent, stashed, cells)
    /\ dev.busy => Polling
    /\ next = -1 \/ FileRuns \/ ReadyForNext(next, sent, cells)
    /\ Running => /\ WhereTo(Top, sent, stashed)
                  /\ Erasing(Top, cells, dev, pending)
                  /\ Programming(Top, cells, dev, pending)

(***************************************************************************)
(* What a write changes is apart from what has been written before          *)
(***************************************************************************)
LEMMA OnlyTop ==
  ASSUME FlashInv, depth <= 1, Running
  PROVE  depth = 1 /\ Top = frame[1] /\ FrameOK(Top)
<1>1. depth \in 1 .. MaxDepth
  BY Present
<1>2. depth = 1
  BY <1>1, Depths
<1>3. QED
  BY <1>2, Present DEF Top

\* A write of the file touches nothing of what is written of it, nor the parameters,
\* and one of the parameters nothing before them.
LEMMA TouchedByTop ==
  ASSUME NEW f, FrameOK(f), NEW s \in Seq(Word), NEW t, WhereTo(f, s, t),
         NEW a \in Touched(f)
  PROVE  /\ a \in Nat /\ PageOf(a) = PageOf(f.at)
         /\ f.kind = "file" => a >= Len(s) /\ a < Params
         /\ f.kind = "params" => a >= Params
<1>1. /\ f.at \in Nat /\ LastWord(f) \in Nat /\ f.at <= LastWord(f)
      /\ LastWord(f) = f.at + f.n - 1 /\ f.n \in 1 .. Chunk
  BY FrameRange
<1>2. a \in Nat
  BY AddressRange DEF Touched
<1>3. PageOf(a) = PageOf(f.at)
  <2>1. CASE a \in f.at .. LastWord(f)
    <3>1. PageOf(f.at) <= PageOf(a) /\ PageOf(a) <= PageOf(LastWord(f))
      BY <1>1, <1>2, <2>1, PageMonotone
    <3>2. PageOf(a) \in Nat /\ PageOf(f.at) \in Nat
      BY <1>1, <1>2, PageBounds
    <3>3. QED
      BY <3>1, <3>2 DEF WhereTo
  <2>2. QED
    BY <2>1 DEF Touched, WhereTo
<1>4. ASSUME f.kind = "file" PROVE a >= Len(s)
  <2>1. Len(s) = f.at
    BY <1>4 DEF WhereTo
  <2>2. CASE a \in f.at .. LastWord(f)
    BY <1>1, <1>2, <2>1, <2>2
  <2>3. CASE Erases(f.at, f.n)
    <3>1. f.at % Page = 0
      BY <1>1, <2>3 DEF Erases, WhereTo
    <3>2. QED
      BY <1>1, <1>2, <1>3, <2>1, <3>1, AtPageStart
  <2>4. QED
    BY <2>2, <2>3 DEF Touched
<1>5. ASSUME f.kind = "file" PROVE a < Params
  <2>1. f.at + Chunk <= Params
    BY <1>5 DEF WhereTo
  <2>2. f.at < Params
    BY <1>1, <2>1, ParamsInDevice
  <2>3. SUFFICES ASSUME Params <= a PROVE FALSE
    BY <1>2, ParamsInDevice
  <2>4. PageOf(f.at) <= PageOf(Params) /\ PageOf(Params) <= PageOf(a)
    BY <1>1, <1>2, <2>2, <2>3, ParamsInDevice, PageMonotone
  <2>5. PageOf(f.at) \in Nat /\ PageOf(Params) \in Nat
    BY <1>1, ParamsInDevice, PageBounds
  <2>6. PageOf(f.at) = PageOf(Params)
    BY <1>3, <2>4, <2>5
  <2>7. f.at >= Params
    BY <1>1, <2>6, ParamsInDevice, AtPageStart
  <2>8. QED
    BY <1>1, <2>2, <2>7, ParamsInDevice
<1>6. ASSUME f.kind = "params" PROVE a >= Params
  <2>1. f.at = Params
    BY <1>6 DEF WhereTo
  <2>2. QED
    BY <1>2, <1>3, <2>1, ParamsInDevice, AtPageStart
<1>7. QED
  BY <1>2, <1>3, <1>4, <1>5, <1>6

\* Whatever the step, what has been written stays.
LEMMA Kept ==
  ASSUME FlashInv, StoreInv, nested = 0, ContentsStep
  PROVE  /\ Contains(sent, stashed, cells')
         /\ next = -1 \/ FileRuns \/ ReadyForNext(next, sent, cells')
<1>1. /\ depth <= 1 /\ Contains(sent, stashed, cells)
      /\ Running => WhereTo(Top, sent, stashed)
  BY DEF StoreInv
<1>2. ASSUME NEW a \in Address, cells'[a] # cells[a]
      PROVE  Running /\ a \in Touched(Top)
  <2>1. PICK i \in 1 .. depth : a \in Touched(frame[i])
    BY <1>2 DEF ContentsStep, Touched
  <2>2. depth \in 0 .. MaxDepth
    BY Present
  <2>3. i = 1 /\ depth = 1
    BY <1>1, <2>1, <2>2, Depths
  <2>4. QED
    BY <2>1, <2>3 DEF Running, Top
<1>3. /\ sent \in Seq(Word) /\ Len(sent) <= Params /\ Len(sent) \in Nat
      /\ stashed \in Seq(Word) /\ Len(stashed) <= Chunk /\ Len(stashed) \in Nat
  BY <1>1, LenProperties DEF Contains
<1>4. ASSUME NEW a \in Address, cells'[a] # cells[a]
      PROVE  /\ Running /\ a \in Nat /\ PageOf(a) = PageOf(Top.at)
             /\ Top.kind = "file" => a >= Len(sent) /\ a < Params
             /\ Top.kind = "params" => a >= Params /\ stashed = <<>> /\ Top.at = Params
             /\ Top.kind \in {"file", "params"}
  <2>1. Running /\ a \in Touched(Top) /\ FrameOK(Top) /\ WhereTo(Top, sent, stashed)
    BY <1>1, <1>2, <1>4, Present
  <2>2. QED
    BY <1>3, <2>1, TouchedByTop DEF WhereTo
<1>5. ASSUME NEW i \in 1 .. Len(sent) PROVE cells'[i - 1] = sent[i]
  <2>1. i - 1 \in Nat /\ i - 1 < Len(sent) /\ i - 1 < Params
    BY <1>3, <1>5, ParamsInDevice
  <2>2. i - 1 \in Address
    <3>1. Params + Page <= Size /\ Size \in Nat
      BY ParamsInDevice, FlashAssumption DEF Size
    <3>2. QED
      BY <2>1, <3>1, AddressRange, ParamsInDevice
  <2>3. cells'[i - 1] = cells[i - 1]
    BY <1>3, <1>4, <2>1, <2>2, ParamsInDevice
  <2>4. QED
    BY <1>1, <1>5, <2>3 DEF Contains
<1>6. ASSUME NEW i \in 1 .. Len(stashed) PROVE cells'[Params + i - 1] = stashed[i]
  <2>1. Params + i - 1 \in Nat /\ Params + i - 1 >= Params /\ Params + i - 1 < Params + Page
    BY <1>3, <1>6, ParamsInDevice, ChunkFits
  <2>2. Params + i - 1 \in Address
    <3>1. Params + Page <= Size /\ Size \in Nat
      BY ParamsInDevice, FlashAssumption DEF Size
    <3>2. QED
      BY <2>1, <3>1, AddressRange, ParamsInDevice
  <2>3. stashed # <<>>
    BY <1>3, <1>6, EmptySeq
  <2>4. cells'[Params + i - 1] = cells[Params + i - 1]
    BY <1>4, <2>1, <2>2, <2>3, ParamsInDevice
  <2>5. QED
    BY <1>1, <1>6, <2>4 DEF Contains
<1>7. Contains(sent, stashed, cells')
  BY <1>3, <1>5, <1>6 DEF Contains
<1>8. ASSUME next # -1, ~FileRuns PROVE ReadyForNext(next, sent, cells')
  <2>1. ReadyForNext(next, sent, cells) /\ next \in Nat /\ next + Chunk <= Params
    BY <1>8 DEF StoreInv, FlashInv, NextOK
  <2>2. ASSUME NEW a \in InPage(next), a >= next, next % Page # 0 PROVE cells'[a] = Ones
    <3>1. cells[a] = Ones /\ a \in Address /\ PageOf(a) = PageOf(next)
      BY <2>1, <2>2 DEF ReadyForNext, InPage
    <3>2. SUFFICES ASSUME cells'[a] # cells[a] PROVE FALSE
      BY <3>1
    <3>3. Top.kind = "params" /\ PageOf(a) = PageOf(Params)
      BY <1>4, <1>8, <3>1, <3>2 DEF FileRuns
    <3>4. next >= Params
      BY <2>1, <3>1, <3>3, ParamsInDevice, AtPageStart
    <3>5. QED
      BY <2>1, <3>4, ParamsInDevice
  <2>3. QED
    BY <2>1, <2>2 DEF ReadyForNext
<1>9. QED
  BY <1>7, <1>8

(***************************************************************************)
(* The device ends                                                         *)
(***************************************************************************)

\* The step leaves the write where it is, or takes it a step further.
LEMMA WriteGoesOn ==
  ASSUME FlashInv, StoreInv, nested = 0, ContentsStep, Running,
         UNCHANGED <<depth, sent, stashed, next>>,
         NEW f, Top' = f, WhereTo(f, sent, stashed), f.kind = Top.kind,
         dev'.busy => Polling',
         Erasing(f, cells', dev', pending'),
         Programming(f, cells', dev', pending')
  PROVE  StoreInv'
<1>1. /\ Contains(sent, stashed, cells')
      /\ next = -1 \/ FileRuns \/ ReadyForNext(next, sent, cells')
  BY Kept
<1>2. Contains(sent', stashed', cells') /\ depth' <= 1
  BY <1>1 DEF StoreInv
<1>3. FileRuns => FileRuns'
  BY DEF FileRuns, Running
<1>4. next' = -1 \/ FileRuns' \/ ReadyForNext(next', sent', cells')
  BY <1>1, <1>3
<1>5. /\ WhereTo(Top', sent', stashed')
      /\ Erasing(Top', cells', dev', pending')
      /\ Programming(Top', cells', dev', pending')
  OBVIOUS
<1>6. QED
  BY <1>2, <1>4, <1>5 DEF StoreInv

\* A poll that finds the device ready and without an error finds it done.
LEMMA PollingIsDone ==
  ASSUME FlashInv, StoreInv, nested = 0, Polling, Polled = Ready
  PROVE  Done(dev)
<1>1. Top.interrupted = FALSE
  BY DEF StoreInv, WhereTo, Polling
<1>2. dev.mode = "status"
  BY <1>1 DEF FlashInv, UndisturbedPoll
<1>3. StatusRegister(dev) = Ready
  BY <1>2 DEF Polled, ReadWord
<1>4. QED
  BY <1>3 DEF StatusRegister, Ready, Done

\* What the device was busy with is done, or some of it is with an error.
LEMMA DeviceEndsStored ==
  ASSUME FlashInv, StoreInv, nested = 0, ContentsStep, dev.busy,
         NEW done \in SUBSET DOMAIN pending,
         cells' = Changed([a \in done |-> pending[a]]),
         Done(dev') => done = DOMAIN pending,
         dev'.busy = FALSE,
         UNCHANGED <<depth, frame, sent, stashed, next>>
  PROVE  StoreInv'
<1>1. /\ Polling /\ WhereTo(Top, sent, stashed)
      /\ Erasing(Top, cells, dev, pending) /\ Programming(Top, cells, dev, pending)
  BY DEF StoreInv, Polling
<1>2. Running /\ Top' = Top /\ FrameOK(Top)
  BY <1>1, Present DEF Polling, Top
<1>3. \A a \in Address : cells'[a] = IF a \in done THEN pending[a] ELSE cells[a]
  BY DEF Changed
<1>4. CASE Top.pc = "erasePoll"
  <2>1. pending = EraseJob(Top)
    BY <1>1, <1>4 DEF Erasing
  <2>2. \A a \in DOMAIN pending : pending[a] = Ones /\ a \in Top.next .. Top.next + Block - 1
    BY <2>1 DEF EraseJob
  <2>3. \A a \in InPage(Top.at) : a < Top.next => cells'[a] = Ones
    BY <1>1, <1>3, <1>4, <2>2 DEF Erasing, InPage
  <2>4. ASSUME Done(dev') PROVE \A a \in Top.next .. Top.next + Block - 1 : cells'[a] = Ones
    <3>1. \A a \in Top.next .. Top.next + Block - 1 : a \in Address
      BY <1>2, <1>4, FrameRange, BlockInPage DEF FrameOK
    <3>2. \A a \in Top.next .. Top.next + Block - 1 : a \in done
      BY <2>1, <2>4 DEF EraseJob
    <3>3. QED
      BY <1>3, <2>2, <3>1, <3>2
  <2>5. Erasing(Top, cells', dev', pending') /\ Programming(Top, cells', dev', pending')
    BY <1>4, <2>3, <2>4 DEF Erasing, Programming
  <2>6. QED
    BY <1>1, <1>2, <2>5, WriteGoesOn
<1>5. CASE Top.pc = "programPoll"
  <2>1. pending = ProgramJob(Top)
    BY <1>1, <1>5 DEF Programming
  <2>2. \A a \in DOMAIN pending : pending[a] = Top.word /\ a \in Top.next .. EndOfBuffer(Top)
    BY <2>1 DEF ProgramJob
  <2>3. Top.next \in Nat /\ EndOfBuffer(Top) \in Nat /\ EndOfBuffer(Top) <= LastWord(Top)
    <3>1. Top.next \in Nat /\ LastWord(Top) \in Nat
      BY <1>2, FrameRange, AddressRange
    <3>2. BufferEnd(Top.next) \in Nat
      BY <3>1, BufferBounds
    <3>3. QED
      BY <3>1, <3>2 DEF EndOfBuffer, Least
  <2>4. \A a \in Address : Top.at <= a /\ a < Top.next => cells'[a] = Top.word
    BY <1>1, <1>3, <1>5, <2>2 DEF Programming
  <2>5. \A a \in InPage(Top.at) : a > EndOfBuffer(Top) => cells'[a] = Ones
    <3>1. \A a \in Address : a > EndOfBuffer(Top) => a \notin done
      BY <2>2, <2>3, AddressRange
    <3>2. QED
      BY <1>1, <1>3, <1>5, <3>1 DEF Programming, InPage
  <2>6. ASSUME Done(dev') PROVE \A a \in Top.next .. EndOfBuffer(Top) : cells'[a] = Top.word
    <3>1. \A a \in Top.next .. EndOfBuffer(Top) : a \in Address
      BY <1>2, <2>3, FrameRange, AddressRange, FlashAssumption DEF Size
    <3>2. \A a \in Top.next .. EndOfBuffer(Top) : a \in done
      BY <2>1, <2>6 DEF ProgramJob
    <3>3. QED
      BY <1>3, <2>2, <3>1, <3>2
  <2>7. Erasing(Top, cells', dev', pending') /\ Programming(Top, cells', dev', pending')
    BY <1>5, <2>4, <2>5, <2>6 DEF Erasing, Programming
  <2>8. QED
    BY <1>1, <1>2, <2>7, WriteGoesOn
<1>6. QED
  BY <1>1, <1>4, <1>5 DEF Polling

\* The device ends what it does, or fails to.
LEMMA WsmStored ==
  ASSUME FlashInv, StoreInv, nested = 0, ContentsStep, WsmEnds \/ WsmFails
  PROVE  StoreInv'
<1>1. dev.busy /\ UNCHANGED <<depth, frame, sent, stashed, next>> /\ dev'.busy = FALSE
  BY DEF WsmEnds, WsmFails, program, FlashInv, FlashTypeOK
<1>2. CASE WsmEnds
  <2>1. cells' = Changed([a \in DOMAIN pending |-> pending[a]])
    BY <1>2 DEF WsmEnds, Changed
  <2>2. QED
    BY <1>1, <2>1, DeviceEndsStored
<1>3. CASE WsmFails
  <2>1. PICK done \in SUBSET DOMAIN pending : cells' = Changed([a \in done |-> pending[a]])
    BY <1>3 DEF WsmFails
  <2>2. ~ Done(dev')
    BY <1>3 DEF WsmFails, Done, FlashInv, FlashTypeOK
  <2>3. QED
    BY <1>1, <2>1, <2>2, DeviceEndsStored
<1>4. QED
  BY <1>2, <1>3

(***************************************************************************)
(* The steps of a write                                                    *)
(***************************************************************************)
LEMMA TopSteps ==
  ASSUME FlashInv, Running, NEW pc, NEW a, Step(pc, a) \/ Wait(pc), OnlyDriver
  PROVE  /\ Step(pc, a) => Top' = [Top EXCEPT !.pc = pc, !.next = a]
         /\ Wait(pc) => Top' = [Top EXCEPT !.pc = pc, !.interrupted = FALSE]
         /\ UNCHANGED <<depth, sent, stashed, next>>
         /\ Running'
<1>1. depth \in 1 .. MaxDepth /\ frame \in [1 .. MaxDepth -> Frame]
  BY Present
<1>2. UNCHANGED <<depth, sent, stashed, next>> /\ Running'
  BY DEF OnlyDriver, program, Running
<1>3. /\ Step(pc, a) => frame' = [frame EXCEPT ![depth] = [Top EXCEPT !.pc = pc, !.next = a]]
      /\ Wait(pc) => frame' = [frame EXCEPT ![depth] = [Top EXCEPT !.pc = pc, !.interrupted = FALSE]]
  BY StepIs
<1>4. \A f : frame' = [frame EXCEPT ![depth] = f] => frame'[depth'] = f
  BY <1>1, <1>2
<1>5. QED
  BY <1>2, <1>3, <1>4 DEF Top

\* A write goes on to a block or a buffer; what is before it is erased or programmed.
LEMMA StepStored ==
  ASSUME FlashInv, StoreInv, nested = 0, ContentsStep, Running,
         NEW pc \in {"erase", "program"}, NEW a, Step(pc, a), OnlyDriver,
         dev'.busy = FALSE, cells' = cells,
         pc = "erase" => \A b \in InPage(Top.at) : b < a => cells[b] = Ones,
         pc = "program" => /\ \A b \in Address : Top.at <= b /\ b < a => cells[b] = Top.word
                           /\ \A b \in InPage(Top.at) : b >= a => cells[b] = Ones
  PROVE  StoreInv'
<1> DEFINE f == [Top EXCEPT !.pc = pc, !.next = a]
<1>1. Top' = f /\ UNCHANGED <<depth, sent, stashed, next>>
  BY TopSteps
<1>2. FrameOK(Top) /\ WhereTo(Top, sent, stashed)
  BY Present DEF StoreInv
<1>3. /\ f.pc = pc /\ f.next = a /\ f.kind = Top.kind /\ f.at = Top.at /\ f.n = Top.n
      /\ f.word = Top.word /\ f.interrupted = Top.interrupted /\ LastWord(f) = LastWord(Top)
  BY <1>2 DEF FrameOK, Frame, LastWord
<1> HIDE DEF f
<1>4. WhereTo(f, sent, stashed)
  BY <1>2, <1>3 DEF WhereTo
<1>5. Erasing(f, cells', dev', pending') /\ Programming(f, cells', dev', pending')
  BY <1>3 DEF Erasing, Programming
<1>6. QED
  BY <1>1, <1>3, <1>4, <1>5, WriteGoesOn

\* The device begins to erase a block or to program a buffer.
LEMMA JobStored ==
  ASSUME FlashInv, StoreInv, nested = 0, ContentsStep, Running,
         NEW pc \in {"erasePoll", "programPoll"}, NEW change, NEW a,
         SendJob(a, change), Wait(pc), OnlyDriver,
         pc = "erasePoll" => Top.pc = "erase" /\ change = EraseJob(Top),
         pc = "programPoll" =>
           /\ Top.pc = "program" /\ change = ProgramJob(Top)
           /\ \A b \in InPage(Top.at) : b > EndOfBuffer(Top) => cells[b] = Ones
  PROVE  StoreInv'
<1> DEFINE f == [Top EXCEPT !.pc = pc, !.interrupted = FALSE]
<1>1. Top' = f /\ UNCHANGED <<depth, sent, stashed, next>> /\ Running'
  BY TopSteps
<1>2. /\ FrameOK(Top) /\ WhereTo(Top, sent, stashed)
      /\ Erasing(Top, cells, dev, pending) /\ Programming(Top, cells, dev, pending)
  BY Present DEF StoreInv
<1>3. /\ f.pc = pc /\ f.next = Top.next /\ f.kind = Top.kind /\ f.at = Top.at /\ f.n = Top.n
      /\ f.word = Top.word /\ f.interrupted = FALSE /\ LastWord(f) = LastWord(Top)
  BY <1>2 DEF FrameOK, Frame, LastWord
<1> HIDE DEF f
<1>4. WhereTo(f, sent, stashed)
  BY <1>2, <1>3 DEF WhereTo
<1>5. EndOfBuffer(f) = EndOfBuffer(Top) /\ EraseJob(f) = EraseJob(Top) /\ ProgramJob(f) = ProgramJob(Top)
  BY <1>3 DEF EndOfBuffer, EraseJob, ProgramJob
<1>6. cells' = cells /\ (dev'.busy => pending' = change) /\ ~ Done(dev') /\ Polling'
  BY <1>1, <1>3 DEF SendJob, Done, Polling
<1>7. Erasing(f, cells', dev', pending') /\ Programming(f, cells', dev', pending')
  BY <1>2, <1>3, <1>5, <1>6 DEF Erasing, Programming
<1>8. QED
  BY <1>1, <1>3, <1>4, <1>6, <1>7, WriteGoesOn

\* The blocks of a page are unlocked.
LEMMA UnlockStored ==
  ASSUME FlashInv, StoreInv, nested = 0, ContentsStep, Unlock
  PROVE  StoreInv'
<1>1. /\ Running /\ Top.pc = "unlock" /\ Step("erase", Top.next) /\ OnlyDriver
      /\ cells' = cells /\ dev' = ResetBank(dev) /\ dev.busy = FALSE
  BY DEF Unlock, At, FlashInv, FlashTypeOK
<1>2. dev'.busy = FALSE
  BY <1>1, ResetGivesArray DEF FlashInv, FlashTypeOK, Device
<1>3. ASSUME NEW b \in InPage(Top.at), b < Top.next PROVE FALSE
  <2>1. Top.next = PageStart(Top.at)
    BY <1>1 DEF StoreInv, Erasing
  <2>2. PageStart(b) = Top.next /\ b \in Nat
    BY <1>3, <2>1, AddressRange DEF InPage, PageStart
  <2>3. PageStart(b) \in Nat /\ PageStart(b) <= b
    BY <2>2, PageBounds
  <2>4. QED
    BY <1>3, <2>2, <2>3
<1>4. QED
  BY <1>1, <1>2, <1>3, StepStored

\* A block is being erased from now on.
LEMMA EraseBlockStored ==
  ASSUME FlashInv, StoreInv, nested = 0, ContentsStep, EraseBlock
  PROVE  StoreInv'
<1>1. /\ Running /\ Top.pc = "erase" /\ OnlyDriver /\ Wait("erasePoll")
      /\ SendJob(Top.next, EraseJob(Top))
  BY DEF EraseBlock, At, EraseJob
<1>2. QED
  BY <1>1, JobStored

\* A block has been erased.
LEMMA BlockErasedStored ==
  ASSUME FlashInv, StoreInv, nested = 0, ContentsStep, BlockErased
  PROVE  StoreInv'
<1>1. /\ Running /\ Polling /\ Top.pc = "erasePoll" /\ Polled = Ready /\ OnlyDriver
      /\ cells' = cells /\ dev' \in {dev, ResetBank(dev)}
  BY DEF BlockErased, At, Polling
<1>2. Done(dev) /\ dev.busy = FALSE
  BY <1>1, PollingIsDone, OnlyReady, ReadyIsReady
<1>3. dev'.busy = FALSE
  BY <1>1, <1>2, ResetGivesArray DEF FlashInv, FlashTypeOK, Device
<1>4. FrameOK(Top) /\ WhereTo(Top, sent, stashed) /\ Erasing(Top, cells, dev, pending)
  BY <1>1, Present DEF StoreInv
<1>5. Top.next \in Nat /\ Top.at \in Nat /\ Block \in Nat /\ Top.next + Block \in Nat
  BY <1>4, FrameRange, AddressRange, FlashAssumption
<1>6. \A b \in InPage(Top.at) : b \in Nat /\ (b < Top.next + Block => cells[b] = Ones)
  <2>1. SUFFICES ASSUME NEW b \in InPage(Top.at)
                 PROVE  b \in Nat /\ (b < Top.next + Block => cells[b] = Ones)
    OBVIOUS
  <2>2. b \in Nat
    BY AddressRange DEF InPage
  <2>3. b < Top.next => cells[b] = Ones
    BY <1>1, <1>4 DEF Erasing
  <2>4. b \in Top.next .. Top.next + Block - 1 => cells[b] = Ones
    BY <1>1, <1>2, <1>4 DEF Erasing
  <2>5. QED
    BY <1>5, <2>2, <2>3, <2>4
<1>7. CASE PageOf(Top.next + Block) = PageOf(Top.next)
  <2>1. Step("erase", Top.next + Block)
    BY <1>7 DEF BlockErased
  <2>2. QED
    BY <1>1, <1>3, <1>6, <2>1, StepStored
<1>8. CASE PageOf(Top.next + Block) # PageOf(Top.next)
  <2>1. Step("program", Top.at)
    BY <1>8 DEF BlockErased
  <2>2. ASSUME NEW b \in InPage(Top.at) PROVE cells[b] = Ones
    <3>1. b \in Nat /\ PageOf(b) = PageOf(Top.at)
      BY <1>6, <2>2 DEF InPage
    <3>2. PageOf(Top.next) = PageOf(b)
      BY <1>1, <1>4, <3>1 DEF FrameOK, WhereTo
    <3>3. ASSUME Top.next + Block <= b PROVE FALSE
      <4>1. PageOf(Top.next) <= PageOf(Top.next + Block) /\ PageOf(Top.next + Block) <= PageOf(b)
        BY <1>5, <3>1, <3>3, PageMonotone
      <4>2. PageOf(Top.next + Block) \in Nat /\ PageOf(b) \in Nat
        BY <1>5, <3>1, PageBounds
      <4>3. QED
        BY <1>8, <3>2, <4>1, <4>2
    <3>4. QED
      BY <1>5, <1>6, <2>2, <3>1, <3>3
  <2>3. \A b \in Address : ~ (Top.at <= b /\ b < Top.at)
    BY <1>5, AddressRange
  <2>4. QED
    BY <1>1, <1>3, <2>1, <2>2, <2>3, StepStored
<1>9. QED
  BY <1>7, <1>8

\* A buffer is being programmed from now on.
LEMMA ProgramBufferStored ==
  ASSUME FlashInv, StoreInv, nested = 0, ContentsStep, ProgramBuffer
  PROVE  StoreInv'
<1> DEFINE change == [a \in Top.next .. EndOfBuffer(Top) |-> cells[a] \cap Top.word]
<1>1. /\ Running /\ Top.pc = "program" /\ OnlyDriver /\ Wait("programPoll")
      /\ SendJob(Top.next, change)
  BY DEF ProgramBuffer, At, EndOfBuffer
<1>2. /\ FrameOK(Top) /\ WhereTo(Top, sent, stashed)
      /\ Programming(Top, cells, dev, pending)
  BY <1>1, Present DEF StoreInv
<1>3. /\ Top.at \in Nat /\ LastWord(Top) \in Nat /\ LastWord(Top) < Size
      /\ Top.next \in Nat /\ Top.at <= Top.next
      /\ EndOfBuffer(Top) \in Nat /\ EndOfBuffer(Top) <= LastWord(Top)
      /\ Top.next <= EndOfBuffer(Top)
  <2>1. /\ Top.at \in Nat /\ LastWord(Top) \in Nat /\ LastWord(Top) < Size
        /\ Top.next \in Top.at .. LastWord(Top)
    BY <1>1, <1>2, FrameRange DEF FrameOK
  <2>2. Top.next \in Nat /\ Top.at <= Top.next /\ Top.next <= LastWord(Top)
    BY <2>1
  <2>3. BufferEnd(Top.next) \in Nat /\ Top.next <= BufferEnd(Top.next)
    BY <2>2, BufferBounds
  <2>4. QED
    BY <2>1, <2>2, <2>3 DEF EndOfBuffer, Least
<1>4. ASSUME NEW a \in Top.next .. EndOfBuffer(Top) PROVE cells[a] = Ones
  <2>1. a \in Nat /\ a <= LastWord(Top) /\ Top.at <= a /\ a >= Top.next
    BY <1>3, <1>4
  <2>2. a \in Address
    BY <1>3, <2>1, AddressRange, FlashAssumption DEF Size
  <2>3. PageOf(Top.at) <= PageOf(a) /\ PageOf(a) <= PageOf(LastWord(Top))
    BY <1>3, <2>1, PageMonotone
  <2>4. PageOf(a) = PageOf(Top.at)
    BY <1>2, <1>3, <2>1, <2>3, PageBounds DEF WhereTo
  <2>5. QED
    BY <1>1, <1>2, <2>1, <2>2, <2>4 DEF Programming, InPage
<1>5. change = ProgramJob(Top)
  <2>1. Ones \cap Top.word = Top.word
    BY <1>2 DEF FrameOK, Frame, Word, Ones
  <2>2. QED
    BY <1>4, <2>1 DEF ProgramJob
<1> HIDE DEF change
<1>6. ASSUME NEW b \in InPage(Top.at), b > EndOfBuffer(Top) PROVE cells[b] = Ones
  <2>1. b \in Nat
    BY <1>6, AddressRange DEF InPage
  <2>2. b >= Top.next
    BY <1>3, <1>6, <2>1
  <2>3. QED
    BY <1>1, <1>2, <1>6, <2>2 DEF Programming
<1>7. QED
  BY <1>1, <1>5, <1>6, JobStored

\* A buffer has been programmed, and another one follows.
LEMMA BufferProgrammedStored ==
  ASSUME FlashInv, StoreInv, nested = 0, ContentsStep, BufferProgrammed
  PROVE  StoreInv'
<1>1. /\ Running /\ Polling /\ Top.pc = "programPoll" /\ Polled = Ready /\ OnlyDriver
      /\ cells' = cells /\ dev' = dev /\ BufferEnd(Top.next) < LastWord(Top)
      /\ Step("program", BufferEnd(Top.next) + 1)
  BY DEF BufferProgrammed, At, Polling, device
<1>2. Done(dev) /\ dev'.busy = FALSE
  BY <1>1, PollingIsDone, OnlyReady, ReadyIsReady
<1>3. FrameOK(Top) /\ Programming(Top, cells, dev, pending)
  BY <1>1, Present DEF StoreInv
<1>4. Top.next \in Nat /\ LastWord(Top) \in Nat
  BY <1>3, FrameRange, AddressRange
<1>5. BufferEnd(Top.next) \in Nat
  BY <1>4, BufferBounds
<1>6. EndOfBuffer(Top) = BufferEnd(Top.next)
  BY <1>1 DEF EndOfBuffer, Least
<1>7. ASSUME NEW b \in Address, Top.at <= b, b < BufferEnd(Top.next) + 1
      PROVE  cells[b] = Top.word
  <2>1. b \in Nat
    BY AddressRange
  <2>2. b < Top.next \/ b \in Top.next .. EndOfBuffer(Top)
    BY <1>4, <1>5, <1>6, <1>7, <2>1
  <2>3. QED
    BY <1>1, <1>2, <1>3, <1>7, <2>2 DEF Programming
<1>8. ASSUME NEW b \in InPage(Top.at), b >= BufferEnd(Top.next) + 1 PROVE cells[b] = Ones
  <2>1. b \in Nat
    BY AddressRange DEF InPage
  <2>2. b > EndOfBuffer(Top)
    BY <1>5, <1>6, <1>8, <2>1
  <2>3. QED
    BY <1>1, <1>3, <1>8, <2>2 DEF Programming
<1>9. QED
  BY <1>1, <1>2, <1>7, <1>8, StepStored

(***************************************************************************)
(* A write ends                                                            *)
(***************************************************************************)
LEMMA TextIs ==
  ASSUME NEW f, FrameOK(f)
  PROVE  /\ Text(f) \in Seq(Word) /\ Len(Text(f)) = f.n
         /\ \A i \in 1 .. f.n : Text(f)[i] = f.word
<1>1. f.n \in Nat /\ f.word \in Word
  BY ParamsInDevice DEF FrameOK, Frame
<1>2. Text(f) \in [1 .. f.n -> Word]
  BY <1>1 DEF Text
<1>3. Text(f) \in Seq(Word)
  BY <1>1, <1>2, SeqDef
<1>4. Len(Text(f)) = f.n
  BY <1>1, <1>2, <1>3, LenProperties
<1>5. QED
  BY <1>3, <1>4 DEF Text

\* No write is under way afterwards, and what is stored has changed in nothing.
LEMMA NothingAdded ==
  ASSUME FlashInv, StoreInv, nested = 0, ContentsStep,
         depth' = 0, UNCHANGED <<sent, stashed>>, dev'.busy = FALSE,
         next' = -1 \/ (next' = next /\ ~FileRuns)
  PROVE  StoreInv'
<1>1. /\ Contains(sent, stashed, cells')
      /\ next = -1 \/ FileRuns \/ ReadyForNext(next, sent, cells')
  BY Kept
<1>2. ~Running'
  BY DEF Running
<1>3. QED
  BY <1>1, <1>2 DEF StoreInv

\* A write that ends well has programmed all its words and left those after them
\* in its page erased.
LEMMA AllWritten ==
  ASSUME FlashInv, StoreInv, nested = 0, Written
  PROVE  /\ \A a \in Address : Top.at <= a /\ a <= LastWord(Top) => cells[a] = Top.word
         /\ \A a \in InPage(Top.at) : a > LastWord(Top) => cells[a] = Ones
<1>1. /\ Polling /\ Running /\ Top.pc = "programPoll" /\ Polled = Ready
      /\ BufferEnd(Top.next) >= LastWord(Top)
  BY DEF Written, At, Polling
<1>2. Done(dev)
  BY <1>1, PollingIsDone
<1>3. FrameOK(Top) /\ Programming(Top, cells, dev, pending)
  BY <1>1, Present DEF StoreInv
<1>4. Top.next \in Nat /\ LastWord(Top) \in Nat /\ BufferEnd(Top.next) \in Nat
  BY <1>3, FrameRange, AddressRange, BufferBounds
<1>5. EndOfBuffer(Top) = LastWord(Top)
  BY <1>1, <1>4 DEF EndOfBuffer, Least
<1>6. ASSUME NEW a \in Address, Top.at <= a, a <= LastWord(Top) PROVE cells[a] = Top.word
  <2>1. a < Top.next \/ a \in Top.next .. EndOfBuffer(Top)
    BY <1>4, <1>5, <1>6, AddressRange
  <2>2. QED
    BY <1>1, <1>2, <1>3, <1>6, <2>1 DEF Programming
<1>7. QED
  BY <1>1, <1>3, <1>5, <1>6 DEF Programming

\* So what has been written of the file or the parameters grows by those words.
LEMMA WrittenStored ==
  ASSUME FlashInv, StoreInv, nested = 0, ContentsStep, Written
  PROVE  StoreInv'
<1>1. /\ Running /\ EndWrite("stored") /\ cells' = cells
      /\ Polling /\ Polled = Ready
  BY DEF Written, At, EndWrite, Polling
<1>2. /\ FrameOK(Top) /\ WhereTo(Top, sent, stashed) /\ Contains(sent, stashed, cells)
      /\ depth = 1
  BY <1>1, Present, OnlyTop DEF StoreInv
<1>3. depth' = 0 /\ ~Running'
  BY <1>1, <1>2 DEF EndWrite, Leave, Running
<1>4. dev'.busy = FALSE
  BY <1>1, ReadyIsReady, OnlyReady, ResetGivesArray
     DEF EndWrite, FlashInv, FlashTypeOK, Device
<1>5. /\ \A a \in Address : Top.at <= a /\ a <= LastWord(Top) => cells[a] = Top.word
      /\ \A a \in InPage(Top.at) : a > LastWord(Top) => cells[a] = Ones
  BY AllWritten
<1>6. /\ Top.at \in Nat /\ LastWord(Top) \in Nat /\ LastWord(Top) < Size
      /\ LastWord(Top) = Top.at + Top.n - 1
      /\ Top.n \in Nat /\ 1 <= Top.n /\ Top.n <= Chunk
  BY <1>2, FrameRange, ParamsInDevice
<1>7. ASSUME NEW i \in 1 .. Top.n PROVE cells[Top.at + i - 1] = Top.word
  <2>1. Top.at + i - 1 \in Nat /\ Top.at <= Top.at + i - 1 /\ Top.at + i - 1 <= LastWord(Top)
    BY <1>6, <1>7
  <2>2. Top.at + i - 1 \in Address
    BY <1>6, <2>1, AddressRange, FlashAssumption DEF Size
  <2>3. QED
    BY <1>5, <2>1, <2>2
<1>8. /\ Text(Top) \in Seq(Word) /\ Len(Text(Top)) = Top.n
      /\ \A i \in 1 .. Top.n : Text(Top)[i] = Top.word
  BY <1>2, TextIs
<1>9. CASE Top.kind = "file"
  <2>1. /\ sent' = sent \o Text(Top) /\ stashed' = stashed
        /\ next' = IF Top.n = Chunk /\ Top.at + 2 * Chunk <= Params THEN Top.at + Chunk ELSE -1
    BY <1>1, <1>9 DEF EndWrite, Leave
  <2>2. /\ sent \in Seq(Word) /\ Len(sent) = Top.at
        /\ Top.at + Chunk <= Params /\ Top.at % Chunk = 0
    BY <1>2, <1>9 DEF WhereTo, Contains
  <2>3. /\ sent' \in Seq(Word) /\ Len(sent') = Top.at + Top.n
        /\ \A i \in 1 .. Top.at + Top.n :
             sent'[i] = IF i <= Top.at THEN sent[i] ELSE Text(Top)[i - Top.at]
    <3>1. LET both == sent \o Text(Top)
          IN /\ both \in Seq(Word) /\ Len(both) = Len(sent) + Len(Text(Top))
             /\ \A i \in 1 .. Len(sent) + Len(Text(Top)) :
                  both[i] = IF i <= Len(sent) THEN sent[i] ELSE Text(Top)[i - Len(sent)]
      BY <1>8, <2>2, ConcatProperties
    <3>2. QED
      BY <1>8, <2>1, <2>2, <3>1
  <2>4. ASSUME NEW i \in 1 .. Len(sent') PROVE cells[i - 1] = sent'[i]
    <3>1. CASE i <= Top.at
      <4>1. i \in 1 .. Len(sent) /\ sent'[i] = sent[i]
        BY <1>6, <2>2, <2>3, <2>4, <3>1
      <4>2. QED
        BY <1>2, <4>1 DEF Contains
    <3>2. CASE i > Top.at
      <4>1. i - Top.at \in 1 .. Top.n /\ Top.at + (i - Top.at) - 1 = i - 1 /\ ~ (i <= Top.at)
        BY <1>6, <2>3, <2>4, <3>2
      <4>2. cells[Top.at + (i - Top.at) - 1] = Top.word /\ Text(Top)[i - Top.at] = Top.word
        BY <1>7, <1>8, <4>1
      <4>3. QED
        BY <2>3, <2>4, <4>1, <4>2
    <3>3. QED
      BY <1>6, <2>3, <2>4, <3>1, <3>2
  <2>5. Contains(sent', stashed', cells')
    <3>1. Len(sent') <= Params
      BY <1>6, <2>2, <2>3, ParamsInDevice
    <3>2. QED
      BY <1>1, <1>2, <2>1, <2>3, <2>4, <3>1 DEF Contains
  <2>6. ASSUME next' # -1 PROVE ReadyForNext(next', sent', cells')
    <3>1. Top.n = Chunk /\ next' = Top.at + Chunk
      BY <2>1, <2>6
    <3>2. Len(sent') = next' /\ next' % Chunk = 0
      BY <1>6, <2>2, <2>3, <3>1, NextChunk
    <3>3. ASSUME next' % Page # 0, NEW a \in InPage(next'), a >= next' PROVE cells'[a] = Ones
      <4>1. next' = LastWord(Top) + 1
        BY <1>6, <3>1, ParamsInDevice
      <4>2. PageOf(next') = PageOf(LastWord(Top))
        BY <1>6, <3>3, <4>1, SamePageAfter
      <4>3. a \in InPage(Top.at)
        BY <1>2, <3>3, <4>2 DEF InPage, WhereTo
      <4>4. a \in Nat
        BY <3>3, AddressRange DEF InPage
      <4>5. a > LastWord(Top)
        BY <1>6, <3>3, <4>1, <4>4
      <4>6. QED
        BY <1>1, <1>5, <4>3, <4>5
    <3>4. QED
      BY <3>2, <3>3 DEF ReadyForNext
  <2>7. QED
    BY <1>3, <1>4, <2>5, <2>6 DEF StoreInv
<1>10. CASE Top.kind = "params"
  <2>1. stashed' = Text(Top) /\ sent' = sent /\ next' = next
    BY <1>1, <1>10 DEF EndWrite, Leave
  <2>2. Top.at = Params
    BY <1>2, <1>10 DEF WhereTo
  <2>3. Contains(sent', stashed', cells')
    BY <1>1, <1>2, <1>6, <1>7, <1>8, <2>1, <2>2 DEF Contains
  <2>4. next' = -1 \/ ReadyForNext(next', sent', cells')
    BY <1>1, <1>10, <2>1 DEF StoreInv, FileRuns
  <2>5. QED
    BY <1>3, <1>4, <2>3, <2>4 DEF StoreInv
<1>11. QED
  BY <1>2, <1>9, <1>10 DEF WhereTo

\* A write ends with an error: its words are not counted as written.
LEMMA PollErrorStored ==
  ASSUME FlashInv, StoreInv, nested = 0, ContentsStep, PollError
  PROVE  StoreInv'
<1>1. Running /\ Polling /\ "ready" \in Polled /\ EndWrite("error") /\ Leave("error")
  BY DEF PollError, Polling, EndWrite
<1>2. depth = 1 /\ WhereTo(Top, sent, stashed)
  BY <1>1, OnlyTop DEF StoreInv
<1>3. depth' = 0 /\ UNCHANGED <<sent, stashed>>
  BY <1>1, <1>2 DEF Leave
<1>4. next' = -1 \/ (next' = next /\ ~FileRuns)
  BY <1>1 DEF Leave, FileRuns
<1>5. dev'.busy = FALSE
  BY <1>1, ReadyIsReady, ResetGivesArray DEF EndWrite, FlashInv, FlashTypeOK, Device
<1>6. QED
  BY <1>3, <1>4, <1>5, NothingAdded

\* A write ends before anything was erased.
LEMMA UnlockFailsStored ==
  ASSUME FlashInv, StoreInv, nested = 0, ContentsStep, UnlockFails
  PROVE  StoreInv'
<1>1. Running /\ dev.busy = FALSE /\ dev \in Device
  BY DEF UnlockFails, At, FlashInv, FlashTypeOK, Device
<1>2. depth' = 0 /\ UNCHANGED <<sent, stashed>>
  <2>1. depth = 1
    BY <1>1, OnlyTop DEF StoreInv
  <2>2. depth' = depth - 1 /\ UNCHANGED <<sent, stashed>>
    BY DEF UnlockFails
  <2>3. QED
    BY <2>1, <2>2
<1>3. next' = -1 \/ (next' = next /\ ~FileRuns)
  BY DEF UnlockFails, FileRuns
<1>4. dev'.busy = FALSE
  BY <1>1 DEF UnlockFails, SendReadStatus, Device
<1>5. QED
  BY <1>2, <1>3, <1>4, NothingAdded

\* The power fails in the middle of what the device does.
LEMMA PowerFailsStored ==
  ASSUME FlashInv, StoreInv, nested = 0, ContentsStep, PowerFails
  PROVE  StoreInv'
<1>1. dev'.busy = FALSE
  BY StartGivesArray DEF PowerFails
<1>2. QED
  BY <1>1, NothingAdded DEF PowerFails

(***************************************************************************)
(* A write begins                                                          *)
(***************************************************************************)
LEMMA EnterStored ==
  ASSUME FlashInv, StoreInv, nested = 0, ~Running,
         NEW kind \in {"file", "params"}, NEW at \in Address,
         at % Chunk = 0 \/ at = Params,
         NEW n \in 1 .. Chunk, NEW word \in Word,
         Enter(kind, at, n, word), next' = next,
         kind = "file" => /\ Len(sent') = at /\ at + Chunk <= Params /\ at % Chunk = 0
                          /\ sent' \in {sent, <<>>} /\ stashed' = stashed,
         kind = "params" => at = Params /\ stashed' = <<>> /\ sent' = sent,
         at % Page # 0 => \A a \in InPage(at) : a >= at => cells[a] = Ones
  PROVE  StoreInv'
<1> DEFINE f == [kind |-> kind, at |-> at, n |-> n, word |-> word, interrupted |-> FALSE,
                 pc |-> IF Erases(at, n) THEN "unlock" ELSE "program",
                 next |-> IF Erases(at, n) THEN PageStart(at + n - 1) ELSE at]
<1>1. depth \in 0 .. MaxDepth /\ depth = 0
  BY Present, Depths DEF Running
<1>2. /\ depth' = 1 /\ UNCHANGED <<cells, dev>> /\ 1 \in 1 .. MaxDepth
  BY <1>1, Depths DEF Enter, device
<1>3. Top' = f
  BY <1>1, <1>2 DEF Enter, Top
<1>4. f.kind = kind /\ f.at = at /\ f.n = n /\ f.interrupted = FALSE /\ LastWord(f) = at + n - 1
  BY DEF LastWord
<1>5. /\ f.pc \in {"unlock", "program"}
      /\ f.pc = "unlock" => f.next = PageStart(at + n - 1)
      /\ f.pc = "program" => ~ Erases(at, n) /\ f.next = at
  OBVIOUS
<1> HIDE DEF f
<1>6. PageOf(at + n - 1) = PageOf(at)
  BY WriteInPage
<1>7. WhereTo(f, sent', stashed')
  BY <1>4, <1>5, <1>6 DEF WhereTo
<1>8. Erasing(f, cells', dev', pending')
  BY <1>4, <1>5, <1>6 DEF Erasing, PageStart
<1>9. Programming(f, cells', dev', pending')
  <2>1. CASE f.pc = "program"
    <3>1. f.next = at /\ at % Page # 0
      BY <1>5, <2>1 DEF Erases
    <3>2. \A a \in Address : ~ (at <= a /\ a < at)
      BY AddressRange
    <3>3. QED
      BY <1>2, <1>4, <2>1, <3>1, <3>2 DEF Programming
  <2>2. CASE f.pc = "unlock"
    BY <2>2 DEF Programming
  <2>3. QED
    BY <1>5, <2>1, <2>2
<1>10. Contains(sent', stashed', cells')
  <2>1. Contains(sent, stashed, cells)
    BY DEF StoreInv
  <2>2. <<>> \in Seq(Word) /\ Len(<<>>) = 0
    BY EmptySeq, ParamsInDevice
  <2>3. sent' \in {sent, <<>>} /\ stashed' \in {stashed, <<>>}
    OBVIOUS
  <2>4. 0 <= Params /\ 0 <= Chunk /\ 1 .. 0 = {}
    BY ParamsInDevice
  <2>5. /\ sent' \in Seq(Word) /\ Len(sent') <= Params
        /\ \A i \in 1 .. Len(sent') : cells[i - 1] = sent'[i]
    BY <2>1, <2>2, <2>3, <2>4 DEF Contains
  <2>6. /\ stashed' \in Seq(Word) /\ Len(stashed') <= Chunk
        /\ \A i \in 1 .. Len(stashed') : cells[Params + i - 1] = stashed'[i]
    BY <2>1, <2>2, <2>3, <2>4 DEF Contains
  <2>7. QED
    BY <1>2, <2>5, <2>6 DEF Contains
<1>11. dev'.busy = FALSE
  <2>1. ~dev.busy
    BY DEF FlashInv, BusyOK, Polling
  <2>2. QED
    BY <1>2, <2>1 DEF FlashInv, FlashTypeOK
<1>12. next' = -1 \/ FileRuns' \/ ReadyForNext(next', sent', cells')
  <2>1. CASE kind = "file"
    BY <1>2, <1>3, <1>4, <2>1 DEF FileRuns, Running
  <2>2. CASE kind = "params"
    BY <1>2, <2>2 DEF StoreInv, FileRuns
  <2>3. QED
    BY <2>1, <2>2
<1>13. QED
  BY <1>2, <1>3, <1>7, <1>8, <1>9, <1>10, <1>11, <1>12 DEF StoreInv

\* The main program begins a write, where there is room and after what is written.
LEMMA BeginStored ==
  ASSUME FlashInv, StoreInv, nested = 0, NEW n \in Lengths, NEW word \in Data,
         WriteBlock(n, word) \/ WriteParameters(n, word)
  PROVE  StoreInv'
<1>1. n \in 1 .. Chunk /\ word \in Word /\ ~Running
  BY FlashAssumption DEF WriteBlock, WriteParameters
<1>2. CASE WriteBlock(n, word) /\ Enter("file", 0, n, word) /\ sent' = <<>>
  <2>1. 0 \in Address /\ 0 % Chunk = 0 /\ 0 % Page = 0 /\ 0 + Chunk <= Params
    BY AddressRange, ParamsInDevice, ChunkFits, FlashAssumption DEF Size
  <2>2. Len(sent') = 0
    BY <1>2, EmptySeq
  <2>3. next' = next /\ stashed' = stashed
    BY <1>2 DEF WriteBlock
  <2>4. QED
    BY <1>1, <1>2, <2>1, <2>2, <2>3, EnterStored
<1>3. CASE WriteBlock(n, word) /\ next # -1 /\ Enter("file", next, n, word) /\ sent' = sent
  <2>1. ReadyForNext(next, sent, cells) /\ next \in Nat /\ next + Chunk <= Params
    BY <1>1, <1>3 DEF StoreInv, FileRuns, FlashInv, NextOK
  <2>2. next \in Address
    <3>1. next < Size
      BY <2>1, ParamsInDevice, FlashAssumption DEF Size
    <3>2. QED
      BY <2>1, <3>1, AddressRange
  <2>3. next' = next /\ stashed' = stashed
    BY <1>3 DEF WriteBlock
  <2>4. QED
    BY <1>1, <1>3, <2>1, <2>2, <2>3, EnterStored DEF ReadyForNext
<1>4. CASE WriteParameters(n, word)
  <2>1. Enter("params", Params, n, word) /\ stashed' = <<>> /\ sent' = sent /\ next' = next
    BY <1>4 DEF WriteParameters, StashParameters
  <2>2. QED
    BY <1>1, <2>1, ParamsInDevice, EnterStored
<1>5. QED
  BY <1>2, <1>3, <1>4 DEF WriteBlock

(***************************************************************************)
(* All of them                                                             *)
(***************************************************************************)
LEMMA NestedGrows ==
  ASSUME FlashInv, nested \in Nat, [FlashNext]_FlashVars
  PROVE  /\ nested' \in Nat
         /\ nested' = 0 => nested = 0
         /\ \A n \in Lengths, word \in Data : ConsoleWrites(n, word) => nested' # 0
<1>1. nested' \in {nested, nested + 1}
  BY DEF FlashNext, FlashVars, bounds, Driver, Unlock, EraseBlock, BlockErased, ProgramBuffer,
         BufferProgrammed, Written, PollError, EndWrite, Leave, OnlyDriver, UnlockFails, WsmEnds,
         WsmFails, PowerFails, WriteBlock, WriteParameters, ConsoleWrites, StashParameters
<1>2. \A n \in Lengths, word \in Data : ConsoleWrites(n, word) => nested' = nested + 1
  BY DEF ConsoleWrites
<1>3. QED
  BY <1>1, <1>2

\* Each step keeps the invariant.
LEMMA StoreStep ==
  ASSUME FlashInv, StoreInv, nested \in Nat, [FlashNext]_FlashVars
  PROVE  StoreInv'
<1>1. SUFFICES ASSUME nested' = 0 PROVE StoreInv'
  BY DEF StoreInv
<1>2. nested = 0 /\ ContentsStep
  BY <1>1, NestedGrows, OnlyTheDeviceChanges
<1>3. CASE Driver
  BY <1>2, <1>3, UnlockStored, EraseBlockStored, BlockErasedStored, ProgramBufferStored,
     BufferProgrammedStored, WrittenStored, PollErrorStored DEF Driver
<1>4. CASE UnlockFails \/ WsmEnds \/ WsmFails \/ PowerFails
  BY <1>2, <1>4, UnlockFailsStored, WsmStored, PowerFailsStored
<1>5. CASE \E n \in Lengths, word \in Data :
             WriteBlock(n, word) \/ WriteParameters(n, word) \/ ConsoleWrites(n, word)
  BY <1>1, <1>2, <1>5, NestedGrows, BeginStored
<1>6. CASE UNCHANGED FlashVars
  <2>1. UNCHANGED <<cells, dev, pending, frame, depth, next, sent, stashed>>
    BY <1>6 DEF FlashVars, device, program
  <2>2. Top' = Top /\ (Running' <=> Running) /\ (Polling' <=> Polling) /\ (FileRuns' <=> FileRuns)
    BY <2>1 DEF Top, Running, Polling, FileRuns
  <2>3. QED
    BY <1>2, <2>1, <2>2 DEF StoreInv
<1>7. QED
  BY <1>3, <1>4, <1>5, <1>6 DEF FlashNext

\* At first nothing is written.
LEMMA StoreStarts ==
  ASSUME FlashInit
  PROVE  StoreInv /\ nested \in Nat
<1>1. dev.busy = FALSE
  BY StartGivesArray DEF FlashInit
<1>2. <<>> \in Seq(Word) /\ Len(<<>>) = 0
  BY EmptySeq
<1>3. Contains(sent, stashed, cells)
  BY <1>2, ParamsInDevice DEF FlashInit, Contains
<1>4. depth = 0 /\ ~Running /\ next = -1 /\ nested = 0
  BY DEF FlashInit, Running
<1>5. QED
  BY <1>1, <1>3, <1>4 DEF StoreInv

\* What was written without an error is in the flash memory until it is written
\* anew, whatever was written, failed or lost its power since, unless the console
\* has written inside a write (linearFlash.c:115-143, xilflash_intel.c:455-501).
THEOREM WrittenStays == FlashSpec => []StoredInFlash
<1>1. FlashInit => StoreInv /\ nested \in Nat
  BY StoreStarts
<1>2. FlashInv /\ StoreInv /\ nested \in Nat /\ [FlashNext]_FlashVars
        => StoreInv' /\ (nested \in Nat)'
  BY StoreStep, NestedGrows
<1>3. StoreInv => StoredInFlash
  BY DEF StoreInv, StoredInFlash, Contains
<1>4. QED
  BY <1>1, <1>2, <1>3, FlashInvariant, PTL DEF FlashSpec
==============================================================================
