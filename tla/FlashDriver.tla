----------------------------- MODULE FlashDriver -----------------------------
(***************************************************************************)
(* The flash memory and its driver (linearFlash.c and the 16-bit part of    *)
(* xilflash_intel.c), and what runs while the driver waits: PollSR16 calls   *)
(* checkForWork, whose console may store the system parameters, so a write  *)
(* can be under way inside another one.                                     *)
(*                                                                         *)
(* A word is the set of its bits that are one, and only three bits matter:  *)
(* "ready" is the bit that the status register answers with when the device *)
(* is idle, "error" stands for its error bits and "data" for the others.    *)
(* The flash device is external: a command is sent to it, it is busy with   *)
(* an erasure or a program operation for a while, and its answer to a read  *)
(* depends on its mode.  The main program writes a file block by block from *)
(* address 0, or the system parameters at Params; the console only those.   *)
(***************************************************************************)
EXTENDS Integers, Sequences

CONSTANTS
  Pages,      \* pages of the device
  Page,       \* PAGESIZE, in words
  Block,      \* words in an erase block
  Buffer,     \* WriteBufferSize, in words
  Chunk,      \* words in a full block of an upload
  Lengths,    \* lengths of what is written
  Data,       \* words that are written
  Params,     \* address of the system parameters
  MaxDepth,   \* bound on writes inside one another
  MaxNested,  \* bound on writes the console makes
  MaxFaults,  \* bound on failures of the device and of the power
  MaxUploads  \* bound on the writes the main program starts

Bits == {"ready", "error", "data"}
Word == SUBSET Bits
Address == 0 .. Pages * Page - 1

ASSUME FlashAssumption ==
  /\ Pages \in Nat \ {0} /\ Page \in Nat \ {0}
  /\ Block \in Nat \ {0} /\ Page % Block = 0
  /\ Buffer \in Nat \ {0} /\ Page % Buffer = 0
  /\ Chunk \in Nat \ {0} /\ Page % Chunk = 0
  /\ Lengths \subseteq 1 .. Chunk
  /\ Data \subseteq Word
  /\ Params \in Address \ {0} /\ Params % Page = 0 /\ Params + Page <= Pages * Page
  /\ MaxDepth \in Nat \ {0} /\ MaxNested \in Nat /\ MaxFaults \in Nat /\ MaxUploads \in Nat

VARIABLES
  cells,     \* the device: its contents
  locked,    \* the device: the pages whose blocks are locked
  dev,       \* the device: its mode, whether it is busy, the latched error
  pending,   \* the device: what the operation under way changes
  frame,     \* the writes under way, each inside the one before it
  depth,     \* how many
  last,      \* how the last write ended
  next,      \* main program: where the next block of the file goes, -1 if none is awaited
  sent,      \* main program: the words of the file written so far
  stashed,   \* the parameters written last, if they have been
  nested, faults, uploads

device == <<cells, locked, dev, pending>>
program == <<next, sent, stashed>>
bounds == <<nested, faults, uploads>>
FlashVars == <<device, frame, depth, last, program, bounds>>

Ready == {"ready"}  \* the status register of an idle device without an error
Ones == Bits        \* 0xFFFF, a word that is erased

NoFrame == [kind |-> "none", pc |-> "none", at |-> 0, n |-> 1, word |-> {},
            next |-> 0, interrupted |-> FALSE]

Frame ==
  [ kind : {"none", "file", "params"},
    pc   : {"none", "unlock", "erase", "erasePoll", "program", "programPoll"},
    at   : Address,        \* address
    n    : 1 .. Chunk,     \* nBytes
    word : Word,           \* what buf holds
    next : Address,        \* the block or the word to come
    interrupted : BOOLEAN ] \* has a write run inside the present wait?

Mode == {"array", "status", "id"}

FlashTypeOK ==
  /\ cells \in [Address -> Word]
  /\ locked \subseteq 0 .. Pages - 1
  /\ dev \in [mode : Mode, busy : BOOLEAN, error : BOOLEAN]
  /\ frame \in [1 .. MaxDepth -> Frame]
  /\ depth \in 0 .. MaxDepth
  /\ last \in {"none", "stored", "error", "unlock error", "power"}

Top == frame[depth]
Running == depth > 0
Polling == Running /\ Top.pc \in {"erasePoll", "programPoll"}

PageOf(a) == a \div Page
PageStart(a) == PageOf(a) * Page
LastWord(f) == f.at + f.n - 1
Least(i, j) == IF i < j THEN i ELSE j

(***************************************************************************)
(* The device                                                              *)
(***************************************************************************)
StatusRegister(d) ==
  IF d.busy THEN {} ELSE IF d.error THEN {"ready", "error"} ELSE Ready

\* READ_FLASH_16.
ReadWord(a) == IF dev.mode = "array" THEN cells[a] ELSE StatusRegister(dev)

SendReadStatus(d) == [d EXCEPT !.mode = "status"]
SendClearStatus(d) == [d EXCEPT !.error = FALSE]
SendReadArray(d) == [d EXCEPT !.mode = "array"]
SendReadId(d) == [d EXCEPT !.mode = "id"]

\* An erasure or a program operation is confirmed: the device refuses it if the
\* page is locked, and reading gives the status register from here on.
SendJob(a, change) ==
  LET refused == PageOf(a) \in locked
  IN /\ dev' = [mode |-> "status", busy |-> ~refused, error |-> dev.error \/ refused]
     /\ pending' = IF refused THEN <<>> ELSE change
     /\ UNCHANGED <<cells, locked>>

Changed(change) ==
  [a \in Address |-> IF a \in DOMAIN change THEN change[a] ELSE cells[a]]

\* The device ends what it was doing.
WsmEnds ==
  /\ dev.busy
  /\ cells' = Changed(pending)
  /\ dev' = [dev EXCEPT !.busy = FALSE]
  /\ pending' = <<>>
  /\ UNCHANGED <<locked, frame, depth, last, program, bounds>>

\* It fails with some of it done.
WsmFails ==
  /\ dev.busy
  /\ faults < MaxFaults
  /\ faults' = faults + 1
  /\ \E done \in SUBSET DOMAIN pending :
       cells' = Changed([a \in done |-> pending[a]])
  /\ dev' = [dev EXCEPT !.busy = FALSE, !.error = TRUE]
  /\ pending' = <<>>
  /\ UNCHANGED <<locked, frame, depth, last, program, nested, uploads>>

(***************************************************************************)
(* XFlashIntel_ResetBank, XFlashIntel_Reset, GetPartID, linearFlashInit     *)
(***************************************************************************)
ResetBank(d) == SendReadArray(SendReadStatus(SendClearStatus(d)))

GetPartID(d) == ResetBank(SendReadId(d))

Initialize(d) == ResetBank(GetPartID(d))

FlashInit ==
  /\ cells \in [Address -> {Ones}]
  /\ locked = 0 .. Pages - 1
  /\ dev = Initialize([mode |-> "array", busy |-> FALSE, error |-> FALSE])
  /\ pending = <<>>
  /\ frame = [i \in 1 .. MaxDepth |-> NoFrame]
  /\ depth = 0
  /\ last = "none"
  /\ next = -1
  /\ sent = <<>> /\ stashed = <<>>
  /\ nested = 0 /\ faults = 0 /\ uploads = 0

\* Power fails: what the device was doing is done in part, and every block is
\* locked when it starts again.
PowerFails ==
  /\ faults < MaxFaults
  /\ faults' = faults + 1
  /\ \E done \in SUBSET DOMAIN pending :
       cells' = Changed([a \in done |-> pending[a]])
  /\ locked' = 0 .. Pages - 1
  /\ dev' = Initialize([mode |-> "array", busy |-> FALSE, error |-> FALSE])
  /\ pending' = <<>>
  /\ frame' = [i \in 1 .. MaxDepth |-> NoFrame]
  /\ depth' = 0
  /\ last' = "power"
  /\ next' = -1
  /\ UNCHANGED <<sent, stashed, nested, uploads>>

(***************************************************************************)
(* linearFlashWrite                                                        *)
(***************************************************************************)
Erases(at, n) == \/ at % Page = 0
                 \/ PageOf(at + n - 1) # PageOf(at)

\* A write begins, inside those under way.
Enter(kind, at, n, word) ==
  /\ depth < MaxDepth
  /\ depth' = depth + 1
  /\ frame' =
       [i \in 1 .. MaxDepth |->
          IF i = depth + 1
          THEN [kind |-> kind, at |-> at, n |-> n, word |-> word, interrupted |-> FALSE,
                pc |-> IF Erases(at, n) THEN "unlock" ELSE "program",
                next |-> IF Erases(at, n) THEN PageStart(at + n - 1) ELSE at]
          ELSE IF i = depth THEN [frame[i] EXCEPT !.interrupted = TRUE]
          ELSE frame[i]]
  /\ UNCHANGED <<device, last>>

\* Its buffer, as a sequence of words.
Text(f) == [i \in 1 .. f.n |-> f.word]

\* What the TFTP server does with the result of writing a block.
Leave(result) ==
  /\ depth' = depth - 1
  /\ frame' = [frame EXCEPT ![depth] = NoFrame]
  /\ last' = result
  /\ IF result = "stored" /\ Top.kind = "file"
     THEN /\ sent' = sent \o Text(Top)
          /\ next' = IF Top.n = Chunk /\ Top.at + 2 * Chunk <= Params
                     THEN Top.at + Chunk ELSE -1
     ELSE /\ next' = IF Top.kind = "file" THEN -1 ELSE next
          /\ UNCHANGED sent
  /\ stashed' = IF result = "stored" /\ Top.kind = "params" THEN Text(Top) ELSE stashed
  /\ UNCHANGED bounds

Step(pc, address) == frame' = [frame EXCEPT ![depth].pc = pc, ![depth].next = address]
Wait(pc) == frame' = [frame EXCEPT ![depth].pc = pc, ![depth].interrupted = FALSE]
At(pc) == Running /\ Top.pc = pc

OnlyDriver == UNCHANGED <<depth, last, program, bounds>>

\* XFlashIntel_Unlock waits for the device, then unlocks the blocks of the page.
Unlock ==
  /\ At("unlock")
  /\ ~dev.busy
  /\ locked' = locked \ {PageOf(LastWord(Top))}
  /\ dev' = ResetBank(dev)
  /\ Step("erase", Top.next)
  /\ UNCHANGED <<cells, pending>>
  /\ OnlyDriver

\* A block stays locked, and XFlashIntel_Unlock returns without a reset.
UnlockFails ==
  /\ At("unlock")
  /\ ~dev.busy
  /\ faults < MaxFaults
  /\ faults' = faults + 1
  /\ dev' = [SendReadStatus(dev) EXCEPT !.error = TRUE]
  /\ depth' = depth - 1
  /\ frame' = [frame EXCEPT ![depth] = NoFrame]
  /\ last' = "unlock error"
  /\ next' = IF Top.kind = "file" THEN -1 ELSE next
  /\ UNCHANGED <<cells, locked, pending, sent, stashed, nested, uploads>>

EraseBlockAndReset == \* mutant: reset before the device is polled
  /\ At("erase")
  /\ pending' = [a \in Top.next .. Top.next + Block - 1 |-> Ones]
  /\ dev' = ResetBank([dev EXCEPT !.busy = TRUE])
  /\ UNCHANGED <<cells, locked>>
  /\ Wait("erasePoll")
  /\ OnlyDriver

\* XFlashIntel_Erase: EnqueueEraseBlocks sends one block.
EraseBlock ==
  /\ At("erase")
  /\ SendJob(Top.next, [a \in Top.next .. Top.next + Block - 1 |-> Ones])
  /\ Wait("erasePoll")
  /\ OnlyDriver

\* Where PollSR16 reads: the page during an erasure, else what is programmed.
PollOffset == IF Top.pc = "erasePoll" THEN PageStart(LastWord(Top)) ELSE Top.next
Polled == ReadWord(PollOffset)

BufferEnd(a) == (a \div Buffer + 1) * Buffer - 1

BlockErasedAndOneMore == \* mutant: the page has one block more
  /\ At("erasePoll")
  /\ Polled = Ready
  /\ IF Top.next <= PollOffset + Page - Block
     THEN Step("erase", Top.next + Block) /\ UNCHANGED dev
     ELSE Step("program", Top.at) /\ dev' = ResetBank(dev)
  /\ UNCHANGED <<cells, locked, pending>>
  /\ OnlyDriver

\* PollSR16 finds the ready bit and nothing else: the next block, or the
\* erasure is over.
BlockErased ==
  /\ At("erasePoll")
  /\ Polled = Ready
  /\ IF PageOf(Top.next + Block) = PageOf(Top.next)
     THEN Step("erase", Top.next + Block) /\ UNCHANGED dev
     ELSE Step("program", Top.at) /\ dev' = ResetBank(dev)
  /\ UNCHANGED <<cells, locked, pending>>
  /\ OnlyDriver

ProgramBufferUnpadded == \* mutant: the last word is repeated to fill the buffer
  /\ At("program")
  /\ ~dev.busy
  /\ SendJob(Top.next, [a \in Top.next .. BufferEnd(Top.next) |-> cells[a] \cap Top.word])
  /\ Wait("programPoll")
  /\ OnlyDriver

\* WriteBuffer16 fills the buffer, with 0xFFFF where there are no data, and
\* confirms: bits can only be cleared.
ProgramBuffer ==
  /\ At("program")
  /\ ~dev.busy
  /\ SendJob(Top.next, [a \in Top.next .. Least(BufferEnd(Top.next), LastWord(Top)) |->
                          cells[a] \cap Top.word])
  /\ Wait("programPoll")
  /\ OnlyDriver

BufferAgain == \* mutant: the pointers are not incremented
  /\ At("programPoll")
  /\ Polled = Ready
  /\ BufferEnd(Top.next) < LastWord(Top)
  /\ Step("program", Top.next)
  /\ UNCHANGED device
  /\ OnlyDriver

BufferProgrammed ==
  /\ At("programPoll")
  /\ Polled = Ready
  /\ BufferEnd(Top.next) < LastWord(Top)
  /\ Step("program", BufferEnd(Top.next) + 1)
  /\ UNCHANGED device
  /\ OnlyDriver

\* XFlashIntel_Write resets the bank, whatever WriteBuffer16 returns.
EndWrite(result) ==
  /\ dev' = ResetBank(dev)
  /\ UNCHANGED <<cells, locked, pending>>
  /\ Leave(result)

WrittenOrNot == \* mutant: only the ready bit is looked at
  /\ At("programPoll")
  /\ "ready" \in Polled
  /\ BufferEnd(Top.next) >= LastWord(Top)
  /\ EndWrite("stored")

Written ==
  /\ At("programPoll")
  /\ Polled = Ready
  /\ BufferEnd(Top.next) >= LastWord(Top)
  /\ EndWrite("stored")

PollErrorReturns == \* mutant: no reset of the bank after an error
  /\ Polling
  /\ "ready" \in Polled
  /\ Polled # Ready
  /\ UNCHANGED device
  /\ Leave("error")

\* PollSR16 finds the ready bit and others: XFLASH_ERROR.
PollError ==
  /\ Polling
  /\ "ready" \in Polled
  /\ Polled # Ready
  /\ EndWrite("error")

(***************************************************************************)
(* Who writes                                                              *)
(***************************************************************************)

\* The main program writes the first or the next block of a file.
WriteBlock(n, word) ==
  /\ ~Running
  /\ uploads < MaxUploads
  /\ uploads' = uploads + 1
  /\ \/ /\ Enter("file", 0, n, word)
        /\ sent' = <<>>
     \/ /\ next # -1
        /\ Enter("file", next, n, word)
        /\ UNCHANGED sent
  /\ UNCHANGED <<next, stashed, nested, faults>>

StashParameters(n, word) ==
  /\ Enter("params", Params, n, word)
  /\ stashed' = <<>>
  /\ UNCHANGED <<next, sent, faults>>

\* The main program, or the console when no write is under way.
WriteParameters(n, word) ==
  /\ ~Running
  /\ uploads < MaxUploads
  /\ uploads' = uploads + 1
  /\ StashParameters(n, word)
  /\ UNCHANGED nested

\* PollSR16 does not find the ready bit and calls checkForWork, where the
\* console answers "y" to a question about the parameters.
ConsoleWrites(n, word) ==
  /\ Polling
  /\ "ready" \notin Polled
  /\ nested < MaxNested
  /\ nested' = nested + 1
  /\ StashParameters(n, word)
  /\ UNCHANGED uploads

Driver ==
  \/ Unlock \/ EraseBlock \/ BlockErased
  \/ ProgramBuffer \/ BufferProgrammed \/ Written \/ PollError

FlashNext ==
  \/ Driver
  \/ UnlockFails
  \/ WsmEnds \/ WsmFails \/ PowerFails
  \/ \E n \in Lengths, word \in Data :
       WriteBlock(n, word) \/ WriteParameters(n, word) \/ ConsoleWrites(n, word)

\* The processor runs, and the device ends what it is asked to do.
FlashSpec ==
  FlashInit /\ [][FlashNext]_FlashVars /\ WF_FlashVars(Driver) /\ WF_FlashVars(WsmEnds)

(***************************************************************************)
(* Properties                                                              *)
(***************************************************************************)

\* PollSR16 polls the status register (xilflash_intel.c:1377-1378), whatever
\* runs while it waits.
PollReadsStatus == Polling => dev.mode = "status"

\* It does unless another write has run since it began to wait.
UndisturbedPoll == Polling /\ ~Top.interrupted => dev.mode = "status"

\* What has been written without an error is in the flash memory: every block of
\* the file, and the parameters, whatever else has been written, failed or been
\* cut off by the power since, until it is itself written anew.  If the console
\* has written inside a write, that one may take a word of 0x0080 for the status.
StoredInFlash ==
  nested = 0 =>
    /\ \A i \in 1 .. Len(sent) : cells[i - 1] = sent[i]
    /\ \A i \in 1 .. Len(stashed) : cells[Params + i - 1] = stashed[i]

\* A step only changes words of a write under way, or of the page it erases.
OnlyWhatIsWritten ==
  [][\A a \in Address : cells'[a] # cells[a] =>
       \E i \in 1 .. depth :
         \/ a \in frame[i].at .. LastWord(frame[i])
         \/ /\ Erases(frame[i].at, frame[i].n)
            /\ PageOf(a) = PageOf(LastWord(frame[i]))]_FlashVars

\* The TFTP server and the start-up read files from memory, so the device is
\* left answering with its contents.  XFlashIntel_Unlock does not when it fails.
RestsInArrayMode ==
  ~Running => dev.mode = "array" \/ last = "unlock error"

\* A write ends, unless the console has written inside one.
WriteEnds == Running ~> (~Running \/ nested > 0)
==============================================================================
