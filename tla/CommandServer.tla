--------------------------- MODULE CommandServer ---------------------------
(***************************************************************************)
(* The command port of the BPM application (server.c): settings are written *)
(* and read by numbered commands from the IOC, every command is answered,   *)
(* and the answer to the last command is kept so that a command that comes  *)
(* again is answered without being carried out again.                      *)
(*                                                                         *)
(* The network and the IOC are external: a datagram may be lost (never      *)
(* delivered), duplicated and, unless InOrder, delayed past later ones; the *)
(* IOC has one command outstanding and may abandon it.  Sending a command   *)
(* again adds nothing to what may arrive any number of times, and a reply   *)
(* for which no packet buffer is to be had is one that is never delivered.  *)
(***************************************************************************)
EXTENDS PointHardware, Sequences

CONSTANTS
  Ioc,         \* the IOCs that send commands
  InOrder,     \* does the network deliver an IOC's commands in order?
  Point,       \* the points the IOCs address in this instance
  Value,       \* the values they write
  FullScale,   \* FULL_SCALE of the gain compensation
  Capacity,    \* acqSampleCapacity
  MaxNumber,   \* bound on the commands of an IOC
  MaxRestarts  \* bound on the restarts of the BPM

ASSUME CommandAssumption ==
  /\ InOrder \in BOOLEAN
  /\ Value \subseteq Int
  /\ FullScale \in Nat
  /\ Capacity \in Nat \ {0}
  /\ MaxNumber \in Nat
  /\ MaxRestarts \in Nat

\* Points that keep what is written to them, one for each kind of handler.
\* HardwarePoints are those that do not: the hardware changes them.
Settings ==
  { "debug", "atten", "adcGain", "lobLimit", "atThresh", "dspType",
    "tbtSumShift", "mtSumShift", "chanGain", "eventTriggers", "triggerDelay",
    "triggerMask", "pretrigCount", "acqCount", "acqMode" }

MinimumThreshold == 100000 \* MINIMUM_THRESHOLD of autotrim.v

\* Points that answer 0 whatever they do, and points whose handler returns
\* without an answer of its own: the trigger delay of a trigger that does not
\* exist, the soft trigger, codes nobody handles and the filter update.
ZeroPoints == { "fpgaReset", "latchClear", "badChannel" }
SilentPoints == { "badTrigger", "softTrigger", "unknown", "filterUpdate" }

ASSUME PointAssumption ==
  Point \subseteq Settings \cup HardwarePoints \cup ZeroPoints \cup SilentPoints

\* The values whose writes, one after another, reset the FPGA.
match == <<0, 100, 10000>>

None == [ioc |-> "none"]

VARIABLES
  setting,     \* the settings behind the points
  hw,          \* the hardware behind the others
  shown,       \* what they read when their last command was carried out
  lastCommand, \* the last command carried out, None after a start
  reply,       \* the answer to it: a number and a value
  idx,         \* io_fpgaReset: how much of the reset sequence has been seen
  rebooting,   \* resetFPGA has been called and has not returned
  pending,     \* the command an IOC waits for, or None
  number,      \* the number of an IOC's last command
  accepted,    \* the last command an IOC has had answered, or None
  net,         \* every datagram sent so far
  latest,      \* if InOrder, number of the newest command delivered
  boots,       \* how often the BPM has restarted
  times,       \* how often each command was carried out since then, 2 for more
  heard,       \* the last three reset values carried out since then
  failed       \* has a reset returned since then?

server == <<setting, hw, shown, lastCommand, reply, idx, rebooting, times, heard, failed>>
client == <<pending, number, accepted>>
vars == <<server, client, net, latest, boots>>

Default(p) ==
  CASE p = "acqCount" -> 1
    [] p = "atThresh" -> MinimumThreshold
    [] OTHER -> 0

CommandName == Ioc \X (1 .. MaxNumber)

Command ==
  [ioc : Ioc, number : 1 .. MaxNumber, point : Point, write : BOOLEAN,
   value : Value \cup {0}]

TypeOK ==
  /\ setting \in [Settings -> Int]
  /\ setting["acqCount"] \in 1 .. Capacity
  /\ setting["chanGain"] \in 0 .. FullScale
  /\ hw \in Hardware
  /\ shown \in [HardwarePoints -> Int]
  /\ lastCommand \in Command \cup {None}
  /\ reply \in [number : 0 .. MaxNumber, value : Int]
  /\ idx \in 0 .. Len(match)
  /\ rebooting \in BOOLEAN
  /\ pending \in [Ioc -> Command \cup {None}]
  /\ number \in [Ioc -> 0 .. MaxNumber]
  /\ latest \in [Ioc -> 0 .. MaxNumber]
  /\ boots \in Nat
  /\ times \in [CommandName -> 0 .. 2]
  /\ heard \in Int \X Int \X Int
  /\ failed \in BOOLEAN

\* The application after a start.
StartServer(set, w, s, last, rep, i, reb, t, h, f) ==
  /\ set = [p \in Settings |-> Default(p)]
  /\ w = HardwareAtStart
  /\ s = [p \in HardwarePoints |-> 0]
  /\ last = None
  /\ rep = [number |-> 0, value |-> 0]
  /\ i = 0
  /\ reb = FALSE
  /\ t = [c \in CommandName |-> 0]
  /\ h = <<1, 1, 1>> \* none: a 1 is not counted
  /\ f = FALSE

Init ==
  /\ StartServer(setting, hw, shown, lastCommand, reply, idx, rebooting, times,
                 heard, failed)
  /\ pending = [i \in Ioc |-> None]
  /\ number = [i \in Ioc |-> 0]
  /\ accepted = [i \in Ioc |-> None]
  /\ net = {}
  /\ latest = [i \in Ioc |-> 0]
  /\ boots = 0

(***************************************************************************)
(* What the handlers of processCommand store and answer                     *)
(***************************************************************************)
Clamp(v, lo, hi) == IF v < lo THEN lo ELSE IF v > hi THEN hi ELSE v

\* What writing v to a setting that is old leaves there.
Stored(p, old, v) ==
  CASE p \in {"adcGain", "acqMode"} -> IF v = 0 THEN 0 ELSE 1
    [] p = "atThresh" -> IF v > MinimumThreshold THEN v ELSE MinimumThreshold
    [] p = "dspType" -> v % 2
    [] p \in {"tbtSumShift", "mtSumShift"} -> Clamp(v, 0, 15)
    [] p = "chanGain" -> Clamp(v, 0, FullScale)
    [] p = "eventTriggers" -> ((v \div 16) % 16) * 16 + (old % 16)
    [] p = "triggerMask" -> v % 256
    [] p = "pretrigCount" -> Clamp(v, 0, Capacity)
    [] p = "acqCount" -> IF v = 0 THEN old ELSE Clamp(v, 1, Capacity)
    [] OTHER -> v

\* What a setting reads back as.
Reported(p, x) == IF p = "eventTriggers" THEN (x \div 16) * 16 ELSE x

Settled(c) ==
  IF c.write /\ c.point \in Settings
  THEN [setting EXCEPT ![c.point] = Stored(c.point, @, c.value)]
  ELSE setting

\* The hardware when a handler has done with it.  One that only reads, reads
\* once.
Handled(c) == IF c.write THEN AfterWrite(c.point, c.value, hw) ELSE {hw}

\* The value a command is answered with, once it has been carried out and the
\* hardware is h.
AnswerBeforeWrite(c, h) == \* mutant: reads before it writes
  CASE c.point \in Settings -> Reported(c.point, setting[c.point])
    [] c.point \in HardwarePoints -> Readout(c.point, h)
    [] c.point \in ZeroPoints -> 0
    [] OTHER -> reply.value

Answer(c, h) ==
  CASE c.point \in Settings -> Reported(c.point, Settled(c)[c.point])
    [] c.point \in HardwarePoints -> Readout(c.point, h)
    [] c.point \in ZeroPoints -> 0
    [] OTHER -> reply.value

(***************************************************************************)
(* io_fpgaReset: 0, 100 and 10000 written one after another reset the FPGA. *)
(* A 1 rescans the ADC clock delay and is not part of any sequence.         *)
(***************************************************************************)
\* The values idx may have after v.  Past the end of match, where it is left
\* by a reset that returned, the comparison is with whatever follows match in
\* memory; all indices there are alike.
ResetIndexKept(v) == \* mutant: a value out of sequence is overlooked
  IF v = 1 THEN {idx}
  ELSE IF v = match[1] THEN {1}
  ELSE IF idx = Len(match) THEN {0, idx}
  ELSE IF v = match[idx + 1] THEN {idx + 1}
  ELSE {idx}

ResetIndex(v) ==
  IF v = 1 THEN {idx}
  ELSE IF v = match[1] THEN {1}
  ELSE IF idx = Len(match) THEN {0, idx}
  ELSE IF v = match[idx + 1] THEN {idx + 1}
  ELSE {0}

IsResetWrite(c) == c.write /\ c.point = "fpgaReset"

FpgaReset(c) ==
  IF IsResetWrite(c)
  THEN /\ idx' \in ResetIndex(c.value)
       /\ rebooting' = (c.value \notin {0, 1} /\ idx' = Len(match))
       /\ heard' = IF c.value = 1 THEN heard ELSE <<heard[2], heard[3], c.value>>
  ELSE UNCHANGED <<idx, rebooting, heard>>

(***************************************************************************)
(* server_callback                                                         *)
(***************************************************************************)
\* What a point reads at this moment or, if it is the hardware's, when its last
\* command was carried out.  The console may have changed the debug flags, and
\* other points have nothing to read.
Truth(p, r, s, o) ==
  CASE p \in Settings \ {"debug"} -> Reported(p, s[p])
    [] p \in HardwarePoints -> o[p]
    [] OTHER -> r.value

Reply(m, r, s, o) ==
  [ type |-> "Reply", ioc |-> m.ioc, number |-> r.number, value |-> r.value,
    point |-> m.cmd.point,
    \* not part of the datagram
    boots |-> boots, truth |-> Truth(m.cmd.point, r, s, o) ]

IsDuplicateNever(c) == FALSE \* mutant: every datagram is a new command

IsDuplicate(c) ==
  /\ lastCommand # None
  /\ c.number = lastCommand.number
  /\ c.point = lastCommand.point
  /\ c.write = lastCommand.write

Delivered(m) ==
  /\ m.type = "Command"
  /\ m.cmd.number >= latest[m.ioc]
  /\ latest' = IF InOrder THEN [latest EXCEPT ![m.ioc] = m.cmd.number] ELSE latest

\* The command that was carried out last comes again.
AnswerAgain(m) ==
  /\ ~rebooting
  /\ Delivered(m)
  /\ IsDuplicate(m.cmd)
  /\ net' = net \cup {Reply(m, reply, setting, shown)}
  /\ UNCHANGED <<server, client, boots>>

\* A command is carried out and answered; the one that resets the FPGA is
\* answered only if the reset fails.
CarryOut(m) ==
  LET c == m.cmd IN
  /\ ~rebooting
  /\ Delivered(m)
  /\ ~IsDuplicate(c)
  /\ lastCommand' = c
  /\ setting' = Settled(c)
  /\ hw' \in Handled(c)
  /\ shown' = IF c.point \in HardwarePoints
              THEN [shown EXCEPT ![c.point] = Readout(c.point, hw')] ELSE shown
  /\ reply' = [number |-> c.number, value |-> Answer(c, hw')]
  /\ FpgaReset(c)
  /\ times' = [times EXCEPT ![<<c.ioc, c.number>>] = IF @ < 2 THEN @ + 1 ELSE @]
  /\ net' = IF rebooting' THEN net ELSE net \cup {Reply(m, reply', setting', shown')}
  /\ UNCHANGED <<failed, client, boots>>

\* resetFPGA returns: the configuration port has ignored the request.
RebootFails ==
  /\ rebooting
  /\ rebooting' = FALSE
  /\ failed' = TRUE
  /\ net' = net \cup
       {Reply([ioc |-> lastCommand.ioc, cmd |-> lastCommand], reply, setting, shown)}
  /\ UNCHANGED <<setting, hw, shown, lastCommand, reply, idx, times, heard, client, latest, boots>>

\* The FPGA is reconfigured, because it was asked to or because the power
\* fails, and the application starts again.
Restart ==
  /\ boots < MaxRestarts
  /\ StartServer(setting', hw', shown', lastCommand', reply', idx', rebooting', times',
                 heard', failed')
  /\ boots' = boots + 1
  /\ UNCHANGED <<client, net, latest>>

\* The console changes the debug flags (cmdDEBUG).
ConsoleDebug ==
  /\ ~rebooting
  /\ "debug" \in Point
  /\ \E v \in Value : setting' = [setting EXCEPT !["debug"] = v]
  /\ UNCHANGED <<hw, shown, lastCommand, reply, idx, rebooting, times, heard, failed,
                 client, net, latest, boots>>

\* The hardware goes on by itself.
HardwareMoves ==
  /\ \E p \in Point : hw' \in StepsOf(p, hw)
  /\ UNCHANGED <<setting, shown, lastCommand, reply, idx, rebooting, times, heard,
                 failed, client, net, latest, boots>>

(***************************************************************************)
(* The IOC (external)                                                      *)
(***************************************************************************)
Issue(i, p, w, v) ==
  LET c == [ioc |-> i, number |-> number[i] + 1, point |-> p, write |-> w,
            value |-> IF w THEN v ELSE 0]
  IN /\ pending[i] = None
     /\ number[i] < MaxNumber
     /\ number' = [number EXCEPT ![i] = @ + 1]
     /\ pending' = [pending EXCEPT ![i] = c]
     /\ net' = net \cup {[type |-> "Command", ioc |-> i, cmd |-> c]}
     /\ UNCHANGED <<server, accepted, latest, boots>>

Abandon(i) ==
  /\ pending[i] # None
  /\ pending' = [pending EXCEPT ![i] = None]
  /\ accepted' = [accepted EXCEPT ![i] = None]
  /\ UNCHANGED <<server, number, net, latest, boots>>

Accept(m) ==
  /\ m.type = "Reply"
  /\ pending[m.ioc] # None
  /\ m.number = number[m.ioc]
  /\ pending' = [pending EXCEPT ![m.ioc] = None]
  /\ accepted' = [accepted EXCEPT ![m.ioc] =
                    [cmd |-> pending[m.ioc], value |-> m.value, boots |-> m.boots]]
  /\ UNCHANGED <<server, number, net, latest, boots>>

Bpm ==
  \/ \E m \in net : AnswerAgain(m) \/ CarryOut(m)
  \/ RebootFails
  \/ Restart
  \/ ConsoleDebug
  \/ HardwareMoves

Network == \E m \in net : Accept(m)

Client ==
  \E i \in Ioc :
    \/ \E p \in Point, w \in BOOLEAN, v \in Value : Issue(i, p, w, v)
    \/ Abandon(i)

Next == Bpm \/ Network \/ Client

Spec == Init /\ [][Next]_vars

(***************************************************************************)
(* Properties                                                              *)
(***************************************************************************)

\* With several IOCs that number their commands alike and whatever the network
\* does, a reply is an answer to the question: for a point only commands write,
\* it tells what the point reads at the moment it is sent, also when it is the
\* kept answer that is sent again, since every other command replaces that
\* one.  The debug flags are written by the console, too.  For a point the
\* hardware changes (HardwarePoints) it tells what the point read when its last
\* command was carried out: when sent again it is as old as that.
ReplyTellsSetting ==
  \A m \in net :
    m.type = "Reply" /\ m.point \in (Settings \ {"debug"}) \cup HardwarePoints =>
      m.value = m.truth

\* If one IOC commands the BPM and the network keeps its datagrams in order,
\* what it has been answered of a point only commands write stays true until
\* its next command or a restart, even if commands before it were abandoned
\* and are still under way.  What the hardware shows of its points does not
\* stay; but a mode, a filter shift or a level that was written is still in its
\* register, pending or in effect.  The settings are within their limits,
\* whatever was written (TypeOK).
AcceptedWriteHolds ==
  /\ TypeOK
  /\ \A i \in Ioc :
       LET a == accepted[i]
           c == a.cmd
       IN pending[i] = None /\ a # None /\ a.boots = boots =>
            /\ c.point \in Settings \ {"debug"} =>
                 a.value = Reported(c.point, setting[c.point])
            /\ c.write /\ KeepsWrite(c.point, c.value) =>
                 Told(c.point, hw) = Asked(c.point, c.value)

\* As long as no reset has failed, the FPGA is reset exactly when the last
\* three values carried out since the start are the sequence; commands that
\* come again, 1s and settings in between neither complete nor spoil it, and
\* what is left of a sequence from before a restart does not count.
ResetBySequence == ~failed => (rebooting <=> heard = match)

(***************************************************************************)
(* The inductive invariant behind CarriedOutOnce                           *)
(***************************************************************************)
CommandSent == {m \in net : m.type = "Command"}

\* A number stands for one command.
NumbersNameCommands ==
  \A m \in CommandSent :
    /\ m.cmd \in Command
    /\ m.cmd.ioc = m.ioc
    /\ m.cmd.number <= number[m.ioc]
    /\ \A k \in CommandSent :
         k.ioc = m.ioc /\ k.cmd.number = m.cmd.number => k = m

\* What has been carried out is not newer than the newest command delivered,
\* and that is the command remembered.
LastIsLatest ==
  \A i \in Ioc, n \in 1 .. MaxNumber :
    times[<<i, n>>] # 0 =>
      /\ times[<<i, n>>] = 1
      /\ n <= latest[i]
      /\ lastCommand # None
      /\ lastCommand.number = latest[i]
      /\ \E m \in CommandSent : m.cmd = lastCommand

OnceInv ==
  /\ number \in [Ioc -> 0 .. MaxNumber]
  /\ latest \in [Ioc -> 0 .. MaxNumber]
  /\ times \in [CommandName -> 0 .. 2]
  /\ NumbersNameCommands
  /\ LastIsLatest

\* If one IOC commands the BPM and the network keeps its datagrams in order,
\* a command is carried out at most once between restarts, however often its
\* datagram arrives.
Once == INSTANCE AtMostOnce WITH Name <- CommandName

CarriedOutOnce == Once!Spec
=============================================================================
