---------------------------- MODULE EventReceiver ----------------------------
(***************************************************************************)
(* The event receiver (evr.c): its start-up, which listens for the           *)
(* heartbeat and the pulse per second, the table of the triggers each event  *)
(* fires, which the IOC shares with the start-up, and the time of day, read  *)
(* as two registers.  Events and the clock are external.                   *)
(***************************************************************************)
EXTENDS Integers, FiniteSets

CONSTANTS
  Events,             \* events the IOC assigns triggers to, out of 1 .. EVR_EVENT_COUNT - 1
  Heartbeat, Pps,     \* EVENT_HEARTBEAT, EVENT_PPS
  SinglePass,         \* singlePassEvent, 0 if there is none
  AutoTrim,           \* autoTrimStartEvent, 0 if there is none
  IocTriggers,        \* the triggers 4 to 7
  FifoDepth,          \* events the FIFO holds
  Patience,           \* ticks until the start-up goes on without the events: 5 s
  Ticks, MaxSeconds   \* ticks in a second, and bound on the seconds

ASSUME EvrAssumption ==
  /\ {Heartbeat, Pps} \subseteq Events /\ Heartbeat # Pps
  /\ Events \subseteq Nat \ {0} /\ IsFiniteSet(Events)
  /\ SinglePass \in Events \cup {0} /\ AutoTrim \in Events \cup {0}
  /\ IocTriggers \cap (0 .. 3) = {} /\ IocTriggers \subseteq Nat
  /\ FifoDepth \in Nat \ {0} /\ Patience \in Nat
  /\ Ticks \in Nat \ {0} /\ MaxSeconds \in Nat

WriteFifo == -1 \* EVR_RAM_WRITE_FIFO
SystemTriggers == 0 .. 3
Action == {WriteFifo} \cup SystemTriggers \cup IocTriggers

VARIABLES
  evrPhase, \* "listen" during the start-up, then "run"
  action,   \* the table of the actions of each event
  fifo,     \* how many of each event are in the FIFO, in any order
  got,      \* heartbeats and pulses seen by the start-up, two at most
  waited,   \* ticks the start-up has waited
  seconds, ticks, \* the time of day
  reader    \* evrCurrentTime: where it is, what it has read, when it read the ticks

EvrVars == <<evrPhase, action, fifo, got, waited, seconds, ticks, reader>>

Idle == [at |-> "idle", s |-> 0, t |-> 0, now |-> <<0, 0>>]

EvrTypeOK ==
  /\ evrPhase \in {"listen", "run"}
  /\ action \in [Events -> SUBSET Action]
  /\ fifo \in [Events -> 0 .. FifoDepth]
  /\ got \in [{Heartbeat, Pps} -> 0 .. 2]
  /\ waited \in 0 .. Patience + 1
  /\ seconds \in 0 .. MaxSeconds /\ ticks \in 0 .. Ticks - 1
  /\ reader.at \in {"idle", "ticks", "seconds", "done"}

\* evrSetEventAction: the actions of an event become these.
Set(table, event, actions) == [table EXCEPT ![event] = actions]

\* evrAddEventAction, for an event of the system parameters, 0 for none.
Add(table, event, trigger) ==
  IF event \in Events THEN Set(table, event, table[event] \cup {trigger}) ELSE table

\* evrInit up to the loop that listens.
EvrInit ==
  /\ evrPhase = "listen"
  /\ action = Set(Set([e \in Events |-> {}], Heartbeat, {WriteFifo, 0}), Pps, {WriteFifo, 3})
  /\ fifo = [e \in Events |-> 0]
  /\ got = [e \in {Heartbeat, Pps} |-> 0]
  /\ waited = 0
  /\ seconds = 0 /\ ticks = 0
  /\ reader = Idle

\* The triggers that evrInit leaves for the system.
Started(table) ==
  Add(Add(Add(Set(Set(table, Heartbeat, {0}), Pps, {}), SinglePass, 1), AutoTrim, 2), Pps, 3)

Heard == \A e \in {Heartbeat, Pps} : got[e] = 2

\* The loop takes an event from the FIFO.
evGot(event) ==
  /\ evrPhase = "listen"
  /\ fifo[event] > 0
  /\ fifo' = [fifo EXCEPT ![event] = @ - 1]
  /\ got' = IF event \in {Heartbeat, Pps} /\ got[event] < 2
            THEN [got EXCEPT ![event] = @ + 1] ELSE got
  /\ UNCHANGED <<evrPhase, action, waited, seconds, ticks, reader>>

EndOfListening ==
  /\ evrPhase = "listen"
  /\ Heard \/ waited > Patience
  /\ evrPhase' = "run"
  /\ action' = Started(action)
  /\ UNCHANGED <<fifo, got, waited, seconds, ticks, reader>>

(***************************************************************************)
(* The IOC assigns the triggers 4 to 7 (evr_eventTriggers of server.c).     *)
(***************************************************************************)
EventTriggersAlone(event, triggers) == \* mutant: the other actions are not kept
  /\ evrPhase = "run"
  /\ action' = Set(action, event, triggers)
  /\ UNCHANGED <<evrPhase, fifo, got, waited, seconds, ticks, reader>>

EventTriggers(event, triggers) ==
  /\ evrPhase = "run"
  /\ action' = Set(action, event, triggers \cup (action[event] \ IocTriggers))
  /\ UNCHANGED <<evrPhase, fifo, got, waited, seconds, ticks, reader>>

(***************************************************************************)
(* evrCurrentTime                                                          *)
(***************************************************************************)
Unread == UNCHANGED <<evrPhase, action, fifo, got, waited, seconds, ticks>>

ReadSeconds ==
  /\ evrPhase = "run" /\ reader.at = "idle"
  /\ reader' = [Idle EXCEPT !.at = "ticks", !.s = seconds]
  /\ Unread

ReadTicksLast == \* mutant: the seconds are not read again
  /\ reader.at = "ticks"
  /\ reader' = [reader EXCEPT !.at = "done", !.t = ticks, !.now = <<seconds, ticks>>]
  /\ Unread

ReadTicks ==
  /\ reader.at = "ticks"
  /\ reader' = [reader EXCEPT !.at = "seconds", !.t = ticks, !.now = <<seconds, ticks>>]
  /\ Unread

ReadSecondsAgain ==
  /\ reader.at = "seconds"
  /\ reader' = [reader EXCEPT !.at = IF seconds = reader.s THEN "done" ELSE "ticks",
                              !.s = seconds]
  /\ Unread

Return ==
  /\ reader.at = "done"
  /\ reader' = Idle
  /\ Unread

(***************************************************************************)
(* Events and time                                                         *)
(***************************************************************************)
Arrives(event) ==
  /\ WriteFifo \in action[event]
  /\ fifo[event] < FifoDepth
  /\ fifo' = [fifo EXCEPT ![event] = @ + 1]
  /\ UNCHANGED <<evrPhase, action, got, waited, seconds, ticks, reader>>

EvrTick ==
  /\ seconds < MaxSeconds \/ ticks < Ticks - 1
  /\ seconds' = IF ticks = Ticks - 1 THEN seconds + 1 ELSE seconds
  /\ ticks' = (ticks + 1) % Ticks
  /\ UNCHANGED <<evrPhase, action, fifo, got, waited, reader>>

EvrWait ==
  /\ evrPhase = "listen" /\ waited <= Patience
  /\ waited' = waited + 1
  /\ UNCHANGED <<evrPhase, action, fifo, got, seconds, ticks, reader>>

EvrNext ==
  \/ \E e \in Events : evGot(e) \/ Arrives(e)
  \/ EndOfListening
  \/ \E e \in Events, triggers \in SUBSET IocTriggers : EventTriggers(e, triggers)
  \/ ReadSeconds \/ ReadTicks \/ ReadSecondsAgain \/ Return
  \/ EvrTick \/ EvrWait

EvrSpec == EvrInit /\ [][EvrNext]_EvrVars

(***************************************************************************)
(* Properties                                                              *)
(***************************************************************************)

\* Whatever the IOC assigns, an event fires those of the triggers 0 to 3 that the
\* start-up gave it: heartbeat, single pass, auto trim, pulse per second; and no
\* event goes into the FIFO, which is read no more.
SystemTriggersOf(e) ==
  {t \in SystemTriggers : <<t, e>> \in {<<0, Heartbeat>>, <<1, SinglePass>>,
                                        <<2, AutoTrim>>, <<3, Pps>>}}

SystemTriggersHold ==
  evrPhase = "run" => \A e \in Events : action[e] \ IocTriggers = SystemTriggersOf(e)

\* The time read is the time that it was when the ticks were read.
TimeIsConsistent == reader.at = "done" => <<reader.s, reader.t>> = reader.now
==============================================================================
