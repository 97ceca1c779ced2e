------------------------------ MODULE CellLinks ------------------------------
(***************************************************************************)
(* The two Aurora links to the neighbouring BPMs of the cell (cellComm.c):  *)
(* a state machine for each resets a link that stays down, both machines    *)
(* share one word of reset bits, and the index of this BPM in the fast      *)
(* orbit feedback is written to the same register.  The status of the links *)
(* is polled by the publisher; the machines measure time with a microsecond *)
(* count that starts again from zero long before 32 bits of it are used.    *)
(* The links themselves are external.                                      *)
(***************************************************************************)
EXTENDS Integers

CONSTANTS
  Wrap,       \* microseconds until the count of system ticks starts again
  Modulus,    \* 2^32, the arithmetic of the time-outs
  Long,       \* 30 s
  Middle,     \* 1 s
  Short,      \* 0.1 s
  Training,   \* a link is up that long after it was reset, at most
  Capacity,   \* BPM_PROTOCOL_FOFB_CAPACITY
  Indices,    \* indices that are commanded
  MaxFaults   \* bound on the failures of links

Link == {"CW", "CCW"}
Reset == {"aurora", "gt"}

ASSUME CellAssumption ==
  /\ Wrap \in Nat \ {0} /\ Modulus \in Nat /\ Modulus >= 2 * Wrap
  /\ Long \in Nat /\ Middle \in Nat /\ Short \in Nat
  /\ Training \in Nat /\ Capacity \in Nat /\ Indices \subseteq Int
  /\ MaxFaults \in Nat

VARIABLES
  usec,      \* sysTicksSinceBoot, in microseconds
  machine,   \* state, base and limit of each state machine
  control,   \* the reset bits of the links, as the software knows them
  csr,       \* the reset bits in the register
  fofb,      \* sysFOFBvalid and sysFOFBindex
  phase,     \* start-up, then whose machine is cranked next
  up,        \* channelUp of each link
  needs,     \* resets without which a link does not come up
  training,  \* time the link has had since it could begin to train
  polled,    \* have the machines been cranked since time passed?
  linkFaults

software == <<machine, control, phase>>
hardware == <<csr, fofb, up, needs, training>>
CellVars == <<usec, polled, linkFaults, software, hardware>>

States == {"S_UP", "S_DOWN1", "S_AURORA_RESET1", "S_DOWN2", "S_BOTH_RESET", "S_AURORA_RESET2"}

NoIndex == [valid |-> FALSE, index |-> 0]

CellTypeOK ==
  /\ usec \in 0 .. Wrap - 1
  /\ machine \in [Link -> [state : States, base : 0 .. Wrap - 1, limit : {0, Long, Middle, Short}]]
  /\ control \in [Link -> SUBSET Reset]
  /\ csr \in [Link -> SUBSET Reset]
  /\ fofb \in [valid : BOOLEAN, index : Int]
  /\ phase \in {"reset", "release", "CW", "CCW"}
  /\ up \in [Link -> BOOLEAN]
  /\ needs \in [Link -> SUBSET Reset]
  /\ training \in [Link -> 0 .. Training]
  /\ polled \in BOOLEAN /\ linkFaults \in 0 .. MaxFaults

\* The register powers up with the links in reset, and cellCommInit writes that.
CellInit ==
  /\ usec = 0
  /\ machine = [l \in Link |-> [state |-> "S_UP", base |-> 0, limit |-> 0]]
  /\ control = [l \in Link |-> {}]
  /\ csr = [l \in Link |-> Reset]
  /\ fofb = NoIndex
  /\ phase = "reset"
  /\ up = [l \in Link |-> FALSE]
  /\ needs = [l \in Link |-> {}]
  /\ training = [l \in Link |-> 0]
  /\ polled = TRUE /\ linkFaults = 0

(***************************************************************************)
(* The links                                                               *)
(***************************************************************************)

\* The reset bits of the register become r: a link in reset is down, and what it
\* needed is done.
WriteResets(r) ==
  /\ csr' = r
  /\ up' = [l \in Link |-> up[l] /\ r[l] = {}]
  /\ needs' = [l \in Link |-> needs[l] \ r[l]]
  /\ training' = [l \in Link |-> IF r[l] = {} THEN training[l] ELSE 0]

\* A link that is not in reset and needs none comes up, when it has had the time
\* at the latest.
ComesUp(l) ==
  /\ ~up[l] /\ csr[l] = {} /\ needs[l] = {}
  /\ up' = [up EXCEPT ![l] = TRUE]
  /\ UNCHANGED <<usec, polled, linkFaults, software, csr, fofb, needs, training>>

\* Links go down, and train again by themselves or only after resets.
GoDown(lost) ==
  /\ linkFaults < MaxFaults
  /\ linkFaults' = linkFaults + 1
  /\ \A l \in lost : up[l]
  /\ up' = [l \in Link |-> up[l] /\ l \notin lost]
  /\ training' = [l \in Link |-> IF l \in lost THEN 0 ELSE training[l]]
  /\ \E broken \in [lost -> SUBSET Reset] :
       needs' = [l \in Link |-> IF l \in lost THEN broken[l] ELSE needs[l]]
  /\ UNCHANGED <<usec, polled, software, csr, fofb>>

MayTrain(l) == ~up[l] /\ csr[l] = {} /\ needs[l] = {}

\* Time passes, though not for longer than a link needs to come up, and the
\* machines are polled more often.
CellTick ==
  /\ polled
  /\ polled' = (phase \notin Link)
  /\ \A l \in Link : MayTrain(l) => training[l] < Training
  /\ usec' = (usec + 1) % Wrap
  /\ training' = [l \in Link |-> IF MayTrain(l) THEN training[l] + 1 ELSE training[l]]
  /\ UNCHANGED <<linkFaults, software, csr, fofb, up, needs>>

(***************************************************************************)
(* cellCommInit: both resets for 0.1 s, then the Aurora ones for 1 s.       *)
(***************************************************************************)
CellCommInit ==
  /\ \/ /\ phase = "reset"
        /\ WriteResets([l \in Link |-> {"aurora"}])
        /\ phase' = "release"
     \/ /\ phase = "release"
        /\ WriteResets([l \in Link |-> {}])
        /\ phase' = "CW"
  /\ UNCHANGED <<usec, polled, linkFaults, machine, control, fofb>>

(***************************************************************************)
(* The state machines.  Each names its two bits the other way round: the    *)
(* field auroraReset holds the bit that resets the transceiver.            *)
(***************************************************************************)
auroraReset == "gt"
gtReset == "aurora"

SignedTimedOut(l) == usec - machine[l].base > machine[l].limit \* mutant: a signed difference

TimedOut(l) == (usec - machine[l].base) % Modulus > machine[l].limit

Goto(l, state, limit) ==
  machine' = [machine EXCEPT ![l] = [state |-> state, base |-> usec, limit |-> limit]]

BackUp(l) == machine' = [machine EXCEPT ![l].state = "S_UP"]

\* control changes for one link, and all of it is written to the register.
Control(l, resets) ==
  /\ control' = [control EXCEPT ![l] = resets]
  /\ WriteResets(control')

NoControl == UNCHANGED <<control, csr, up, needs, training>>

LinkLost(l) ==
  /\ machine[l].state = "S_UP" /\ ~up[l]
  /\ Goto(l, "S_DOWN1", Long)
  /\ NoControl

LinkBack(l) ==
  /\ machine[l].state \in {"S_DOWN1", "S_DOWN2"} /\ up[l]
  /\ BackUp(l)
  /\ NoControl

StartReset(l) ==
  /\ machine[l].state \in {"S_DOWN1", "S_DOWN2"} /\ ~up[l] /\ TimedOut(l)
  /\ IF machine[l].state = "S_DOWN1"
     THEN /\ Control(l, control[l] \cup {auroraReset})
          /\ Goto(l, "S_AURORA_RESET1", Short)
     ELSE /\ Control(l, control[l] \cup {auroraReset, gtReset})
          /\ Goto(l, "S_BOTH_RESET", Short)

EndReset(l) ==
  /\ TimedOut(l)
  /\ \/ /\ machine[l].state = "S_AURORA_RESET1"
        /\ Control(l, control[l] \ {auroraReset})
        /\ Goto(l, "S_DOWN2", Middle)
     \/ /\ machine[l].state = "S_BOTH_RESET"
        /\ Control(l, control[l] \ {gtReset})
        /\ Goto(l, "S_AURORA_RESET2", Middle)
     \/ /\ machine[l].state = "S_AURORA_RESET2"
        /\ Control(l, control[l] \ {auroraReset})
        /\ Goto(l, "S_DOWN1", Long)

Moves(l) ==
  \/ machine[l].state = "S_UP" /\ ~up[l]
  \/ machine[l].state \in {"S_DOWN1", "S_DOWN2"} /\ (up[l] \/ TimedOut(l))
  \/ machine[l].state \in {"S_AURORA_RESET1", "S_BOTH_RESET", "S_AURORA_RESET2"} /\ TimedOut(l)

Stay(l) == ~Moves(l) /\ UNCHANGED machine /\ NoControl

\* cellCommStatus cranks one machine, then the other.
crank(l) ==
  /\ phase = l
  /\ LinkLost(l) \/ LinkBack(l) \/ StartReset(l) \/ EndReset(l) \/ Stay(l)
  /\ phase' = IF l = "CW" THEN "CCW" ELSE "CW"
  /\ polled' = (polled \/ l = "CCW")
  /\ UNCHANGED <<usec, linkFaults, fofb>>

CellCommStatus == \E l \in Link : crank(l)

(***************************************************************************)
(* cellCommSetFOFB, between two calls of cellCommStatus                     *)
(***************************************************************************)
InCapacity(i) == i >= 0 /\ i < Capacity

SetFOFBAlone(i) == \* mutant: the reset bits are left out of the word written
  /\ phase = "CW"
  /\ fofb' = [valid |-> InCapacity(i), index |-> IF InCapacity(i) THEN i ELSE 0]
  /\ WriteResets([l \in Link |-> {}])
  /\ UNCHANGED <<usec, polled, linkFaults, software>>

CellCommSetFOFB(i) ==
  /\ phase = "CW"
  /\ fofb' = [valid |-> InCapacity(i), index |-> IF InCapacity(i) THEN i ELSE 0]
  /\ WriteResets(csr)
  /\ UNCHANGED <<usec, polled, linkFaults, software>>

CellNext ==
  \/ CellCommInit \/ CellCommStatus
  \/ \E i \in Indices : CellCommSetFOFB(i)
  \/ \E l \in Link : ComesUp(l)
  \/ \E lost \in SUBSET Link \ {{}} : GoDown(lost)
  \/ CellTick

\* The publisher cranks the machines again and again; links that can, train.
CellProcessor == CellCommInit \/ CellCommStatus
CellTraining == \E l \in Link : ComesUp(l)

CellSpec ==
  /\ CellInit /\ [][CellNext]_CellVars
  /\ WF_CellVars(CellProcessor) /\ WF_CellVars(CellTick) /\ WF_CellVars(CellTraining)

(***************************************************************************)
(* Properties                                                              *)
(***************************************************************************)

\* The register holds the resets the state machines are in, each link its own:
\* neither the other machine nor a new index changes them.
ResetsOf(state) ==
  IF state = "S_BOTH_RESET" THEN {auroraReset, gtReset}
  ELSE IF state \in {"S_AURORA_RESET1", "S_AURORA_RESET2"} THEN {auroraReset}
  ELSE {}

LinksResetByTheirState ==
  phase \in Link => \A l \in Link : csr[l] = ResetsOf(machine[l].state)

\* A link that needs any of the resets comes up again, though the count of
\* microseconds starts again from zero while it is being timed.
LinksComeBack == \A l \in Link : []<>up[l]
==============================================================================
