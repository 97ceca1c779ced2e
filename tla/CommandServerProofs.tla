------------------------ MODULE CommandServerProofs ------------------------
(***************************************************************************)
(* The command port, for every set of points and values and every number of *)
(* commands.  For any number of IOCs and any network: the settings stay     *)
(* within their limits, the FPGA is reset by the sequence and by nothing    *)
(* else, and a reply tells what its point reads.  With one IOC and a        *)
(* network that keeps its datagrams in order: a command is carried out at   *)
(* most once between restarts, and what has been answered stays true.       *)
(***************************************************************************)
EXTENDS CommandServer, TLAPS

\* The invariant holds at first.
LEMMA OnceInit == Init => OnceInv
<1> SUFFICES ASSUME Init PROVE OnceInv
    OBVIOUS
<1>1. number \in [Ioc -> 0 .. MaxNumber] /\ latest \in [Ioc -> 0 .. MaxNumber]
    BY CommandAssumption DEF Init
<1>2. times \in [CommandName -> 0 .. 2]
    BY DEF Init, StartServer
<1>3. NumbersNameCommands
    BY DEF Init, NumbersNameCommands, CommandSent
<1>4. LastIsLatest
  <2> SUFFICES ASSUME NEW i \in Ioc, NEW n \in 1 .. MaxNumber
               PROVE  times[<<i, n>>] = 0
      BY DEF LastIsLatest
  <2>1. <<i, n>> \in CommandName
      BY DEF CommandName
  <2>2. times[<<i, n>>] = 0
      BY <2>1 DEF Init, StartServer
  <2> QED BY <2>2
<1> QED BY <1>1, <1>2, <1>3, <1>4 DEF OnceInv

\* A step that sends no command leaves what the numbers stand for.
LEMMA SameCommands ==
  ASSUME NumbersNameCommands, number' = number, CommandSent' = CommandSent
  PROVE  NumbersNameCommands'
BY DEF NumbersNameCommands

\* A datagram that is not a command is not among those sent.
LEMMA OneMore ==
  ASSUME NEW r, r.type # "Command", net' = net \cup {r}
  PROVE  CommandSent' = CommandSent
BY DEF CommandSent

\* The command remembered is still the latest if only datagrams are added.
LEMMA LastStays ==
  ASSUME LastIsLatest, CommandSent \subseteq CommandSent',
         UNCHANGED <<times, latest, lastCommand>>
  PROVE  LastIsLatest'
BY DEF LastIsLatest

\* A command that is carried out is new: nothing newer has been delivered,
\* and of the newest the server remembers it.
LEMMA NewWhenCarriedOut ==
  ASSUME OnceInv, InOrder, NEW a, Ioc = {a},
         NEW m \in net, CarryOut(m)
  PROVE  /\ m \in CommandSent
         /\ m.cmd \in Command
         /\ m.ioc = m.cmd.ioc
         /\ <<m.cmd.ioc, m.cmd.number>> \in CommandName
         /\ times[<<m.cmd.ioc, m.cmd.number>>] = 0
<1>1. m \in CommandSent
    BY DEF CarryOut, Delivered, CommandSent
<1>2. m.cmd \in Command /\ m.ioc = m.cmd.ioc
    BY <1>1 DEF OnceInv, NumbersNameCommands
<1> DEFINE i == m.cmd.ioc
           n == m.cmd.number
<1>3. i \in Ioc /\ n \in 1 .. MaxNumber
    BY <1>2 DEF Command
<1>4. <<i, n>> \in CommandName
    BY <1>3 DEF CommandName
<1>5. ASSUME times[<<i, n>>] # 0 PROVE FALSE
  <2>1. n <= latest[i] /\ lastCommand # None /\ lastCommand.number = latest[i]
      BY <1>3, <1>5 DEF OnceInv, LastIsLatest
  <2>2. PICK k \in CommandSent : k.cmd = lastCommand
      BY <1>3, <1>5 DEF OnceInv, LastIsLatest
  <2>3. n >= latest[i]
      BY <1>2 DEF CarryOut, Delivered
  <2>4. latest[i] \in Int /\ n \in Int
      BY <1>3, CommandAssumption DEF OnceInv
  <2>5. lastCommand.number = n
      BY <2>1, <2>3, <2>4
  <2>6. k.cmd \in Command /\ k.cmd.ioc = k.ioc
      BY DEF OnceInv, NumbersNameCommands
  <2>7. k.ioc = m.ioc
      BY <1>2, <2>6 DEF Command
  <2>8. k = m
      BY <1>1, <2>2, <2>5, <2>7 DEF OnceInv, NumbersNameCommands
  <2>9. lastCommand = m.cmd
      BY <2>2, <2>8
  <2>10. IsDuplicate(m.cmd)
      BY <2>1, <2>9 DEF IsDuplicate
  <2> QED BY <2>10 DEF CarryOut
<1> QED BY <1>1, <1>2, <1>4, <1>5

\* A command that is new is carried out.
LEMMA CarryOutKeeps ==
  ASSUME OnceInv, InOrder, NEW a, Ioc = {a},
         NEW m \in net, CarryOut(m)
  PROVE  OnceInv'
<1> DEFINE c == m.cmd
           x == <<c.ioc, c.number>>
<1>1. /\ m \in CommandSent
      /\ c \in Command
      /\ m.ioc = c.ioc
      /\ x \in CommandName
      /\ times[x] = 0
    BY NewWhenCarriedOut
<1>2. c.ioc = a /\ c.number \in 1 .. MaxNumber /\ c.number \in 0 .. MaxNumber
    BY <1>1, CommandAssumption DEF Command
<1>3. number' = number
    BY DEF CarryOut, client
<1>4. CommandSent' = CommandSent
  <2>1. CASE rebooting'
      BY <2>1 DEF CarryOut, CommandSent
  <2>2. CASE ~rebooting'
    <3> DEFINE r == Reply(m, reply', setting', shown')
    <3>1. r.type # "Command"
        BY DEF Reply
    <3>2. net' = net \cup {r}
        BY <2>2 DEF CarryOut
    <3> HIDE DEF r
    <3> QED BY <3>1, <3>2, OneMore
  <2> QED BY <2>1, <2>2
<1>5. latest' = [latest EXCEPT ![a] = c.number]
    BY <1>1, <1>2 DEF CarryOut, Delivered
<1>6. latest' \in [Ioc -> 0 .. MaxNumber] /\ latest'[a] = c.number
    BY <1>2, <1>5 DEF OnceInv
<1>7. times' = [times EXCEPT ![x] = 1]
    BY <1>1 DEF CarryOut, OnceInv
<1>8. times' \in [CommandName -> 0 .. 2]
    BY <1>1, <1>7 DEF OnceInv
<1>9. lastCommand' = c
    BY DEF CarryOut
<1>10. c # None
    BY <1>1 DEF Command, None
<1>11. latest[a] <= c.number
    BY <1>1, <1>2 DEF CarryOut, Delivered
<1>12. LastIsLatest'
  <2> SUFFICES ASSUME NEW i \in Ioc, NEW n \in 1 .. MaxNumber,
                      times'[<<i, n>>] # 0
               PROVE  /\ times'[<<i, n>>] = 1
                      /\ n <= latest'[i]
      BY <1>1, <1>2, <1>4, <1>6, <1>9, <1>10 DEF LastIsLatest
  <2>1. i = a
      OBVIOUS
  <2>2. <<i, n>> \in CommandName
      BY DEF CommandName
  <2>3. CASE <<i, n>> = x
      BY <1>1, <1>2, <1>6, <1>7, <2>1, <2>2, <2>3 DEF OnceInv
  <2>4. CASE <<i, n>> # x
    <3>1. times'[<<i, n>>] = times[<<i, n>>]
        BY <1>7, <2>2, <2>4 DEF OnceInv
    <3>2. times[<<i, n>>] = 1 /\ n <= latest[i]
        BY <3>1 DEF OnceInv, LastIsLatest
    <3>3. latest[a] \in Int /\ c.number \in Int
        BY <1>2, CommandAssumption DEF OnceInv
    <3> QED BY <1>6, <1>11, <2>1, <3>1, <3>2, <3>3
  <2> QED BY <2>3, <2>4
<1>13. NumbersNameCommands'
    BY <1>3, <1>4, SameCommands DEF OnceInv
<1> QED BY <1>3, <1>6, <1>8, <1>12, <1>13 DEF OnceInv

\* A duplicate is answered from memory.
LEMMA AnswerAgainKeeps ==
  ASSUME OnceInv, InOrder, NEW a, Ioc = {a},
         NEW m \in net, AnswerAgain(m)
  PROVE  OnceInv'
<1> DEFINE c == m.cmd
<1>1. m \in CommandSent
    BY DEF AnswerAgain, Delivered, CommandSent
<1>2. c \in Command /\ m.ioc = c.ioc
    BY <1>1 DEF OnceInv, NumbersNameCommands
<1>3. c.ioc = a /\ c.number \in 0 .. MaxNumber
    BY <1>2, CommandAssumption DEF Command
<1>4. CommandSent' = CommandSent /\ number' = number
  <2> DEFINE r == Reply(m, reply, setting, shown)
  <2>1. r.type # "Command"
      BY DEF Reply
  <2>2. net' = net \cup {r}
      BY DEF AnswerAgain
  <2> HIDE DEF r
  <2> QED BY <2>1, <2>2, OneMore DEF AnswerAgain, client
<1>5. UNCHANGED <<times, lastCommand>>
    BY DEF AnswerAgain, server
<1>6. latest' = [latest EXCEPT ![a] = c.number] /\ latest[a] <= c.number
    BY <1>2, <1>3 DEF AnswerAgain, Delivered
<1>7. latest' \in [Ioc -> 0 .. MaxNumber] /\ latest'[a] = c.number
    BY <1>3, <1>6 DEF OnceInv
<1>8. lastCommand.number = c.number
    BY DEF AnswerAgain, IsDuplicate
<1>9. LastIsLatest'
  <2> SUFFICES ASSUME NEW i \in Ioc, NEW n \in 1 .. MaxNumber,
                      times[<<i, n>>] # 0
               PROVE  /\ times[<<i, n>>] = 1
                      /\ n <= latest'[i]
                      /\ lastCommand # None
                      /\ lastCommand.number = latest'[i]
                      /\ \E k \in CommandSent : k.cmd = lastCommand
      BY <1>4, <1>5 DEF LastIsLatest
  <2>1. /\ times[<<i, n>>] = 1
        /\ n <= latest[i]
        /\ lastCommand # None
        /\ \E k \in CommandSent : k.cmd = lastCommand
      BY DEF OnceInv, LastIsLatest
  <2>2. latest[a] \in Int /\ c.number \in Int
      BY <1>3, CommandAssumption DEF OnceInv
  <2>3. i = a
      OBVIOUS
  <2> QED BY <1>6, <1>7, <1>8, <2>1, <2>2, <2>3
<1>10. NumbersNameCommands'
    BY <1>4, SameCommands DEF OnceInv
<1> QED BY <1>4, <1>5, <1>7, <1>9, <1>10 DEF OnceInv

\* A command that is issued has a number of its own.
LEMMA IssueNames ==
  ASSUME NumbersNameCommands, number \in [Ioc -> 0 .. MaxNumber],
         NEW i \in Ioc, NEW p \in Point, NEW w \in BOOLEAN, NEW v \in Value,
         Issue(i, p, w, v)
  PROVE  NumbersNameCommands' /\ CommandSent \subseteq CommandSent'
<1> DEFINE c == [ioc |-> i, number |-> number[i] + 1, point |-> p, write |-> w,
                 value |-> IF w THEN v ELSE 0]
           m == [type |-> "Command", ioc |-> i, cmd |-> c]
<1>1. /\ number' = [number EXCEPT ![i] = @ + 1]
      /\ number[i] < MaxNumber
      /\ net' = net \cup {m}
    BY DEF Issue
<1>2. number[i] \in 0 .. MaxNumber /\ number[i] + 1 \in 1 .. MaxNumber
    BY <1>1, CommandAssumption
<1>3. \A j \in Ioc : number'[j] = IF j = i THEN number[i] + 1 ELSE number[j]
    BY <1>1
<1>4. c \in Command
    BY <1>2 DEF Command
<1>5. c.ioc = i /\ c.number = number[i] + 1
    OBVIOUS
<1>6. m.type = "Command" /\ m.ioc = i /\ m.cmd = c
    OBVIOUS
<1> HIDE DEF c, m
<1>7. CommandSent' = CommandSent \cup {m}
    BY <1>1, <1>6 DEF CommandSent
<1>8. ASSUME NEW k \in CommandSent
      PROVE  /\ k.cmd \in Command
             /\ k.cmd.ioc = k.ioc
             /\ k.ioc \in Ioc
             /\ k.cmd.number <= number[k.ioc]
             /\ k.cmd.number \in Int /\ number[k.ioc] \in Int
    BY <1>8, CommandAssumption DEF NumbersNameCommands, Command
<1>9. ASSUME NEW k \in CommandSent, k.ioc = i
      PROVE  k.cmd.number # c.number
    BY <1>2, <1>5, <1>8, <1>9
<1>10. ASSUME NEW k \in CommandSent \cup {m}
       PROVE  /\ k.cmd \in Command
              /\ k.cmd.ioc = k.ioc
              /\ k.cmd.number <= number'[k.ioc]
  <2>1. CASE k = m
      BY <1>2, <1>3, <1>4, <1>5, <1>6, <2>1
  <2>2. CASE k \in CommandSent
      BY <1>2, <1>3, <1>8, <2>2
  <2> QED BY <1>10, <2>1, <2>2
<1>11. ASSUME NEW k \in CommandSent \cup {m}, NEW l \in CommandSent \cup {m},
              l.ioc = k.ioc, l.cmd.number = k.cmd.number
       PROVE  l = k
  <2>1. CASE k \in CommandSent /\ l \in CommandSent
      BY <1>11, <2>1 DEF NumbersNameCommands
  <2>2. CASE k = m \/ l = m
      BY <1>6, <1>9, <1>11, <2>2
  <2> QED BY <1>11, <2>1, <2>2
<1>12. NumbersNameCommands'
    BY <1>7, <1>10, <1>11 DEF NumbersNameCommands
<1> QED BY <1>7, <1>12

\* The IOC issues a command or repeats one.
LEMMA IssueKeeps ==
  ASSUME OnceInv,
         NEW i \in Ioc, NEW p \in Point, NEW w \in BOOLEAN, NEW v \in Value,
         Issue(i, p, w, v)
  PROVE  OnceInv'
<1>1. /\ number' = [number EXCEPT ![i] = @ + 1]
      /\ number[i] < MaxNumber
      /\ UNCHANGED <<times, latest, lastCommand>>
    BY DEF Issue, server
<1>2. number' \in [Ioc -> 0 .. MaxNumber]
    BY <1>1, CommandAssumption DEF OnceInv
<1>3. NumbersNameCommands' /\ CommandSent \subseteq CommandSent'
    BY IssueNames DEF OnceInv
<1>4. LastIsLatest'
    BY <1>1, <1>3, LastStays DEF OnceInv
<1> QED BY <1>1, <1>2, <1>3, <1>4 DEF OnceInv

\* A restart forgets the command and begins to count anew.
LEMMA RestartKeeps ==
  ASSUME OnceInv, Restart
  PROVE  OnceInv' /\ times' = [x \in CommandName |-> 0]
<1>1. times' = [x \in CommandName |-> 0]
    BY DEF Restart, StartServer
<1>2. UNCHANGED <<number, latest>> /\ CommandSent' = CommandSent
    BY DEF Restart, client, CommandSent
<1>3. \A i \in Ioc, n \in 1 .. MaxNumber : times'[<<i, n>>] = 0
    BY <1>1 DEF CommandName
<1>4. LastIsLatest'
    BY <1>3 DEF LastIsLatest
<1>5. NumbersNameCommands'
    BY <1>2, SameCommands DEF OnceInv
<1>6. times' \in [CommandName -> 0 .. 2]
    BY <1>1
<1> QED BY <1>1, <1>2, <1>4, <1>5, <1>6 DEF OnceInv

\* The steps that neither carry out nor issue a command.
LEMMA OtherStepsKeep ==
  ASSUME OnceInv,
         UNCHANGED <<times, latest, lastCommand, number>>,
         CommandSent' = CommandSent
  PROVE  OnceInv'
BY SameCommands, LastStays DEF OnceInv

\* A reset that fails changes nothing of it.
LEMMA RebootFailsKeeps ==
  ASSUME OnceInv, RebootFails
  PROVE  OnceInv' /\ UNCHANGED times
<1> DEFINE r == Reply([ioc |-> lastCommand.ioc, cmd |-> lastCommand], reply, setting, shown)
<1>1. r.type # "Command"
    BY DEF Reply
<1>2. net' = net \cup {r}
    BY DEF RebootFails
<1> HIDE DEF r
<1>3. CommandSent' = CommandSent
    BY <1>1, <1>2, OneMore
<1> QED BY <1>3, OtherStepsKeep DEF RebootFails, client

\* Every step either carries out a command that has not been carried out, or
\* restarts, or carries out nothing.
LEMMA OnceStep ==
  ASSUME OnceInv, InOrder, NEW a, Ioc = {a}, [Next]_vars
  PROVE  OnceInv' /\ [Once!Next]_times
<1>1. CASE \E m \in net : AnswerAgain(m)
    BY <1>1, AnswerAgainKeeps DEF AnswerAgain, server
<1>2. CASE \E m \in net : CarryOut(m)
  <2> PICK m \in net : CarryOut(m)
      BY <1>2
  <2> DEFINE x == <<m.cmd.ioc, m.cmd.number>>
  <2>1. x \in CommandName /\ times[x] = 0
      BY NewWhenCarriedOut
  <2>2. times' = [times EXCEPT ![x] = 1]
      BY <2>1 DEF CarryOut, OnceInv
  <2>3. Once!Execute(x)
      BY <2>1, <2>2 DEF Once!Execute
  <2>4. Once!Next
      BY <2>1, <2>3 DEF Once!Next
  <2> QED BY <2>4, CarryOutKeeps
<1>3. CASE RebootFails
    BY <1>3, RebootFailsKeeps
<1>4. CASE Restart
    BY <1>4, RestartKeeps DEF Once!Next, Once!Restart, Once!Never
<1>5. CASE ConsoleDebug
    BY <1>5, OtherStepsKeep DEF ConsoleDebug, client, CommandSent
<1>6. CASE Network
    BY <1>6, OtherStepsKeep DEF Network, Accept, server, CommandSent
<1>7. CASE Client
  <2>1. CASE \E i \in Ioc, p \in Point, w \in BOOLEAN, v \in Value : Issue(i, p, w, v)
    <3>1. PICK i \in Ioc, p \in Point, w \in BOOLEAN, v \in Value : Issue(i, p, w, v)
        BY <2>1
    <3>2. OnceInv'
        BY <3>1, IssueKeeps
    <3>3. UNCHANGED times
        BY <3>1 DEF Issue, server
    <3> QED BY <3>2, <3>3
  <2>2. CASE \E i \in Ioc : Abandon(i)
      BY <2>2, OtherStepsKeep DEF Abandon, server, CommandSent
  <2> QED BY <1>7, <2>1, <2>2 DEF Client
<1>8. CASE UNCHANGED vars
    BY <1>8, OtherStepsKeep DEF vars, server, client, CommandSent
<1>9. CASE HardwareMoves
    BY <1>9, OtherStepsKeep DEF HardwareMoves, client, CommandSent
<1> QED BY <1>1, <1>2, <1>3, <1>4, <1>5, <1>6, <1>7, <1>8, <1>9 DEF Next, Bpm

\* If one IOC commands the BPM over a network that keeps its datagrams in
\* order, then no command is carried out twice between two restarts, although
\* server_callback compares with the last command only.
THEOREM CommandsOnce ==
  ASSUME InOrder, NEW a, Ioc = {a}
  PROVE  Spec => CarriedOutOnce
<1>1. Init => Once!Init
    BY DEF Init, StartServer, Once!Init, Once!Never
<1>2. OnceInv /\ [Next]_vars => OnceInv' /\ [Once!Next]_times
    BY OnceStep
<1> QED BY <1>1, <1>2, OnceInit, PTL DEF Spec, CarriedOutOnce, Once!Spec

(***************************************************************************)
(* Types, for any number of IOCs and any network                           *)
(***************************************************************************)

TypesInv == TypeOK /\ NumbersNameCommands

\* The constants.
LEMMA CommandFacts ==
  /\ Value \subseteq Int /\ FullScale \in Nat /\ Capacity \in Nat /\ Capacity > 0
  /\ MaxNumber \in Nat
  /\ Point \subseteq Settings \cup HardwarePoints \cup ZeroPoints \cup SilentPoints
BY CommandAssumption, PointAssumption

\* The sequence that resets.
LEMMA MatchFacts == Len(match) = 3 /\ match[1] = 0 /\ match[2] = 100 /\ match[3] = 10000
BY DEF match

\* The kinds of points are apart.
LEMMA PointsApart ==
  /\ \A p \in HardwarePoints : p \notin Settings \cup ZeroPoints
  /\ \A p \in Settings : p \notin ZeroPoints
BY DEF HardwarePoints, Settings, ZeroPoints

\* What a command holds.
LEMMA CommandFields ==
  ASSUME NEW c \in Command
  PROVE  /\ c.ioc \in Ioc /\ c.number \in 1 .. MaxNumber /\ c.number \in 0 .. MaxNumber
         /\ c.point \in Point /\ c.write \in BOOLEAN /\ c.value \in Int
         /\ <<c.ioc, c.number>> \in CommandName
         /\ c # None
<1>1. /\ c.ioc \in Ioc /\ c.number \in 1 .. MaxNumber
      /\ c.point \in Point /\ c.write \in BOOLEAN /\ c.value \in Value \cup {0}
    BY DEF Command
<1>2. c.value \in Int
  <2>1. 0 \in Int /\ \A v \in Value : v \in Int
      BY CommandFacts
  <2> QED BY <1>1, <2>1, Zenon
<1>3. c.number \in 0 .. MaxNumber
    BY <1>1, CommandFacts
<1>4. c # None
    BY DEF Command, None
<1> QED BY <1>1, <1>2, <1>3, <1>4 DEF CommandName

(***************************************************************************)
(* The hardware behind the points                                          *)
(***************************************************************************)

\* The bound of a level.
LEMMA LevelsFacts == Levels \in Nat /\ Levels > 0 /\ \A v \in Int : v % Levels \in 0 .. Levels - 1
<1>1. Levels \in Nat /\ Levels > 0
    BY SMT DEF Levels
<1>2. ASSUME NEW v \in Int, NEW n \in Nat, n > 0 PROVE v % n \in 0 .. n - 1
    BY <1>2, SMT
<1> QED BY <1>1, <1>2, Zenon

\* What the hardware does by itself keeps its types and the registers written.
LEMMA StepsKeep ==
  ASSUME NEW p, NEW h \in Hardware, NEW g \in StepsOf(p, h)
  PROVE  /\ g \in Hardware
         /\ g.modePending = h.modePending /\ g.shiftPending = h.shiftPending
         /\ g.level = h.level
<1>1. CASE p \in TrimPoints /\ h.busy
  <2>1. p # "selfTrigLevel" /\ p # "arm"
      BY <1>1 DEF TrimPoints
  <2>2. StepsOf(p, h) = Check(h)
      BY <1>1, <2>1 DEF StepsOf
  <2>3. g = [h EXCEPT !.busy = FALSE, !.on = h.mode # 0]
      BY <2>2, Zenon DEF Check
  <2>4. (h.mode # 0) \in BOOLEAN
      OBVIOUS
  <2> QED BY <2>3, <2>4 DEF Hardware
<1>2. CASE p \in TrimPoints /\ ~h.busy
  <2>1. p # "selfTrigLevel" /\ p # "arm"
      BY <1>2 DEF TrimPoints
  <2>2. StepsOf(p, h) = Idle(h)
      BY <1>2, <2>1 DEF StepsOf
  <2>3. PICK tone \in BOOLEAN :
          g = [h EXCEPT !.mode = h.modePending, !.shift = h.shiftPending, !.busy = tone]
      BY <2>2, Zenon DEF Idle
  <2> QED BY <2>3 DEF Hardware
<1>3. CASE p = "selfTrigLevel"
  <2>1. PICK o \in 0 .. 1 : g = [h EXCEPT !.overload = o]
      BY <1>3 DEF StepsOf, TrimPoints
  <2> QED BY <2>1 DEF Hardware
<1>4. CASE p = "arm"
  <2>1. g = [h EXCEPT !.armed = FALSE]
      BY <1>4 DEF StepsOf, TrimPoints
  <2> QED BY <2>1 DEF Hardware
<1>5. CASE p \notin TrimPoints \cup {"selfTrigLevel", "arm"}
    BY <1>5 DEF StepsOf
<1> QED BY <1>1, <1>2, <1>3, <1>4, <1>5

\* So does whatever it does before the next access.
LEMMA LaterKeeps ==
  ASSUME NEW p, NEW h \in Hardware, NEW g \in Later(p, h)
  PROVE  /\ g \in Hardware
         /\ g.modePending = h.modePending /\ g.shiftPending = h.shiftPending
         /\ g.level = h.level
<1>1. PICK f \in Soon(p, h) : g \in Soon(p, f)
    BY DEF Later
<1>2. f = h \/ f \in StepsOf(p, h)
    BY DEF Soon
<1>3. /\ f \in Hardware
      /\ f.modePending = h.modePending /\ f.shiftPending = h.shiftPending
      /\ f.level = h.level
    BY <1>2, StepsKeep
<1>4. g = f \/ g \in StepsOf(p, f)
    BY <1>1 DEF Soon
<1> QED BY <1>3, <1>4, StepsKeep

\* A write puts the value into its register.
LEMMA WrittenTells ==
  ASSUME NEW p, NEW v \in Int, NEW read \in Hardware, NEW h \in Hardware
  PROVE  /\ Written(p, v, read, h) \in Hardware
         /\ KeepsWrite(p, v) => Told(p, Written(p, v, read, h)) = Asked(p, v)
<1> DEFINE w == Written(p, v, read, h)
<1> SUFFICES w \in Hardware /\ (KeepsWrite(p, v) => Told(p, w) = Asked(p, v))
    OBVIOUS
<1>1. CASE p = "atEnable"
  <2>1. CASE v \in 0 .. 4
    <3>1. w = [h EXCEPT !.modePending = v, !.shiftPending = read.shift]
        BY <1>1, <2>1 DEF Written
    <3>2. w \in Hardware /\ w.modePending = v
        BY <2>1, <3>1 DEF Hardware
    <3> HIDE DEF w
    <3> QED BY <1>1, <3>2 DEF Told, Asked
  <2>2. CASE v \notin 0 .. 4
      BY <1>1, <2>2 DEF Written, KeepsWrite
  <2> QED BY <2>1, <2>2
<1>2. CASE p = "atFilter"
  <2>1. w = [h EXCEPT !.modePending = read.mode, !.shiftPending = v % 8]
      BY <1>2 DEF Written
  <2>2. v % 8 \in 0 .. 7
      OBVIOUS
  <2>3. w \in Hardware /\ w.shiftPending = v % 8
      BY <2>1, <2>2 DEF Hardware
  <2> HIDE DEF w
  <2> QED BY <1>2, <2>3 DEF Told, Asked
<1>3. CASE p = "dspType"
  <2>1. w = [h EXCEPT !.modePending = read.mode, !.shiftPending = read.shift]
      BY <1>3 DEF Written
  <2>2. w \in Hardware
      BY <2>1 DEF Hardware
  <2> QED BY <1>3, <2>2 DEF KeepsWrite
<1>4. CASE p = "selfTrigLevel"
  <2>1. w = [h EXCEPT !.level = v % Levels]
      BY <1>4 DEF Written
  <2>2. v % Levels \in 0 .. Levels - 1
      BY LevelsFacts
  <2>3. w \in Hardware /\ w.level = v % Levels
      BY <2>1, <2>2 DEF Hardware
  <2> HIDE DEF w
  <2> QED BY <1>4, <2>3 DEF Told, Asked
<1>5. CASE p = "arm"
  <2>1. w = [h EXCEPT !.armed = v # 0]
      BY <1>5 DEF Written
  <2>2. (v # 0) \in BOOLEAN
      OBVIOUS
  <2>3. w \in Hardware
      BY <2>1, <2>2 DEF Hardware
  <2> QED BY <1>5, <2>3 DEF KeepsWrite
<1>6. CASE p \notin {"atEnable", "atFilter", "dspType", "selfTrigLevel", "arm"}
    BY <1>6 DEF Written, KeepsWrite
<1> QED BY <1>1, <1>2, <1>3, <1>4, <1>5, <1>6

\* Nor does the register lose it while the handler reads the point back.
LEMMA AfterWriteTells ==
  ASSUME NEW p, NEW v \in Int, NEW h \in Hardware, NEW g \in AfterWrite(p, v, h)
  PROVE  /\ g \in Hardware
         /\ KeepsWrite(p, v) => Told(p, g) = Asked(p, v)
<1>1. PICK f \in Later(p, h) : g \in Later(p, Written(p, v, h, f))
    BY DEF AfterWrite
<1> DEFINE w == Written(p, v, h, f)
<1>2. f \in Hardware
    BY LaterKeeps
<1>3. w \in Hardware /\ (KeepsWrite(p, v) => Told(p, w) = Asked(p, v))
    BY <1>2, WrittenTells
<1>4. g \in Later(p, w)
    BY <1>1
<1> HIDE DEF w
<1>5. /\ g \in Hardware
      /\ g.modePending = w.modePending /\ g.shiftPending = w.shiftPending
      /\ g.level = w.level
    BY <1>3, <1>4, LaterKeeps
<1> QED BY <1>3, <1>5 DEF Told

\* What a point reads is a number.
LEMMA ReadoutType == ASSUME NEW p, NEW h \in Hardware PROVE Readout(p, h) \in Int
<1>1. h.shift \in Int /\ h.level \in Int /\ h.overload \in Int
    BY DEF Hardware
<1>2. h.level + Levels * h.overload \in Int
    BY <1>1, LevelsFacts, SMT
<1> QED BY <1>1, <1>2 DEF Readout

\* The hardware when a handler has done with it.
LEMMA HandledTells ==
  ASSUME hw \in Hardware, NEW c \in Command, NEW g \in Handled(c)
  PROVE  /\ g \in Hardware
         /\ c.write /\ KeepsWrite(c.point, c.value) => Told(c.point, g) = Asked(c.point, c.value)
<1>1. c.value \in Int
    BY CommandFields
<1>2. CASE c.write
    BY <1>1, <1>2, AfterWriteTells DEF Handled
<1>3. CASE ~c.write
    BY <1>3 DEF Handled
<1> QED BY <1>2, <1>3

\* After a start the hardware is idle.
LEMMA StartIsHardware == HardwareAtStart \in Hardware
BY LevelsFacts DEF HardwareAtStart, Hardware

\* The hardware that moves keeps what was written.
LEMMA HardwareMovesKeeps ==
  ASSUME hw \in Hardware, HardwareMoves
  PROVE  /\ hw' \in Hardware
         /\ \A p : Told(p, hw') = Told(p, hw)
<1>1. PICK p \in Point : hw' \in StepsOf(p, hw)
    BY DEF HardwareMoves
<1>2. /\ hw' \in Hardware
      /\ hw'.modePending = hw.modePending /\ hw'.shiftPending = hw.shiftPending
      /\ hw'.level = hw.level
    BY <1>1, StepsKeep
<1> QED BY <1>2 DEF Told

\* The commands that are delivered are those sent.
LEMMA DeliveredIsSent ==
  ASSUME NumbersNameCommands, NEW m \in net, Delivered(m)
  PROVE  m \in CommandSent /\ m.cmd \in Command /\ m.cmd.ioc = m.ioc
BY DEF Delivered, CommandSent, NumbersNameCommands

\* What is stored is a number, and within the limits that later code relies on.
LEMMA StoredIsWithin ==
  ASSUME NEW p \in Settings, NEW old \in Int, NEW v \in Int
  PROVE  /\ Stored(p, old, v) \in Int
         /\ p = "acqCount" /\ old \in 1 .. Capacity => Stored(p, old, v) \in 1 .. Capacity
         /\ p = "chanGain" => Stored(p, old, v) \in 0 .. FullScale
<1>1. CASE p \in {"adcGain", "acqMode"}
  <2>1. p # "acqCount" /\ p # "chanGain"
      BY <1>1
  <2>2. Stored(p, old, v) = IF v = 0 THEN 0 ELSE 1
      BY <1>1 DEF Stored
  <2> QED BY <2>1, <2>2
<1>2. CASE p = "atThresh"
  <2>1. (IF v > MinimumThreshold THEN v ELSE MinimumThreshold) \in Int
      BY SMT DEF MinimumThreshold
  <2> QED BY <1>2, <2>1 DEF Stored
<1>3. CASE p = "dspType"
  <2>1. v % 2 \in Int
      OBVIOUS
  <2> QED BY <1>3, <2>1 DEF Stored
<1>4. CASE p \in {"tbtSumShift", "mtSumShift"}
  <2>1. Clamp(v, 0, 15) \in Int
      BY DEF Clamp
  <2> QED BY <1>4, <2>1 DEF Stored
<1>5. CASE p = "chanGain"
  <2>1. Clamp(v, 0, FullScale) \in 0 .. FullScale
      BY CommandFacts DEF Clamp
  <2> QED BY <1>5, <2>1 DEF Stored
<1>6. CASE p = "eventTriggers"
  <2>1. ((v \div 16) % 16) * 16 + (old % 16) \in Int
      OBVIOUS
  <2> QED BY <1>6, <2>1 DEF Stored
<1>7. CASE p = "triggerMask"
  <2>1. v % 256 \in Int
      OBVIOUS
  <2> QED BY <1>7, <2>1 DEF Stored
<1>8. CASE p = "pretrigCount"
  <2>1. Clamp(v, 0, Capacity) \in Int
      BY CommandFacts DEF Clamp
  <2> QED BY <1>8, <2>1 DEF Stored
<1>9. CASE p = "acqCount"
  <2>1. Clamp(v, 1, Capacity) \in 1 .. Capacity
      BY CommandFacts DEF Clamp
  <2> QED BY <1>9, <2>1 DEF Stored
<1>10. CASE p \notin {"adcGain", "acqMode", "atThresh", "dspType", "tbtSumShift",
                      "mtSumShift", "chanGain", "eventTriggers", "triggerMask", "pretrigCount",
                      "acqCount"}
    BY <1>10 DEF Stored
<1> QED BY <1>1, <1>2, <1>3, <1>4, <1>5, <1>6, <1>7, <1>8, <1>9, <1>10

\* The settings after a command.
LEMMA SettledIsWithin ==
  ASSUME TypeOK, NEW c \in Command
  PROVE  /\ Settled(c) \in [Settings -> Int]
         /\ Settled(c)["acqCount"] \in 1 .. Capacity
         /\ Settled(c)["chanGain"] \in 0 .. FullScale
<1>1. "acqCount" \in Settings /\ "chanGain" \in Settings
    BY DEF Settings
<1>2. CASE c.write /\ c.point \in Settings
  <2> DEFINE p == c.point
             x == Stored(p, setting[p], c.value)
  <2>1. setting \in [Settings -> Int] /\ p \in Settings /\ c.value \in Int
      BY <1>2, CommandFields DEF TypeOK
  <2>2. /\ x \in Int
        /\ p = "acqCount" => x \in 1 .. Capacity
        /\ p = "chanGain" => x \in 0 .. FullScale
      BY <2>1, StoredIsWithin DEF TypeOK
  <2>3. Settled(c) = [setting EXCEPT ![p] = x]
      BY <1>2 DEF Settled
  <2> HIDE DEF p, x
  <2> QED BY <1>1, <2>1, <2>2, <2>3 DEF TypeOK
<1>3. CASE ~(c.write /\ c.point \in Settings)
    BY <1>3 DEF Settled, TypeOK
<1> QED BY <1>2, <1>3

\* What a setting reads back as is a number.
LEMMA ReportedType == ASSUME NEW p, NEW x \in Int PROVE Reported(p, x) \in Int
<1>1. (x \div 16) * 16 \in Int
    OBVIOUS
<1> QED BY <1>1 DEF Reported

\* The settings at first.
LEMMA DefaultType == \A p : Default(p) \in Int
<1>1. MinimumThreshold \in Int
    BY SMT DEF MinimumThreshold
<1> QED BY <1>1 DEF Default

\* The types hold at first, and after every start.
LEMMA TypesInit == Init => TypesInv
<1> SUFFICES ASSUME Init PROVE TypesInv
    OBVIOUS
<1>1. NumbersNameCommands
    BY DEF Init, NumbersNameCommands, CommandSent
<1>2. setting \in [Settings -> Int] /\ setting["acqCount"] = 1 /\ setting["chanGain"] = 0
  <2>1. setting = [p \in Settings |-> Default(p)]
      BY DEF Init, StartServer
  <2>2. Default("acqCount") = 1 /\ Default("chanGain") = 0
      BY DEF Default
  <2>3. "acqCount" \in Settings /\ "chanGain" \in Settings
      BY DEF Settings
  <2> QED BY <2>1, <2>2, <2>3, DefaultType
<1>3. /\ reply \in [number : 0 .. MaxNumber, value : Int]
      /\ number \in [Ioc -> 0 .. MaxNumber] /\ latest \in [Ioc -> 0 .. MaxNumber]
      /\ times \in [CommandName -> 0 .. 2] /\ heard \in Int \X Int \X Int
    BY CommandFacts DEF Init, StartServer
<1>4. lastCommand \in Command \cup {None} /\ pending \in [Ioc -> Command \cup {None}]
    BY DEF Init, StartServer
<1>5. idx \in 0 .. Len(match)
    BY MatchFacts DEF Init, StartServer
<1>6. rebooting \in BOOLEAN /\ failed \in BOOLEAN /\ boots \in Nat
    BY DEF Init, StartServer
<1>7. hw \in Hardware /\ shown \in [HardwarePoints -> Int]
    BY StartIsHardware DEF Init, StartServer
<1>8. TypeOK
    BY <1>2, <1>3, <1>4, <1>5, <1>6, <1>7, CommandFacts DEF TypeOK
<1> QED BY <1>1, <1>8 DEF TypesInv

\* Writing to the reset point keeps its types.
LEMMA FpgaResetTypes ==
  ASSUME TypeOK, NEW c \in Command, FpgaReset(c)
  PROVE  idx' \in 0 .. 3 /\ rebooting' \in BOOLEAN /\ heard' \in Int \X Int \X Int
<1>1. idx \in 0 .. 3 /\ heard \in Int \X Int \X Int /\ rebooting \in BOOLEAN
    BY MatchFacts DEF TypeOK
<1>2. CASE IsResetWrite(c)
  <2>1. idx' \in ResetIndex(c.value)
      BY <1>2 DEF FpgaReset
  <2>2. idx' \in 0 .. 3
      BY <1>1, <2>1, MatchFacts DEF ResetIndex
  <2>3. rebooting' \in BOOLEAN
      BY <1>2 DEF FpgaReset
  <2>4. c.value \in Int /\ heard[2] \in Int /\ heard[3] \in Int
      BY <1>1, CommandFields
  <2>5. heard' = heard \/ heard' = <<heard[2], heard[3], c.value>>
      BY <1>2 DEF FpgaReset
  <2>6. heard' \in Int \X Int \X Int
      BY <1>1, <2>4, <2>5
  <2> QED BY <2>2, <2>3, <2>6
<1>3. CASE ~IsResetWrite(c)
    BY <1>1, <1>3 DEF FpgaReset
<1> QED BY <1>2, <1>3

\* What a number of a command that is delivered does to the newest delivered.
LEMMA LatestType ==
  ASSUME TypesInv, NEW m \in net, Delivered(m)
  PROVE  latest' \in [Ioc -> 0 .. MaxNumber]
<1>1. m.cmd \in Command /\ m.cmd.ioc = m.ioc
    BY DeliveredIsSent DEF TypesInv
<1>2. m.ioc \in Ioc /\ m.cmd.number \in 0 .. MaxNumber
    BY <1>1, CommandFields
<1> QED BY <1>2 DEF Delivered, TypesInv, TypeOK

\* What the network brings besides commands does not name any.
LEMMA NamesStay ==
  ASSUME NumbersNameCommands, number' = number,
         NEW r, r.type # "Command", net' = net \/ net' = net \cup {r}
  PROVE  NumbersNameCommands'
<1>1. CASE net' = net
    BY <1>1, SameCommands DEF CommandSent
<1>2. CASE net' = net \cup {r}
    BY <1>2, OneMore, SameCommands
<1> QED BY <1>1, <1>2

\* Carrying out a command keeps the types.
LEMMA CarryOutTypes ==
  ASSUME TypesInv, NEW m \in net, CarryOut(m)
  PROVE  TypesInv'
<1> DEFINE c == m.cmd
           x == <<c.ioc, c.number>>
<1>1. c \in Command
    BY DeliveredIsSent DEF CarryOut, TypesInv
<1>2. c.number \in 0 .. MaxNumber /\ x \in CommandName
    BY <1>1, CommandFields
<1>3. lastCommand' = c /\ setting' = Settled(c) /\ FpgaReset(c)
      /\ reply' = [number |-> c.number, value |-> Answer(c, hw')]
      /\ times' = [times EXCEPT ![x] = IF @ < 2 THEN @ + 1 ELSE @]
      /\ UNCHANGED <<failed, pending, number, accepted, boots>>
    BY DEF CarryOut, client
<1>4. /\ setting' \in [Settings -> Int]
      /\ setting'["acqCount"] \in 1 .. Capacity
      /\ setting'["chanGain"] \in 0 .. FullScale
    BY <1>1, <1>3, SettledIsWithin DEF TypesInv
<1>5. idx' \in 0 .. Len(match) /\ rebooting' \in BOOLEAN /\ heard' \in Int \X Int \X Int
    BY <1>1, <1>3, FpgaResetTypes, MatchFacts DEF TypesInv
<1>6. hw' \in Hardware
  <2>1. hw' \in Handled(c)
      BY DEF CarryOut
  <2> QED BY <1>1, <2>1, HandledTells DEF TypesInv, TypeOK
<1>7. \A p : Readout(p, hw') \in Int
    BY <1>6, ReadoutType
<1>8. shown' \in [HardwarePoints -> Int]
  <2>1. shown' = IF c.point \in HardwarePoints
                 THEN [shown EXCEPT ![c.point] = Readout(c.point, hw')] ELSE shown
      BY DEF CarryOut
  <2>2. Readout(c.point, hw') \in Int /\ shown \in [HardwarePoints -> Int]
      BY <1>7 DEF TypesInv, TypeOK
  <2> QED BY <2>1, <2>2
<1>9. Answer(c, hw') \in Int
  <2>1. CASE c.point \in Settings
    <3>1. Settled(c)[c.point] \in Int
        BY <1>3, <1>4, <2>1
    <3>2. c.point \notin HardwarePoints \cup ZeroPoints
        BY <2>1, PointsApart
    <3> QED BY <2>1, <3>1, <3>2, ReportedType DEF Answer
  <2>2. CASE c.point \in HardwarePoints
    <3>1. c.point \notin Settings \cup ZeroPoints
        BY <2>2, PointsApart
    <3> QED BY <1>7, <2>2, <3>1 DEF Answer
  <2>3. CASE c.point \notin Settings \cup HardwarePoints
      BY <2>3 DEF Answer, TypesInv, TypeOK
  <2> QED BY <2>1, <2>2, <2>3
<1>10. reply' \in [number : 0 .. MaxNumber, value : Int]
    BY <1>2, <1>3, <1>9
<1>11. times' \in [CommandName -> 0 .. 2]
  <2>1. times[x] \in 0 .. 2
      BY <1>2 DEF TypesInv, TypeOK
  <2>2. (IF times[x] < 2 THEN times[x] + 1 ELSE times[x]) \in 0 .. 2
      BY <2>1
  <2> HIDE DEF x
  <2> QED BY <1>2, <1>3, <2>2 DEF TypesInv, TypeOK
<1>12. latest' \in [Ioc -> 0 .. MaxNumber]
    BY LatestType DEF CarryOut
<1>13. TypeOK'
    BY <1>1, <1>3, <1>4, <1>5, <1>10, <1>11, <1>12, <1>6, <1>8 DEF TypesInv, TypeOK
<1>14. NumbersNameCommands'
  <2> DEFINE r == Reply(m, reply', setting', shown')
  <2>1. r.type # "Command"
      BY DEF Reply
  <2>2. net' = net \/ net' = net \cup {r}
      BY DEF CarryOut
  <2> HIDE DEF r
  <2> QED BY <1>3, <2>1, <2>2, NamesStay DEF TypesInv
<1> QED BY <1>13, <1>14 DEF TypesInv

\* Answering a duplicate keeps the types.
LEMMA AnswerAgainTypes ==
  ASSUME TypesInv, NEW m \in net, AnswerAgain(m)
  PROVE  TypesInv'
<1>1. UNCHANGED <<setting, hw, shown, lastCommand, reply, idx, rebooting, times, heard, failed,
                  pending, number, accepted, boots>>
    BY DEF AnswerAgain, server, client
<1>2. latest' \in [Ioc -> 0 .. MaxNumber]
    BY LatestType DEF AnswerAgain
<1>3. TypeOK'
    BY <1>1, <1>2 DEF TypesInv, TypeOK
<1>4. NumbersNameCommands'
  <2> DEFINE r == Reply(m, reply, setting, shown)
  <2>1. r.type # "Command"
      BY DEF Reply
  <2>2. net' = net \cup {r}
      BY DEF AnswerAgain
  <2> HIDE DEF r
  <2> QED BY <1>1, <2>1, <2>2, NamesStay DEF TypesInv
<1> QED BY <1>3, <1>4 DEF TypesInv

\* A reset that fails keeps the types.
LEMMA RebootFailsTypes == ASSUME TypesInv, RebootFails PROVE TypesInv'
<1>1. TypeOK'
    BY DEF RebootFails, client, TypesInv, TypeOK
<1>2. NumbersNameCommands'
  <2> DEFINE r == Reply([ioc |-> lastCommand.ioc, cmd |-> lastCommand], reply, setting, shown)
  <2>1. r.type # "Command"
      BY DEF Reply
  <2>2. net' = net \cup {r} /\ number' = number
      BY DEF RebootFails, client
  <2> HIDE DEF r
  <2> QED BY <2>1, <2>2, NamesStay DEF TypesInv
<1> QED BY <1>1, <1>2 DEF TypesInv

\* A restart begins with values of the types.
LEMMA RestartTypes == ASSUME TypesInv, Restart PROVE TypesInv'
<1>1. UNCHANGED <<pending, number, accepted, net, latest>> /\ boots' = boots + 1
    BY DEF Restart, client
<1>2. setting' \in [Settings -> Int] /\ setting'["acqCount"] = 1 /\ setting'["chanGain"] = 0
  <2>1. setting' = [p \in Settings |-> Default(p)]
      BY DEF Restart, StartServer
  <2>2. Default("acqCount") = 1 /\ Default("chanGain") = 0
      BY DEF Default
  <2>3. "acqCount" \in Settings /\ "chanGain" \in Settings
      BY DEF Settings
  <2> QED BY <2>1, <2>2, <2>3, DefaultType
<1>3. /\ reply' \in [number : 0 .. MaxNumber, value : Int]
      /\ times' \in [CommandName -> 0 .. 2] /\ heard' \in Int \X Int \X Int
    BY CommandFacts DEF Restart, StartServer
<1>4. lastCommand' \in Command \cup {None}
    BY DEF Restart, StartServer
<1>5. idx' \in 0 .. Len(match)
    BY MatchFacts DEF Restart, StartServer
<1>6. rebooting' \in BOOLEAN /\ failed' \in BOOLEAN
    BY DEF Restart, StartServer
<1>7. setting'["acqCount"] \in 1 .. Capacity /\ setting'["chanGain"] \in 0 .. FullScale
    BY <1>2, CommandFacts
<1>8. boots' \in Nat
    BY <1>1 DEF TypesInv, TypeOK
<1>9. hw' \in Hardware /\ shown' \in [HardwarePoints -> Int]
    BY StartIsHardware DEF Restart, StartServer
<1>10. TypeOK'
    BY <1>1, <1>2, <1>3, <1>4, <1>5, <1>6, <1>7, <1>8, <1>9 DEF TypesInv, TypeOK
<1>11. NumbersNameCommands'
    BY <1>1, SameCommands DEF TypesInv, CommandSent
<1> QED BY <1>10, <1>11 DEF TypesInv

\* The types and the numbers do not depend on how often commands are carried out.
LEMMA IssueTypes ==
  ASSUME TypesInv,
         NEW i \in Ioc, NEW p \in Point, NEW w \in BOOLEAN, NEW v \in Value,
         Issue(i, p, w, v)
  PROVE  TypesInv'
<1> DEFINE c == [ioc |-> i, number |-> number[i] + 1, point |-> p, write |-> w,
                 value |-> IF w THEN v ELSE 0]
           m == [type |-> "Command", ioc |-> i, cmd |-> c]
<1>1. /\ number' = [number EXCEPT ![i] = @ + 1]
      /\ number[i] < MaxNumber
      /\ pending' = [pending EXCEPT ![i] = c]
      /\ net' = net \cup {m}
      /\ UNCHANGED <<setting, hw, shown, lastCommand, reply, idx, rebooting, times, heard, failed,
                     latest, boots>>
    BY DEF Issue, server
<1>2. number \in [Ioc -> 0 .. MaxNumber]
    BY DEF TypesInv, TypeOK
<1>3. number[i] + 1 \in 1 .. MaxNumber /\ number[i] + 1 \in 0 .. MaxNumber
    BY <1>1, <1>2, CommandFacts
<1>4. c \in Command
    BY <1>3 DEF Command
<1>5. number' \in [Ioc -> 0 .. MaxNumber]
    BY <1>1, <1>2, <1>3
<1>6. pending' \in [Ioc -> Command \cup {None}]
  <2> HIDE DEF c
  <2> QED BY <1>1, <1>4 DEF TypesInv, TypeOK
<1>7. TypeOK'
    BY <1>1, <1>5, <1>6 DEF TypesInv, TypeOK
<1>8. NumbersNameCommands'
    BY <1>2, IssueNames DEF TypesInv
<1> QED BY <1>7, <1>8 DEF TypesInv

\* Every step keeps the types.
LEMMA TypesStep == ASSUME TypesInv, [Next]_vars PROVE TypesInv'
<1>1. CASE \E m \in net : AnswerAgain(m) \/ CarryOut(m)
    BY <1>1, AnswerAgainTypes, CarryOutTypes
<1>2. CASE RebootFails \/ Restart
    BY <1>2, RebootFailsTypes, RestartTypes
<1>3. CASE ConsoleDebug
  <2>1. PICK v \in Value : setting' = [setting EXCEPT !["debug"] = v]
      BY <1>3 DEF ConsoleDebug
  <2>2. v \in Int
      BY CommandFacts
  <2>3. "debug" \in Settings
      BY DEF Settings
  <2>4. /\ setting' \in [Settings -> Int]
        /\ setting'["acqCount"] = setting["acqCount"] /\ setting'["chanGain"] = setting["chanGain"]
      BY <2>1, <2>2, <2>3 DEF TypesInv, TypeOK, Settings
  <2> QED BY <1>3, <2>4, SameCommands
          DEF ConsoleDebug, client, CommandSent, TypesInv, TypeOK
<1>4. CASE Network
  <2>1. PICK m \in net : Accept(m)
      BY <1>4 DEF Network
  <2>2. pending' \in [Ioc -> Command \cup {None}]
      BY <2>1 DEF Accept, TypesInv, TypeOK
  <2> QED BY <2>1, <2>2, SameCommands DEF Accept, server, CommandSent, TypesInv, TypeOK
<1>5. CASE \E i \in Ioc, p \in Point, w \in BOOLEAN, v \in Value : Issue(i, p, w, v)
    BY <1>5, IssueTypes
<1>6. CASE \E i \in Ioc : Abandon(i)
  <2>1. pending' \in [Ioc -> Command \cup {None}]
      BY <1>6 DEF Abandon, TypesInv, TypeOK
  <2> QED BY <1>6, <2>1, SameCommands DEF Abandon, server, CommandSent, TypesInv, TypeOK
<1>7. CASE UNCHANGED vars
    BY <1>7, SameCommands DEF vars, server, client, CommandSent, TypesInv, TypeOK
<1>8. CASE HardwareMoves
  <2>1. hw' \in Hardware
      BY <1>8, HardwareMovesKeeps DEF TypesInv, TypeOK
  <2> QED BY <1>8, <2>1, SameCommands
          DEF HardwareMoves, client, CommandSent, TypesInv, TypeOK
<1> QED BY <1>1, <1>2, <1>3, <1>4, <1>5, <1>6, <1>7, <1>8 DEF Next, Bpm, Client

\* The settings, and all else the server keeps, stay within their limits: for any
\* number of IOCs, any commands and any network.
THEOREM ServerTypesHold == Spec => []TypeOK
<1>1. TypesInv => TypeOK
    BY DEF TypesInv
<1> QED BY <1>1, TypesInit, TypesStep, PTL DEF Spec
(***************************************************************************)
(* The reset sequence                                                      *)
(***************************************************************************)

\* What idx says of the values heard, as long as no reset has failed.
SequenceSeen ==
  ~failed =>
    /\ rebooting <=> idx = 3
    /\ idx = 1 <=> heard[3] = 0
    /\ idx = 2 <=> heard[2] = 0 /\ heard[3] = 100
    /\ idx = 3 <=> heard[1] = 0 /\ heard[2] = 100 /\ heard[3] = 10000

ResetInv == TypesInv /\ SequenceSeen

\* Three values are the sequence if each is.
LEMMA TripleIsMatch ==
  ASSUME NEW h \in Int \X Int \X Int
  PROVE  h = match <=> h[1] = 0 /\ h[2] = 100 /\ h[3] = 10000
<1>1. h = <<h[1], h[2], h[3]>>
    OBVIOUS
<1> QED BY <1>1 DEF match

\* A start has seen nothing.
LEMMA StartSawNothing ==
  ASSUME idx = 0, rebooting = FALSE, heard = <<1, 1, 1>>
  PROVE  SequenceSeen
<1>1. heard[1] = 1 /\ heard[2] = 1 /\ heard[3] = 1
    OBVIOUS
<1> QED BY <1>1 DEF SequenceSeen

\* A write to the reset point keeps what idx says.
LEMMA FpgaResetSeen ==
  ASSUME TypeOK, SequenceSeen, ~rebooting, NEW c \in Command, FpgaReset(c), failed' = failed
  PROVE  SequenceSeen'
<1> SUFFICES ASSUME ~failed PROVE SequenceSeen'
    BY DEF SequenceSeen
<1>1. idx \in 0 .. 2 /\ heard \in Int \X Int \X Int /\ c.value \in Int
  <2>1. idx \in 0 .. 3 /\ heard \in Int \X Int \X Int
      BY MatchFacts DEF TypeOK
  <2>2. idx # 3
      BY DEF SequenceSeen
  <2>3. c.value \in Int
      BY CommandFields
  <2> QED BY <2>1, <2>2, <2>3
<1> DEFINE v == c.value
<1>2. CASE ~IsResetWrite(c)
  <2>1. UNCHANGED <<idx, rebooting, heard>>
      BY <1>2 DEF FpgaReset
  <2> QED BY <2>1 DEF SequenceSeen
<1>3. CASE IsResetWrite(c) /\ v = 1
  <2>1. idx' = idx /\ heard' = heard
      BY <1>3 DEF FpgaReset, ResetIndex
  <2>2. rebooting' = FALSE
      BY <1>3 DEF FpgaReset
  <2> QED BY <1>1, <2>1, <2>2 DEF SequenceSeen
<1>4. CASE IsResetWrite(c) /\ v # 1
  <2>1. heard' = <<heard[2], heard[3], v>>
      BY <1>4 DEF FpgaReset
  <2>2. heard'[1] = heard[2] /\ heard'[2] = heard[3] /\ heard'[3] = v
      BY <2>1
  <2>3. idx' = IF v = 0 THEN 1
               ELSE IF v = 100 /\ idx = 1 THEN 2
               ELSE IF v = 10000 /\ idx = 2 THEN 3 ELSE 0
    <3>1. idx' \in ResetIndex(v)
        BY <1>4 DEF FpgaReset
    <3>2. CASE idx = 0
        BY <1>4, <3>1, <3>2, MatchFacts DEF ResetIndex
    <3>3. CASE idx = 1
        BY <1>4, <3>1, <3>3, MatchFacts DEF ResetIndex
    <3>4. CASE idx = 2
        BY <1>4, <3>1, <3>4, MatchFacts DEF ResetIndex
    <3> QED BY <1>1, <3>2, <3>3, <3>4
  <2>4. rebooting' <=> idx' = 3
    <3>1. rebooting' = (v \notin {0, 1} /\ idx' = Len(match))
        BY <1>4 DEF FpgaReset
    <3>2. idx' = 3 => v \notin {0, 1}
        BY <2>3
    <3>3. Len(match) = 3
        BY MatchFacts
    <3>4. CASE idx' = 3
        BY <3>1, <3>2, <3>3, <3>4
    <3>5. CASE idx' # 3
        BY <3>1, <3>3, <3>5
    <3> QED BY <3>4, <3>5
  <2>5. /\ idx = 1 <=> heard[3] = 0
        /\ idx = 2 <=> heard[2] = 0 /\ heard[3] = 100
      BY DEF SequenceSeen
  <2>6. v \in Int
      BY <1>1
  <2> HIDE DEF v
  <2>7. /\ idx' = 1 <=> heard'[3] = 0
        /\ idx' = 2 <=> heard'[2] = 0 /\ heard'[3] = 100
        /\ idx' = 3 <=> heard'[1] = 0 /\ heard'[2] = 100 /\ heard'[3] = 10000
      BY <2>2, <2>3, <2>5, <2>6
  <2> QED BY <2>4, <2>7 DEF SequenceSeen
<1> QED BY <1>2, <1>3, <1>4

\* Every step keeps what idx says.
LEMMA SequenceStep == ASSUME ResetInv, [Next]_vars PROVE SequenceSeen'
<1>1. ASSUME UNCHANGED <<idx, rebooting, heard, failed>> PROVE SequenceSeen'
    BY <1>1 DEF ResetInv, SequenceSeen
<1>2. CASE \E m \in net : AnswerAgain(m)
    BY <1>1, <1>2 DEF AnswerAgain, server
<1>3. CASE \E m \in net : CarryOut(m)
  <2>1. PICK m \in net : CarryOut(m)
      BY <1>3
  <2>2. m.cmd \in Command
      BY <2>1, DeliveredIsSent DEF CarryOut, ResetInv, TypesInv
  <2>3. FpgaReset(m.cmd) /\ ~rebooting /\ failed' = failed
      BY <2>1 DEF CarryOut
  <2> QED BY <2>2, <2>3, FpgaResetSeen DEF ResetInv, TypesInv
<1>4. CASE RebootFails
    BY <1>4 DEF RebootFails, SequenceSeen
<1>5. CASE Restart
  <2>1. idx' = 0 /\ rebooting' = FALSE /\ heard' = <<1, 1, 1>>
      BY <1>5 DEF Restart, StartServer
  <2>2. heard'[1] = 1 /\ heard'[2] = 1 /\ heard'[3] = 1
      BY <2>1
  <2> QED BY <2>1, <2>2 DEF SequenceSeen
<1>6. CASE ConsoleDebug
    BY <1>1, <1>6 DEF ConsoleDebug
<1>7. CASE Network
    BY <1>1, <1>7 DEF Network, Accept, server
<1>8. CASE Client
    BY <1>1, <1>8 DEF Client, Issue, Abandon, server
<1>9. CASE UNCHANGED vars
    BY <1>1, <1>9 DEF vars, server
<1>10. CASE HardwareMoves
    BY <1>1, <1>10 DEF HardwareMoves
<1> QED BY <1>2, <1>3, <1>4, <1>5, <1>6, <1>7, <1>8, <1>9, <1>10 DEF Next, Bpm

\* As long as no reset has failed, the FPGA is reset exactly when the last three
\* values carried out since the start are the sequence (io_fpgaReset), whoever
\* wrote them and whatever came in between.
THEOREM ResetsBySequence == Spec => []ResetBySequence
<1>1. Init => ResetInv
    BY TypesInit, StartSawNothing DEF Init, StartServer, ResetInv
<1>2. ResetInv /\ [Next]_vars => ResetInv'
    BY TypesStep, SequenceStep DEF ResetInv
<1>3. ResetInv => ResetBySequence
  <2> SUFFICES ASSUME ResetInv PROVE ResetBySequence
      OBVIOUS
  <2>1. heard \in Int \X Int \X Int
      BY DEF ResetInv, TypesInv, TypeOK
  <2> QED BY <2>1, TripleIsMatch DEF ResetInv, SequenceSeen, ResetBySequence
<1> QED BY <1>1, <1>2, <1>3, PTL DEF Spec
(***************************************************************************)
(* Replies                                                                 *)
(***************************************************************************)

\* The kept answer is what the point of the last command reads, or read then if
\* it is the hardware's.
AnswerKept ==
  lastCommand # None =>
    /\ lastCommand.point \in Settings \ {"debug"} =>
         reply.value = Reported(lastCommand.point, setting[lastCommand.point])
    /\ lastCommand.point \in HardwarePoints => reply.value = shown[lastCommand.point]

\* What the last command wrote to the hardware is in its register.
WriteKept ==
  lastCommand # None /\ lastCommand.write
  /\ KeepsWrite(lastCommand.point, lastCommand.value) =>
    Told(lastCommand.point, hw) = Asked(lastCommand.point, lastCommand.value)

\* A reset that may return has a command to answer.
ResetRemembered == rebooting => lastCommand # None

RepliesInv ==
  TypesInv /\ AnswerKept /\ WriteKept /\ ResetRemembered /\ ReplyTellsSetting

\* A reply tells what its point reads if the answer does.
LEMMA ReplyTells ==
  ASSUME NEW m, NEW r, NEW s, NEW o,
         m.cmd.point \in Settings \ {"debug"} => r.value = Reported(m.cmd.point, s[m.cmd.point]),
         m.cmd.point \in HardwarePoints => r.value = o[m.cmd.point]
  PROVE  Reply(m, r, s, o).value = Reply(m, r, s, o).truth
<1>1. Reply(m, r, s, o).value = r.value
    BY DEF Reply
<1>2. Reply(m, r, s, o).truth = Truth(m.cmd.point, r, s, o)
    BY DEF Reply
<1>3. Truth(m.cmd.point, r, s, o) = r.value
    BY PointsApart DEF Truth
<1> QED BY <1>1, <1>2, <1>3

\* Nothing sent but a reply that tells what its point reads.
LEMMA OneMoreReply ==
  ASSUME ReplyTellsSetting, NEW r, r.value = r.truth, net' = net \/ net' = net \cup {r}
  PROVE  ReplyTellsSetting'
BY DEF ReplyTellsSetting

\* What a command is answered with is what its point reads from then on.
LEMMA AnswerReads ==
  ASSUME NEW c, NEW h
  PROVE  /\ c.point \in Settings => Answer(c, h) = Reported(c.point, Settled(c)[c.point])
         /\ c.point \in HardwarePoints => Answer(c, h) = Readout(c.point, h)
BY PointsApart DEF Answer

\* Every step keeps the replies true.
LEMMA RepliesStep == ASSUME RepliesInv, [Next]_vars PROVE RepliesInv'
<1>1. TypesInv'
    BY TypesStep DEF RepliesInv
<1>2. ASSUME UNCHANGED <<setting, hw, shown, lastCommand, reply, rebooting>>
      PROVE  AnswerKept' /\ WriteKept' /\ ResetRemembered'
    BY <1>2 DEF RepliesInv, AnswerKept, WriteKept, ResetRemembered
<1>3. CASE \E m \in net : AnswerAgain(m)
  <2>1. PICK m \in net : AnswerAgain(m)
      BY <1>3
  <2> DEFINE r == Reply(m, reply, setting, shown)
  <2>2. lastCommand # None /\ m.cmd.point = lastCommand.point
      BY <2>1 DEF AnswerAgain, IsDuplicate
  <2>3. r.value = r.truth
      BY <2>2, ReplyTells DEF RepliesInv, AnswerKept
  <2>4. net' = net \cup {r}
      BY <2>1 DEF AnswerAgain
  <2>5. UNCHANGED <<setting, hw, shown, lastCommand, reply, rebooting>>
      BY <2>1 DEF AnswerAgain, server
  <2> HIDE DEF r
  <2>6. ReplyTellsSetting'
      BY <2>3, <2>4, OneMoreReply DEF RepliesInv
  <2> QED BY <1>1, <1>2, <2>5, <2>6 DEF RepliesInv
<1>4. CASE \E m \in net : CarryOut(m)
  <2>1. PICK m \in net : CarryOut(m)
      BY <1>4
  <2> DEFINE c == m.cmd
             r == Reply(m, reply', setting', shown')
  <2>2. c # None
      BY <2>1, DeliveredIsSent, CommandFields DEF CarryOut, RepliesInv, TypesInv
  <2>3. lastCommand' = c /\ setting' = Settled(c)
        /\ reply' = [number |-> c.number, value |-> Answer(c, hw')]
      BY <2>1 DEF CarryOut
  <2>4. reply'.value = Answer(c, hw')
      BY <2>3
  <2>5. c.point \in Settings \ {"debug"} => reply'.value = Reported(c.point, setting'[c.point])
      BY <2>3, <2>4, AnswerReads
  <2>6. c.point \in HardwarePoints => reply'.value = shown'[c.point]
    <3>1. shown \in [HardwarePoints -> Int]
        BY DEF RepliesInv, TypesInv, TypeOK
    <3>2. c.point \in HardwarePoints =>
            shown' = [shown EXCEPT ![c.point] = Readout(c.point, hw')]
        BY <2>1 DEF CarryOut
    <3>3. c.point \in HardwarePoints => Answer(c, hw') = Readout(c.point, hw')
        BY AnswerReads
    <3> HIDE DEF c
    <3> QED BY <2>4, <3>1, <3>2, <3>3
  <2>7. c.write /\ KeepsWrite(c.point, c.value) => Told(c.point, hw') = Asked(c.point, c.value)
    <3>1. c \in Command /\ hw \in Hardware
        BY <2>1, DeliveredIsSent DEF CarryOut, RepliesInv, TypesInv, TypeOK
    <3>2. hw' \in Handled(c)
        BY <2>1 DEF CarryOut
    <3> HIDE DEF c
    <3> QED BY <3>1, <3>2, HandledTells
  <2>8. AnswerKept' /\ WriteKept' /\ ResetRemembered'
    <3> HIDE DEF c
    <3> QED BY <2>2, <2>3, <2>5, <2>6, <2>7 DEF AnswerKept, WriteKept, ResetRemembered
  <2>9. r.value = r.truth
      BY <2>5, <2>6, ReplyTells
  <2>10. net' = net \/ net' = net \cup {r}
      BY <2>1 DEF CarryOut
  <2> HIDE DEF r
  <2>11. ReplyTellsSetting'
      BY <2>9, <2>10, OneMoreReply DEF RepliesInv
  <2> QED BY <1>1, <2>8, <2>11 DEF RepliesInv
<1>5. CASE RebootFails
  <2> DEFINE m == [ioc |-> lastCommand.ioc, cmd |-> lastCommand]
             r == Reply(m, reply, setting, shown)
  <2>1. UNCHANGED <<setting, hw, shown, lastCommand, reply>> /\ ~rebooting' /\ rebooting
        /\ net' = net \cup {r}
      BY <1>5 DEF RebootFails
  <2>2. m.cmd = lastCommand
      OBVIOUS
  <2>3. lastCommand # None
      BY <2>1 DEF RepliesInv, ResetRemembered
  <2> HIDE DEF m
  <2>4. r.value = r.truth
      BY <2>2, <2>3, ReplyTells DEF RepliesInv, AnswerKept
  <2> HIDE DEF r
  <2>5. ReplyTellsSetting'
      BY <2>1, <2>4, OneMoreReply DEF RepliesInv
  <2>6. AnswerKept' /\ WriteKept' /\ ResetRemembered'
      BY <2>1 DEF RepliesInv, AnswerKept, WriteKept, ResetRemembered
  <2> QED BY <1>1, <2>5, <2>6 DEF RepliesInv
<1>6. CASE Restart
  <2>1. lastCommand' = None /\ rebooting' = FALSE /\ net' = net
      BY <1>6 DEF Restart, StartServer
  <2> QED BY <1>1, <2>1
          DEF RepliesInv, AnswerKept, WriteKept, ResetRemembered, ReplyTellsSetting
<1>7. CASE ConsoleDebug
  <2>1. PICK v \in Value : setting' = [setting EXCEPT !["debug"] = v]
      BY <1>7 DEF ConsoleDebug
  <2>2. \A p \in Settings \ {"debug"} : setting'[p] = setting[p]
      BY <2>1 DEF RepliesInv, TypesInv, TypeOK
  <2>3. UNCHANGED <<hw, shown, lastCommand, reply, rebooting, net>>
      BY <1>7 DEF ConsoleDebug
  <2> QED BY <1>1, <2>2, <2>3
          DEF RepliesInv, AnswerKept, WriteKept, ResetRemembered, ReplyTellsSetting
<1>8. CASE Network
  <2>1. UNCHANGED <<setting, hw, shown, lastCommand, reply, rebooting, net>>
      BY <1>8 DEF Network, Accept, server
  <2> QED BY <1>1, <1>2, <2>1 DEF RepliesInv, ReplyTellsSetting
<1>9. CASE \E i \in Ioc, p \in Point, w \in BOOLEAN, v \in Value : Issue(i, p, w, v)
  <2>1. PICK i \in Ioc, p \in Point, w \in BOOLEAN, v \in Value : Issue(i, p, w, v)
      BY <1>9
  <2>2. UNCHANGED <<setting, hw, shown, lastCommand, reply, rebooting>>
      BY <2>1 DEF Issue, server
  <2>3. ReplyTellsSetting'
    <3> DEFINE k == [type |-> "Command", ioc |-> i,
                     cmd |-> [ioc |-> i, number |-> number[i] + 1, point |-> p, write |-> w,
                              value |-> IF w THEN v ELSE 0]]
    <3>1. k.type # "Reply"
        OBVIOUS
    <3>2. net' = net \cup {k}
        BY <2>1 DEF Issue
    <3> HIDE DEF k
    <3> QED BY <3>1, <3>2 DEF RepliesInv, ReplyTellsSetting
  <2> QED BY <1>1, <1>2, <2>2, <2>3 DEF RepliesInv
<1>10. CASE \E i \in Ioc : Abandon(i)
  <2>1. UNCHANGED <<setting, hw, shown, lastCommand, reply, rebooting, net>>
      BY <1>10 DEF Abandon, server
  <2> QED BY <1>1, <1>2, <2>1 DEF RepliesInv, ReplyTellsSetting
<1>11. CASE UNCHANGED vars
  <2>1. UNCHANGED <<setting, hw, shown, lastCommand, reply, rebooting, net>>
      BY <1>11 DEF vars, server
  <2> QED BY <1>1, <1>2, <2>1 DEF RepliesInv, ReplyTellsSetting
<1>12. CASE HardwareMoves
  <2>1. UNCHANGED <<setting, shown, lastCommand, reply, rebooting, net>>
      BY <1>12 DEF HardwareMoves
  <2>2. \A p : Told(p, hw') = Told(p, hw)
      BY <1>12, HardwareMovesKeeps DEF RepliesInv, TypesInv, TypeOK
  <2>3. WriteKept'
      BY <2>1, <2>2 DEF RepliesInv, WriteKept
  <2> QED BY <1>1, <2>1, <2>3 DEF RepliesInv, AnswerKept, ResetRemembered, ReplyTellsSetting
<1> QED BY <1>3, <1>4, <1>5, <1>6, <1>7, <1>8, <1>9, <1>10, <1>11, <1>12 DEF Next, Bpm, Client

\* A reply tells what its point reads at the moment it is sent, also the kept
\* answer that server_callback sends again, if nobody but the commands changes the
\* point; if the hardware does (autotrim, the overload bits, the end of an
\* acquisition) it tells what the point read when its last command was carried out.
\* For any number of IOCs and any network.
THEOREM RepliesTellSettings == Spec => []ReplyTellsSetting
<1>1. Init => RepliesInv
    BY TypesInit
    DEF Init, StartServer, RepliesInv, AnswerKept, WriteKept, ResetRemembered, ReplyTellsSetting
<1>2. RepliesInv /\ [Next]_vars => RepliesInv'
    BY RepliesStep
<1>3. RepliesInv => ReplyTellsSetting
    BY DEF RepliesInv
<1> QED BY <1>1, <1>2, <1>3, PTL DEF Spec
(***************************************************************************)
(* What has been answered, for one IOC and datagrams in order              *)
(***************************************************************************)

\* A command that has been sent.
Sent(c) == \E m \in CommandSent : m.cmd = c

\* The command remembered is the newest delivered, and the kept answer is its.
LastIsNewest ==
  lastCommand # None =>
    /\ Sent(lastCommand)
    /\ lastCommand.number = latest[lastCommand.ioc]
    /\ reply.number = lastCommand.number

\* Nothing is delivered that has not been issued.
DeliveredIsIssued == \A i \in Ioc : latest[i] <= number[i]

\* A reply sent since the start answers a command that has been delivered, and
\* the newest of them is answered with the kept answer.
RepliesAnswer ==
  \A m \in net :
    m.type = "Reply" =>
      /\ m.ioc \in Ioc /\ m.number \in Int /\ m.boots \in Nat /\ m.boots <= boots
      /\ m.boots = boots =>
           /\ m.number <= latest[m.ioc]
           /\ m.number = latest[m.ioc] => lastCommand # None /\ m.value = reply.value

\* The command an IOC waits for is the last that it has sent.
PendingIsSent ==
  \A i \in Ioc : pending[i] # None => Sent(pending[i]) /\ pending[i].number = number[i]

\* If an IOC has been answered since the start and has sent nothing since, the
\* server remembers the command and its answer, and there is nothing newer.
AcceptedIsKept ==
  /\ accepted = [i \in Ioc |-> accepted[i]]
  /\ \A i \in Ioc :
       accepted[i] # None =>
         /\ accepted[i].boots \in Nat /\ accepted[i].boots <= boots
         /\ accepted[i].boots = boots /\ pending[i] = None =>
              /\ lastCommand # None /\ lastCommand = accepted[i].cmd
              /\ accepted[i].value = reply.value
              /\ latest[i] = number[i]

AcceptedInv ==
  /\ TypesInv /\ AnswerKept /\ LastIsNewest /\ DeliveredIsIssued
  /\ RepliesAnswer /\ PendingIsSent /\ AcceptedIsKept

\* Two commands that have been sent with one number by one IOC are one.
LEMMA SentOnce ==
  ASSUME NumbersNameCommands, NEW c, NEW d, Sent(c), Sent(d),
         c.ioc = d.ioc, c.number = d.number
  PROVE  c = d
<1>1. PICK m \in CommandSent : m.cmd = c
    BY DEF Sent
<1>2. PICK k \in CommandSent : k.cmd = d
    BY DEF Sent
<1>3. m.ioc = c.ioc /\ k.ioc = d.ioc
    BY <1>1, <1>2 DEF NumbersNameCommands
<1>4. k = m
    BY <1>1, <1>2, <1>3 DEF NumbersNameCommands
<1> QED BY <1>1, <1>2, <1>4

\* What is sent has been issued with the fields of a command.
LEMMA SentIsCommand ==
  ASSUME NumbersNameCommands, NEW c, Sent(c) PROVE c \in Command
BY DEF NumbersNameCommands, Sent

\* What has been sent stays sent.
LEMMA SentStays ==
  ASSUME CommandSent \subseteq CommandSent', NEW c, Sent(c) PROVE Sent(c)'
BY DEF Sent

\* With one IOC, every command is its.
LEMMA CommandOfIoc ==
  ASSUME NEW a, Ioc = {a}, NEW c \in Command PROVE c.ioc = a /\ c.number \in Int
<1>1. c.ioc \in Ioc /\ c.number \in 1 .. MaxNumber
    BY CommandFields
<1>2. MaxNumber \in Nat
    BY CommandFacts
<1> QED BY <1>1, <1>2

\* With one IOC, a command that is carried out is newer than the last.
LEMMA CarriedOutIsNewer ==
  ASSUME TypesInv, LastIsNewest, NEW a, Ioc = {a}, NEW m \in net, CarryOut(m)
  PROVE  /\ m.cmd \in Command /\ Sent(m.cmd) /\ m.ioc = a /\ m.cmd.ioc = a
         /\ m.cmd.number \in Int /\ latest[a] \in Int /\ m.cmd.number >= latest[a]
         /\ m.cmd.number <= number[a]
         /\ lastCommand # None => m.cmd.number # latest[a]
<1> DEFINE c == m.cmd
<1>1. m \in CommandSent /\ c \in Command /\ c.ioc = m.ioc
    BY DeliveredIsSent DEF CarryOut, TypesInv
<1>2. Sent(c)
    BY <1>1 DEF Sent
<1>3. m.ioc = a /\ c.ioc = a /\ c.number \in Int
    BY <1>1, CommandOfIoc
<1>4. latest[a] \in Int
    BY CommandFacts DEF TypesInv, TypeOK
<1>5. c.number >= latest[a]
    BY <1>3 DEF CarryOut, Delivered
<1>6. c.number <= number[a]
    BY <1>1, <1>3 DEF TypesInv, NumbersNameCommands
<1>7. ASSUME lastCommand # None, c.number = latest[a] PROVE FALSE
  <2>1. Sent(lastCommand) /\ lastCommand.number = latest[lastCommand.ioc]
      BY <1>7 DEF LastIsNewest
  <2>2. lastCommand.ioc = a
      BY <2>1, SentIsCommand, CommandFields DEF TypesInv
  <2>3. lastCommand = c
      BY <1>2, <1>3, <1>7, <2>1, <2>2, SentOnce DEF TypesInv
  <2>4. IsDuplicate(c)
      BY <1>7, <2>3 DEF IsDuplicate
  <2> QED BY <2>4 DEF CarryOut
<1> QED BY <1>1, <1>2, <1>3, <1>4, <1>5, <1>6, <1>7

\* A reply answers with the number and the value it is given, since this start.
LEMMA ReplyFields ==
  ASSUME NEW m, NEW r, NEW s, NEW o
  PROVE  /\ Reply(m, r, s, o).type = "Reply" /\ Reply(m, r, s, o).ioc = m.ioc
         /\ Reply(m, r, s, o).number = r.number /\ Reply(m, r, s, o).value = r.value
         /\ Reply(m, r, s, o).boots = boots
BY DEF Reply

\* The newest of the replies is the kept answer, and one more that is sent is it.
LEMMA OneMoreAnswer ==
  ASSUME RepliesAnswer, NEW r, net' = net \/ net' = net \cup {r},
         UNCHANGED <<latest, lastCommand, reply, boots>>,
         boots \in Nat, lastCommand # None,
         r.ioc \in Ioc, r.number \in Int, r.boots = boots,
         r.number = latest[r.ioc], r.value = reply.value
  PROVE  RepliesAnswer'
BY DEF RepliesAnswer

\* Carrying out a command: what was answered before it is older.
LEMMA CarryOutAccepted ==
  ASSUME AcceptedInv, ResetRemembered, InOrder, NEW a, Ioc = {a},
         NEW m \in net, CarryOut(m), CommandSent' = CommandSent
  PROVE  LastIsNewest' /\ DeliveredIsIssued' /\ RepliesAnswer' /\ PendingIsSent' /\ AcceptedIsKept'
<1> DEFINE c == m.cmd
<1>1. /\ c \in Command /\ Sent(c) /\ m.ioc = a /\ c.ioc = a
      /\ c.number \in Int /\ latest[a] \in Int /\ c.number >= latest[a]
      /\ c.number <= number[a]
      /\ lastCommand # None => c.number # latest[a]
    BY CarriedOutIsNewer DEF AcceptedInv
<1>2. lastCommand' = c /\ UNCHANGED <<pending, number, accepted, boots>>
      /\ reply' = [number |-> c.number, value |-> Answer(c, hw')]
    BY DEF CarryOut, client
<1>3. latest' = [latest EXCEPT ![a] = c.number]
    BY <1>1 DEF CarryOut, Delivered
<1>4. latest'[a] = c.number
    BY <1>3 DEF AcceptedInv, TypesInv, TypeOK
<1>5. Sent(c)'
    BY <1>1, SentStays
<1>6. reply'.number = c.number
    BY <1>2
<1>7. c # None
    BY <1>1, CommandFields
<1>8. boots \in Nat /\ number[a] \in Int
    BY CommandFacts DEF AcceptedInv, TypesInv, TypeOK
<1> DEFINE r == Reply(m, reply', setting', shown')
<1>9. net' = net \/ net' = net \cup {r}
    BY DEF CarryOut
<1>10. /\ r.ioc = a /\ r.number = c.number /\ r.value = reply'.value /\ r.boots = boots
    BY <1>1, <1>6, ReplyFields
<1> HIDE DEF r, c
<1>11. LastIsNewest'
    BY <1>1, <1>2, <1>4, <1>5, <1>6 DEF LastIsNewest
<1>12. DeliveredIsIssued'
    BY <1>1, <1>2, <1>4 DEF DeliveredIsIssued
<1>13. RepliesAnswer'
  <2> SUFFICES ASSUME NEW k \in net', k.type = "Reply"
               PROVE  /\ k.ioc \in Ioc /\ k.number \in Int /\ k.boots \in Nat /\ k.boots <= boots
                      /\ k.boots = boots =>
                           /\ k.number <= latest'[k.ioc]
                           /\ k.number = latest'[k.ioc] => k.value = reply'.value
      BY <1>2, <1>7 DEF RepliesAnswer
  <2>1. CASE k = r
      BY <1>1, <1>4, <1>8, <1>10, <2>1
  <2>2. CASE k \in net
    <3>1. /\ k.ioc \in Ioc /\ k.number \in Int /\ k.boots \in Nat /\ k.boots <= boots
          /\ k.boots = boots =>
               /\ k.number <= latest[k.ioc]
               /\ k.number = latest[k.ioc] => lastCommand # None
        BY <2>2 DEF AcceptedInv, RepliesAnswer
    <3>2. k.ioc = a
        BY <3>1
    <3> QED BY <1>1, <1>4, <3>1, <3>2
  <2> QED BY <1>9, <2>1, <2>2
<1>14. PendingIsSent'
    BY <1>2, SentStays DEF AcceptedInv, PendingIsSent
<1>15. AcceptedIsKept'
  <2>1. ASSUME accepted[a] # None, accepted[a].boots = boots, pending[a] = None
        PROVE  FALSE
    <3>1. lastCommand # None /\ latest[a] = number[a]
        BY <2>1 DEF AcceptedInv, AcceptedIsKept
    <3> QED BY <1>1, <1>8, <3>1
  <2> QED BY <1>2, <2>1 DEF AcceptedInv, AcceptedIsKept
<1> QED BY <1>11, <1>12, <1>13, <1>14, <1>15

\* Answering the last command again: the answer is the kept one.
LEMMA AnswerAgainAccepted ==
  ASSUME AcceptedInv, InOrder, NEW a, Ioc = {a},
         NEW m \in net, AnswerAgain(m), CommandSent' = CommandSent
  PROVE  LastIsNewest' /\ DeliveredIsIssued' /\ RepliesAnswer' /\ PendingIsSent' /\ AcceptedIsKept'
<1> DEFINE c == m.cmd
           r == Reply(m, reply, setting, shown)
<1>1. UNCHANGED <<lastCommand, reply, boots, pending, number, accepted>>
    BY DEF AnswerAgain, server, client
<1>2. c \in Command /\ c.ioc = m.ioc
    BY DeliveredIsSent DEF AnswerAgain, AcceptedInv, TypesInv
<1>3. m.ioc = a /\ c.number \in Int
    BY <1>2, CommandOfIoc
<1>4. lastCommand # None /\ lastCommand.number = c.number
    BY DEF AnswerAgain, IsDuplicate
<1>5. Sent(lastCommand) /\ lastCommand.number = latest[lastCommand.ioc]
      /\ reply.number = lastCommand.number
    BY <1>4 DEF AcceptedInv, LastIsNewest
<1>6. lastCommand.ioc = a
    BY <1>5, SentIsCommand, CommandFields DEF AcceptedInv, TypesInv
<1>7. latest' = latest
  <2>1. latest' = [latest EXCEPT ![a] = c.number]
      BY <1>3 DEF AnswerAgain, Delivered
  <2>2. c.number = latest[a]
      BY <1>4, <1>5, <1>6
  <2> QED BY <2>1, <2>2 DEF AcceptedInv, TypesInv, TypeOK
<1>8. net' = net \cup {r}
    BY DEF AnswerAgain
<1>9. r.ioc = a /\ r.number = reply.number /\ r.value = reply.value /\ r.boots = boots
    BY <1>3, ReplyFields
<1>10. boots \in Nat
    BY DEF AcceptedInv, TypesInv, TypeOK
<1> HIDE DEF r, c
<1>11. RepliesAnswer'
    BY <1>1, <1>3, <1>4, <1>5, <1>6, <1>7, <1>8, <1>9, <1>10, OneMoreAnswer DEF AcceptedInv
<1>12. LastIsNewest'
    BY <1>1, <1>7, SentStays DEF AcceptedInv, LastIsNewest
<1>13. DeliveredIsIssued'
    BY <1>1, <1>7 DEF AcceptedInv, DeliveredIsIssued
<1>14. PendingIsSent'
    BY <1>1, SentStays DEF AcceptedInv, PendingIsSent
<1>15. AcceptedIsKept'
    BY <1>1, <1>7 DEF AcceptedInv, AcceptedIsKept
<1> QED BY <1>11, <1>12, <1>13, <1>14, <1>15
\* A reset that fails is answered with the kept answer.
LEMMA RebootFailsAccepted ==
  ASSUME AcceptedInv, ResetRemembered, NEW a, Ioc = {a}, RebootFails, CommandSent' = CommandSent
  PROVE  LastIsNewest' /\ DeliveredIsIssued' /\ RepliesAnswer' /\ PendingIsSent' /\ AcceptedIsKept'
<1> DEFINE m == [ioc |-> lastCommand.ioc, cmd |-> lastCommand]
           r == Reply(m, reply, setting, shown)
<1>1. UNCHANGED <<lastCommand, reply, boots, pending, number, accepted, latest>>
    BY DEF RebootFails, client
<1>2. lastCommand # None
    BY DEF RebootFails, ResetRemembered
<1>3. Sent(lastCommand) /\ lastCommand.number = latest[lastCommand.ioc]
      /\ reply.number = lastCommand.number
    BY <1>2 DEF AcceptedInv, LastIsNewest
<1>4. lastCommand.ioc = a /\ lastCommand.number \in Int
    BY <1>3, SentIsCommand, CommandOfIoc DEF AcceptedInv, TypesInv
<1>5. net' = net \cup {r}
    BY DEF RebootFails
<1>6. m.ioc = a
    BY <1>4
<1> HIDE DEF m
<1>7. r.ioc = a /\ r.number = reply.number /\ r.value = reply.value /\ r.boots = boots
    BY <1>6, ReplyFields
<1>8. boots \in Nat
    BY DEF AcceptedInv, TypesInv, TypeOK
<1> HIDE DEF r
<1>9. RepliesAnswer'
    BY <1>1, <1>2, <1>3, <1>4, <1>5, <1>7, <1>8, OneMoreAnswer DEF AcceptedInv
<1>10. LastIsNewest' /\ PendingIsSent'
    BY <1>1, SentStays DEF AcceptedInv, LastIsNewest, PendingIsSent
<1>11. DeliveredIsIssued' /\ AcceptedIsKept'
    BY <1>1 DEF AcceptedInv, DeliveredIsIssued, AcceptedIsKept
<1> QED BY <1>9, <1>10, <1>11

\* After a restart nothing has been answered since the start.
LEMMA RestartAccepted ==
  ASSUME AcceptedInv, Restart
  PROVE  LastIsNewest' /\ DeliveredIsIssued' /\ RepliesAnswer' /\ PendingIsSent' /\ AcceptedIsKept'
<1>1. lastCommand' = None /\ boots' = boots + 1 /\ UNCHANGED <<pending, number, accepted, net, latest>>
    BY DEF Restart, StartServer, client
<1>2. boots \in Nat
    BY DEF AcceptedInv, TypesInv, TypeOK
<1>3. LastIsNewest'
    BY <1>1 DEF LastIsNewest
<1>4. PendingIsSent'
    BY <1>1 DEF AcceptedInv, PendingIsSent, Sent, CommandSent
<1>5. DeliveredIsIssued'
    BY <1>1 DEF AcceptedInv, DeliveredIsIssued
<1>6. RepliesAnswer'
    BY <1>1, <1>2 DEF AcceptedInv, RepliesAnswer
<1>7. AcceptedIsKept'
    BY <1>1, <1>2 DEF AcceptedInv, AcceptedIsKept
<1> QED BY <1>3, <1>4, <1>5, <1>6, <1>7

\* A command that is issued is the one that is waited for.
LEMMA IssueAccepted ==
  ASSUME AcceptedInv,
         NEW i \in Ioc, NEW p \in Point, NEW w \in BOOLEAN, NEW v \in Value,
         Issue(i, p, w, v)
  PROVE  LastIsNewest' /\ DeliveredIsIssued' /\ RepliesAnswer' /\ PendingIsSent' /\ AcceptedIsKept'
<1> DEFINE c == [ioc |-> i, number |-> number[i] + 1, point |-> p, write |-> w,
                 value |-> IF w THEN v ELSE 0]
           m == [type |-> "Command", ioc |-> i, cmd |-> c]
<1>1. /\ number' = [number EXCEPT ![i] = @ + 1]
      /\ number[i] < MaxNumber
      /\ pending' = [pending EXCEPT ![i] = c]
      /\ net' = net \cup {m}
      /\ UNCHANGED <<lastCommand, reply, latest, accepted, boots>>
    BY DEF Issue, server
<1>2. /\ number \in [Ioc -> 0 .. MaxNumber] /\ latest \in [Ioc -> 0 .. MaxNumber]
      /\ pending \in [Ioc -> Command \cup {None}] /\ MaxNumber \in Nat
    BY CommandFacts DEF AcceptedInv, TypesInv, TypeOK
<1>3. CommandSent \subseteq CommandSent'
    BY <1>2, IssueNames DEF AcceptedInv, TypesInv
<1>4. m.type = "Command" /\ m.cmd = c /\ c.number = number[i] + 1
    OBVIOUS
<1>5. number[i] + 1 \in 1 .. MaxNumber
    BY <1>1, <1>2
<1>6. c \in Command
    BY <1>5 DEF Command
<1>7. c # None
    BY <1>6, CommandFields
<1> HIDE DEF c, m
<1>8. \E k \in CommandSent' : k.cmd = c
    BY <1>1, <1>4 DEF CommandSent
<1>9. \A j \in Ioc : /\ number'[j] = IF j = i THEN number[i] + 1 ELSE number[j]
                     /\ pending'[j] = IF j = i THEN c ELSE pending[j]
    BY <1>1, <1>2
<1>10. LastIsNewest'
    BY <1>1, <1>3, SentStays DEF AcceptedInv, LastIsNewest
<1>11. DeliveredIsIssued'
  <2>1. \A j \in Ioc : number[j] \in Int /\ latest[j] \in Int
      BY <1>2
  <2> QED BY <1>1, <1>9, <2>1 DEF AcceptedInv, DeliveredIsIssued
<1>12. RepliesAnswer'
  <2>1. m.type # "Reply"
      BY <1>4
  <2> QED BY <1>1, <2>1 DEF AcceptedInv, RepliesAnswer
<1>13. PendingIsSent'
  <2> SUFFICES ASSUME NEW j \in Ioc, pending'[j] # None
               PROVE  /\ \E k \in CommandSent' : k.cmd = pending'[j]
                      /\ pending'[j].number = number'[j]
      BY DEF PendingIsSent, Sent
  <2>1. CASE j = i
      BY <1>4, <1>8, <1>9, <2>1
  <2>2. CASE j # i
    <3>1. pending'[j] = pending[j] /\ number'[j] = number[j]
        BY <1>9, <2>2
    <3>2. Sent(pending[j]) /\ pending[j].number = number[j]
        BY <3>1 DEF AcceptedInv, PendingIsSent
    <3> QED BY <1>3, <3>1, <3>2 DEF Sent
  <2> QED BY <2>1, <2>2
<1>14. AcceptedIsKept'
    BY <1>1, <1>7, <1>9 DEF AcceptedInv, AcceptedIsKept
<1> QED BY <1>10, <1>11, <1>12, <1>13, <1>14

\* An answer that is accepted and from this start is the kept answer to the last
\* command carried out.
LEMMA AcceptAccepted ==
  ASSUME AcceptedInv, NEW a, Ioc = {a}, NEW m \in net, Accept(m)
  PROVE  LastIsNewest' /\ DeliveredIsIssued' /\ RepliesAnswer' /\ PendingIsSent' /\ AcceptedIsKept'
<1>1. m.ioc = a /\ m.number \in Int /\ m.boots \in Nat /\ m.boots <= boots
    BY DEF Accept, AcceptedInv, RepliesAnswer
<1> DEFINE p == pending[a]
           n == [cmd |-> p, value |-> m.value, boots |-> m.boots]
<1>2. /\ pending[a] # None /\ m.number = number[a]
      /\ pending' = [pending EXCEPT ![a] = None]
      /\ accepted' = [accepted EXCEPT ![a] = n]
      /\ UNCHANGED <<lastCommand, reply, number, latest, net, boots>>
    BY <1>1 DEF Accept, server
<1>3. pending \in [Ioc -> Command \cup {None}] /\ accepted = [i \in Ioc |-> accepted[i]]
    BY DEF AcceptedInv, TypesInv, TypeOK, AcceptedIsKept
<1>4. Sent(p) /\ p.number = number[a]
    BY <1>2 DEF AcceptedInv, PendingIsSent
<1>5. n.cmd = p /\ n.value = m.value /\ n.boots = m.boots
    OBVIOUS
<1> HIDE DEF n
<1>6. accepted' = [i \in Ioc |-> n] /\ pending' = [i \in Ioc |-> None]
    BY <1>2, <1>3
<1>7. ASSUME m.boots = boots
      PROVE  /\ lastCommand # None /\ lastCommand = p
             /\ m.value = reply.value /\ latest[a] = number[a]
  <2>1. latest[a] <= number[a] /\ latest[a] \in Int /\ number[a] \in Int
      BY CommandFacts DEF AcceptedInv, DeliveredIsIssued, TypesInv, TypeOK
  <2>2. m.number <= latest[a]
      BY <1>1, <1>7 DEF Accept, AcceptedInv, RepliesAnswer
  <2>3. m.number = latest[a] /\ latest[a] = number[a]
      BY <1>2, <2>1, <2>2
  <2>4. lastCommand # None /\ m.value = reply.value
      BY <1>1, <1>7, <2>3 DEF Accept, AcceptedInv, RepliesAnswer
  <2>5. Sent(lastCommand) /\ lastCommand.number = latest[lastCommand.ioc]
      BY <2>4 DEF AcceptedInv, LastIsNewest
  <2>6. lastCommand.ioc = a /\ p.ioc = a
      BY <1>4, <2>5, SentIsCommand, CommandOfIoc DEF AcceptedInv, TypesInv
  <2>7. lastCommand = p
      BY <1>4, <2>3, <2>5, <2>6, SentOnce DEF AcceptedInv, TypesInv
  <2> QED BY <2>3, <2>4, <2>7
<1>8. AcceptedIsKept'
    BY <1>1, <1>2, <1>5, <1>6, <1>7 DEF AcceptedIsKept
<1>9. PendingIsSent'
    BY <1>6 DEF PendingIsSent
<1>10. LastIsNewest'
    BY <1>2, SentStays DEF AcceptedInv, LastIsNewest, CommandSent
<1>11. DeliveredIsIssued' /\ RepliesAnswer'
    BY <1>2 DEF AcceptedInv, DeliveredIsIssued, RepliesAnswer
<1> QED BY <1>8, <1>9, <1>10, <1>11

\* A command that is abandoned leaves nothing accepted.
LEMMA AbandonAccepted ==
  ASSUME AcceptedInv, NEW i \in Ioc, Abandon(i)
  PROVE  LastIsNewest' /\ DeliveredIsIssued' /\ RepliesAnswer' /\ PendingIsSent' /\ AcceptedIsKept'
<1>1. /\ pending' = [pending EXCEPT ![i] = None]
      /\ accepted' = [accepted EXCEPT ![i] = None]
      /\ UNCHANGED <<lastCommand, reply, number, latest, net, boots>>
    BY DEF Abandon, server
<1>2. pending \in [Ioc -> Command \cup {None}] /\ accepted = [j \in Ioc |-> accepted[j]]
    BY DEF AcceptedInv, TypesInv, TypeOK, AcceptedIsKept
<1>3. \A j \in Ioc : /\ pending'[j] = IF j = i THEN None ELSE pending[j]
                     /\ accepted'[j] = IF j = i THEN None ELSE accepted[j]
    BY <1>1, <1>2
<1>4. accepted' = [j \in Ioc |-> accepted'[j]]
    BY <1>1, <1>2
<1>5. AcceptedIsKept'
    BY <1>1, <1>3, <1>4 DEF AcceptedInv, AcceptedIsKept
<1>6. LastIsNewest' /\ PendingIsSent'
    BY <1>1, <1>3, SentStays DEF AcceptedInv, LastIsNewest, PendingIsSent, CommandSent
<1>7. DeliveredIsIssued' /\ RepliesAnswer'
    BY <1>1 DEF AcceptedInv, DeliveredIsIssued, RepliesAnswer
<1> QED BY <1>5, <1>6, <1>7

\* A step that changes nothing but settings.
LEMMA QuietAccepted ==
  ASSUME AcceptedInv,
         UNCHANGED <<lastCommand, reply, pending, number, accepted, net, latest, boots>>
  PROVE  LastIsNewest' /\ DeliveredIsIssued' /\ RepliesAnswer' /\ PendingIsSent' /\ AcceptedIsKept'
<1>1. LastIsNewest' /\ PendingIsSent'
    BY SentStays DEF AcceptedInv, LastIsNewest, PendingIsSent, CommandSent
<1>2. DeliveredIsIssued' /\ RepliesAnswer' /\ AcceptedIsKept'
    BY DEF AcceptedInv, DeliveredIsIssued, RepliesAnswer, AcceptedIsKept
<1> QED BY <1>1, <1>2

\* What is sent besides commands leaves the commands sent.
LEMMA ReplySendsNoCommand ==
  ASSUME NEW m, NEW r, NEW s, NEW o, net' = net \/ net' = net \cup {Reply(m, r, s, o)}
  PROVE  CommandSent' = CommandSent
<1> DEFINE k == Reply(m, r, s, o)
<1>1. k.type # "Command"
    BY ReplyFields
<1>2. net' = net \/ net' = net \cup {k}
    OBVIOUS
<1> HIDE DEF k
<1> QED BY <1>1, <1>2 DEF CommandSent

\* Every step keeps what has been answered true, with one IOC and in order.
LEMMA AcceptedStep ==
  ASSUME AcceptedInv, RepliesInv, InOrder, NEW a, Ioc = {a}, [Next]_vars
  PROVE  AcceptedInv'
<1>1. TypesInv' /\ AnswerKept' /\ ResetRemembered
    BY RepliesStep DEF RepliesInv
<1> SUFFICES LastIsNewest' /\ DeliveredIsIssued' /\ RepliesAnswer' /\ PendingIsSent'
             /\ AcceptedIsKept'
    BY <1>1 DEF AcceptedInv
<1>2. CASE \E m \in net : AnswerAgain(m)
  <2>1. PICK m \in net : AnswerAgain(m)
      BY <1>2
  <2>2. CommandSent' = CommandSent
      BY <2>1, ReplySendsNoCommand DEF AnswerAgain
  <2> QED BY <2>1, <2>2, AnswerAgainAccepted
<1>3. CASE \E m \in net : CarryOut(m)
  <2>1. PICK m \in net : CarryOut(m)
      BY <1>3
  <2>2. net' = net \/ net' = net \cup {Reply(m, reply', setting', shown')}
      BY <2>1 DEF CarryOut
  <2>3. CommandSent' = CommandSent
      BY <2>2, ReplySendsNoCommand
  <2> QED BY <1>1, <2>1, <2>3, CarryOutAccepted
<1>4. CASE RebootFails
  <2>1. CommandSent' = CommandSent
      BY <1>4, ReplySendsNoCommand DEF RebootFails
  <2> QED BY <1>1, <1>4, <2>1, RebootFailsAccepted
<1>5. CASE Restart
    BY <1>5, RestartAccepted
<1>6. CASE ConsoleDebug
    BY <1>6, QuietAccepted DEF ConsoleDebug, client
<1>7. CASE Network
    BY <1>7, AcceptAccepted DEF Network
<1>8. CASE Client
    BY <1>8, IssueAccepted, AbandonAccepted DEF Client
<1>9. CASE UNCHANGED vars
    BY <1>9, QuietAccepted DEF vars, server, client
<1>10. CASE HardwareMoves
    BY <1>10, QuietAccepted DEF HardwareMoves, client
<1> QED BY <1>2, <1>3, <1>4, <1>5, <1>6, <1>7, <1>8, <1>9, <1>10 DEF Next, Bpm

\* At first nothing has been answered.
LEMMA AcceptedInit == Init => AcceptedInv /\ RepliesInv
<1> SUFFICES ASSUME Init PROVE AcceptedInv /\ RepliesInv
    OBVIOUS
<1>1. TypesInv
    BY TypesInit
<1>2. lastCommand = None /\ rebooting = FALSE /\ net = {}
    BY DEF Init, StartServer
<1>3. /\ AnswerKept /\ WriteKept /\ ResetRemembered /\ ReplyTellsSetting
      /\ LastIsNewest /\ RepliesAnswer
    BY <1>2
    DEF AnswerKept, WriteKept, ResetRemembered, ReplyTellsSetting, LastIsNewest, RepliesAnswer
<1>4. DeliveredIsIssued /\ PendingIsSent /\ AcceptedIsKept
    BY DEF Init, DeliveredIsIssued, PendingIsSent, AcceptedIsKept
<1> QED BY <1>1, <1>3, <1>4 DEF AcceptedInv, RepliesInv

\* With one IOC and a network that keeps its datagrams in order, what the IOC has
\* been answered of a point only commands write stays true until its next command or
\* a restart of the BPM; and an autotrim mode, a filter shift or a self-trigger level
\* that it has had answered is in its register, pending or in effect, whatever the
\* hardware has done since.
THEOREM AcceptedWritesHold ==
  ASSUME InOrder, NEW a, Ioc = {a}
  PROVE  Spec => []AcceptedWriteHolds
<1>1. AcceptedInv /\ RepliesInv /\ [Next]_vars => (AcceptedInv /\ RepliesInv)'
    BY AcceptedStep, RepliesStep
<1>2. AcceptedInv /\ RepliesInv => AcceptedWriteHolds
  <2> SUFFICES ASSUME AcceptedInv, RepliesInv PROVE AcceptedWriteHolds
      OBVIOUS
  <2> SUFFICES ASSUME NEW i \in Ioc, pending[i] = None, accepted[i] # None,
                      accepted[i].boots = boots
               PROVE  /\ accepted[i].cmd.point \in Settings \ {"debug"} =>
                           accepted[i].value
                             = Reported(accepted[i].cmd.point, setting[accepted[i].cmd.point])
                      /\ accepted[i].cmd.write
                         /\ KeepsWrite(accepted[i].cmd.point, accepted[i].cmd.value) =>
                           Told(accepted[i].cmd.point, hw)
                             = Asked(accepted[i].cmd.point, accepted[i].cmd.value)
      BY DEF AcceptedWriteHolds, AcceptedInv, TypesInv
  <2>1. lastCommand # None /\ lastCommand = accepted[i].cmd /\ accepted[i].value = reply.value
      BY DEF AcceptedInv, AcceptedIsKept
  <2> QED BY <2>1 DEF RepliesInv, AnswerKept, WriteKept
<1> QED BY <1>1, <1>2, AcceptedInit, PTL DEF Spec
=============================================================================
