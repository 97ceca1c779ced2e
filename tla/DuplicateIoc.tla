---------------------------- MODULE DuplicateIoc -----------------------------
(***************************************************************************)
(* The detection of a second IOC (duplicateIOCcheck in server.c): every     *)
(* packet that reaches the command server is examined for its sender, and   *)
(* the system monitor that publisher.c sends carries the result.            *)
(*                                                                         *)
(* The code keeps times in seconds since the FPGA was started.  Only         *)
(* differences between them and the present matter, so the model keeps      *)
(* these; they stop at Cap, beyond which nothing tells them apart.  The     *)
(* wrap of the 32 bit clock after 136 years is left out.                   *)
(***************************************************************************)
EXTENDS Integers, FiniteSets

CONSTANTS
  IOC,     \* senders, that is pairs of address and port
  NoIOC,   \* the zero that oldAddress starts with
  Change,  \* changes closer together than this are suspect: 10
  Hold,    \* the flag is kept up for this long: 15
  Period   \* the system monitor is sent this often

ASSUME DuplicateAssumption ==
  /\ IsFiniteSet(IOC) /\ NoIOC \notin IOC
  /\ Change \in Nat \ {0} /\ Hold \in Nat /\ Hold >= Change
  /\ Period \in Nat

VARIABLES
  old,             \* oldAddress, oldPort
  sinceChanged,    \* now - whenChanged
  sinceDuplicate,  \* now - whenDuplicate
  subscribed,      \* the publisher has a subscriber
  sincePublished,  \* now - previousMonSysTicks
  duplicateIOC,    \* of the system monitor sent last
  uptime,          \* now
  silent,          \* for how long each sender has not been heard
  contended        \* for how long two senders at least have been active

publisher == <<subscribed, sincePublished, duplicateIOC>>
DupVars == <<old, sinceChanged, sinceDuplicate, publisher, uptime, silent, contended>>

Cap == 2 * Change + Hold
Age == 0 .. Cap
Older(age) == IF age = Cap THEN Cap ELSE age + 1

DupTypeOK ==
  /\ old \in IOC \cup {NoIOC}
  /\ sinceChanged <= sinceDuplicate \* the former is the time of a change too
  /\ sinceChanged \in Age /\ sinceDuplicate \in Age /\ uptime \in Age
  /\ duplicateIOC \in BOOLEAN /\ subscribed \in BOOLEAN
  /\ sincePublished \in 0 .. Period
  /\ silent \in [IOC -> Age] /\ contended \in Age

\* The statics of duplicateIOCcheck are zero, as is the clock.
DupInit ==
  /\ old = NoIOC
  /\ sinceChanged = 0 /\ sinceDuplicate = 0 /\ uptime = 0
  /\ subscribed = FALSE /\ sincePublished = 0 /\ duplicateIOC = FALSE
  /\ silent = [i \in IOC |-> Cap] /\ contended = 0

\* The value duplicateIOCcheck returns.
Duplicate == sinceDuplicate < Hold

SuspectTwice(age) == age < Hold - Change \* mutant: changes must come faster
Suspect(age) == age < Change

ChangedNow(age) == 0

\* server_callback
Packet(i) ==
  /\ IF i # old
     THEN /\ sinceDuplicate' = IF Suspect(sinceChanged) THEN 0 ELSE sinceDuplicate
          /\ old' = i
          /\ sinceChanged' = ChangedNow(sinceChanged)
     ELSE UNCHANGED <<old, sinceChanged, sinceDuplicate>>
  /\ silent' = [silent EXCEPT ![i] = 0]
  /\ UNCHANGED <<publisher, uptime, contended>>

\* publisher_callback; the command server does not see this packet.
Subscribe ==
  /\ ~subscribed
  /\ subscribed' = TRUE
  /\ UNCHANGED <<old, sinceChanged, sinceDuplicate, sincePublished, duplicateIOC,
                 uptime, silent, contended>>

\* publishSystemMonitor, when publisherCheck finds that it is time.
Publish ==
  /\ subscribed /\ sincePublished = Period
  /\ sincePublished' = 0
  /\ duplicateIOC' = Duplicate
  /\ UNCHANGED <<subscribed, old, sinceChanged, sinceDuplicate, uptime, silent, contended>>

Active(ages) == {i \in IOC : ages[i] < Change}

Second ==
  /\ sinceChanged' = Older(sinceChanged)
  /\ sinceDuplicate' = Older(sinceDuplicate)
  /\ uptime' = Older(uptime)
  /\ silent' = [i \in IOC |-> Older(silent[i])]
  /\ contended' = IF Cardinality(Active(silent')) >= 2 THEN Older(contended) ELSE 0
  /\ sincePublished' = IF subscribed /\ sincePublished < Period
                       THEN sincePublished + 1 ELSE sincePublished
  /\ UNCHANGED <<old, subscribed, duplicateIOC>>

DupNext == (\E i \in IOC : Packet(i)) \/ Subscribe \/ Publish \/ Second

DupSpec == DupInit /\ [][DupNext]_DupVars

(***************************************************************************)
(* Properties                                                              *)
(***************************************************************************)

\* Two IOCs that both keep sending, neither silent for as long as Change, are
\* detected after that time and stay detected, however their packets are
\* spread: an IOC may send in bursts or just in time.
ContentionDetected == contended >= Change => Duplicate

\* An IOC that has the BPM to itself clears the flag, at the latest when every
\* other one has been silent for Change + Hold.
FlagClears ==
  /\ uptime >= Change + Hold
  /\ \E i \in IOC : \A j \in IOC \ {i} : silent[j] >= Change + Hold
  => ~Duplicate

\* The flag of the system monitor tells whether IOCs contend for the BPM: it
\* rises in time, stays as long as they do, and clears (server.c:31-63).
FlagTellsContention == ContentionDetected /\ FlagClears

=============================================================================
