----------------------------- MODULE AtMostOnce -----------------------------
(***************************************************************************)
(* What a client may expect of a command server: a command it issues is     *)
(* carried out once or not at all as long as the server is up.  A server    *)
(* that restarts has carried out nothing.                                  *)
(***************************************************************************)
EXTENDS Naturals

CONSTANT Name \* the names of the commands that may be issued

VARIABLE times \* how often each has been carried out since the last start

Never == [c \in Name |-> 0]

Init == times = Never

Execute(c) == times[c] = 0 /\ times' = [times EXCEPT ![c] = 1]

Restart == times' = Never

Next == Restart \/ \E c \in Name : Execute(c)

Spec == Init /\ [][Next]_times
=============================================================================
