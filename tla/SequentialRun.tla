--------------------------- MODULE SequentialRun ---------------------------
(***************************************************************************)
(* What a workflow run promises, with one atomic actor: the actions of the *)
(* graph's order are started one after the other, the effect of an action  *)
(* happens at most once and never before its start is on record, and a     *)
(* failed action ends the run.  The effect may be outlived by the record:  *)
(* an action whose executor was given up for lost is recorded as an        *)
(* uncertain failure, and its effect may still happen after that.          *)
(***************************************************************************)
EXTENDS Naturals

CONSTANT N          \* the number of actions in the graph's order

VARIABLES
    record,         \* [1 .. N -> action state as recorded]
    performed       \* the actions whose effect has happened

avars == <<record, performed>>

Action == 1 .. N

AInit == record = [n \in Action |-> "pending"] /\ performed = {}

Start(n) ==
    /\ record[n] = "pending"
    /\ \A m \in 1 .. n - 1 : record[m] = "completed"
    /\ record' = [record EXCEPT ![n] = "started"]
    /\ UNCHANGED performed

Perform(n) ==
    /\ record[n] \in {"started", "uncertain"}
    /\ n \notin performed
    /\ performed' = performed \cup {n}
    /\ UNCHANGED record

\* Only an action whose effect happened completes.
Succeed(n) ==
    /\ record[n] = "started"
    /\ n \in performed
    /\ record' = [record EXCEPT ![n] = "completed"]
    /\ UNCHANGED performed

Fail(n) ==
    /\ record[n] = "started"
    /\ \E outcome \in {"failed", "uncertain"} : record' = [record EXCEPT ![n] = outcome]
    /\ UNCHANGED performed

ANext == \E n \in Action : Start(n) \/ Perform(n) \/ Succeed(n) \/ Fail(n)

ASpec == AInit /\ [][ANext]_avars
=============================================================================
